--------------------------- MODULE AstTensorProofs ---------------------------
(***************************************************************************)
(* What AstTensor guarantees for every manifest and every limit: the       *)
(* indices decode while the vocabularies grow, no link is set twice, and   *)
(* the links of a finished corpus are the children of the JSON trees.      *)
(***************************************************************************)
EXTENDS AstTensor, WellFoundedInduction, TLAPS

RowSet ==
  [kind : Nat, parent : Int, first : Int, next : Int, depth : Nat, ident : Nat,
   tu : Nat, from : Nat \X Nat]
FrameSet == [node : Nat, idx : Nat, depth : Nat, at : Nat, prev : Int]

\* STRING, with the literals the provers do not know to be strings.
Strings == STRING \cup {"<unknown>", "", "<root>"}
Vocab(v, sentinel) == v \in Seq(Strings) /\ Len(v) >= 1 /\ IsVocab(v, sentinel)
Extends(v, w) == \A i \in DOMAIN v : i \in DOMAIN w /\ w[i] = v[i]

\* A row decodes to the node it was made from, within the limits of its arrays.
RowFits(r, m, ks, is, ts) ==
  /\ r.from[1] \in DOMAIN m /\ r.from[2] \in DOMAIN m[r.from[1]].tree.inner
  /\ r.kind \in 0..MaxU16 /\ r.tu \in 0..MaxU16 /\ r.depth \in 0..MaxU8
  /\ r.kind + 1 \in DOMAIN ks /\ ks[r.kind + 1] = m[r.from[1]].tree.kind[r.from[2]]
  /\ r.tu + 1 \in DOMAIN ts /\ ts[r.tu + 1] = m[r.from[1]].source
  /\ r.ident + 1 \in DOMAIN is
  /\ is[r.ident + 1] = IF m[r.from[1]].tree.name[r.from[2]] # ""
                       THEN m[r.from[1]].tree.name[r.from[2]] ELSE m[r.from[1]].tree.ref[r.from[2]]

\* A frame is the visit of the node its row was made from, which is not linked
\* yet to the next sibling, nor is the child it linked last.
FrameFits(f, arr, e, tree) ==
  /\ f.idx + 1 \in 1..Len(arr) /\ f.node \in DOMAIN tree.inner
  /\ f.at \in 1..(Len(tree.inner[f.node]) + 1)
  /\ arr[f.idx + 1].from = <<e, f.node>> /\ arr[f.idx + 1].next = -1
  /\ \/ f.prev = -1
     \/ f.prev > f.idx /\ f.prev + 1 \in 1..Len(arr) /\ arr[f.prev + 1].next = -1

Base ==
  /\ manifest \in Manifests /\ phase \in {"load", "done", "died"}
  /\ entry \in 1..(Len(manifest) + 1)
  /\ stack # <<>> => entry <= Len(manifest)
  /\ stack \in Seq(FrameSet) /\ nodes \in Seq(RowSet)
Vocabs == Vocab(kinds, "<unknown>") /\ Vocab(idents, "") /\ Vocab(tus, "<root>")
Rows ==
  \A i \in 1..Len(nodes) :
    /\ RowFits(nodes[i], manifest, kinds, idents, tus)
    /\ nodes[i].parent \in -1..(i - 2)
    /\ nodes[i].first \in -1..(Len(nodes) - 1) /\ nodes[i].next \in -1..(Len(nodes) - 1)
Frames ==
  \A k \in 1..Len(stack) :
    /\ FrameFits(stack[k], nodes, entry, manifest[entry].tree)
    /\ k > 1 => nodes[stack[k].idx + 1].parent = stack[k - 1].idx
    /\ k < Len(stack) => stack[k].at <= Len(manifest[entry].tree.inner[stack[k].node])
\* The frames are in the order of their indices, and what a frame linked last lies
\* before the frames above it: no two frames have linked the same node last.
Order ==
  \A j, k \in 1..Len(stack) :
    j < k => stack[j].idx < stack[k].idx /\ stack[j].prev < stack[k].idx

TensorInv == Base /\ Vocabs /\ Rows /\ Frames /\ Order
-----------------------------------------------------------------------------
LEMMA ElementOf ==
  ASSUME NEW S, NEW s \in Seq(S), NEW i \in 1..Len(s)
  PROVE  s[i] \in S
OBVIOUS

LEMMA Appending ==
  ASSUME NEW S, NEW s \in Seq(S), NEW x
  PROVE  /\ Len(s) \in Nat /\ Len(Append(s, x)) = Len(s) + 1
         /\ DOMAIN s = 1..Len(s) /\ DOMAIN Append(s, x) = 1..(Len(s) + 1)
         /\ \A i \in 1..Len(s) : Append(s, x)[i] = s[i]
         /\ Append(s, x)[Len(s) + 1] = x
         /\ x \in S => Append(s, x) \in Seq(S)
OBVIOUS

\* A string that is interned has an index, which decodes to it, and changes no
\* other string's.
LEMMA Interned ==
  ASSUME NEW v, NEW sentinel, Vocab(v, sentinel), NEW s \in Strings
  PROVE  /\ Vocab(Grow(v, s), sentinel) /\ Extends(v, Grow(v, s))
         /\ IdOf(v, s) \in Nat
         /\ IdOf(v, s) + 1 \in DOMAIN Grow(v, s) /\ Grow(v, s)[IdOf(v, s) + 1] = s
<1>1. v \in Seq(Strings) /\ Len(v) \in Nat /\ Len(v) >= 1 /\ DOMAIN v = 1..Len(v) /\ IsVocab(v, sentinel)
  BY DEF Vocab
<1>2. CASE s \in Range(v)
  <2>1. PICK i \in DOMAIN v : v[i] = s
    BY <1>2 DEF Range
  <2>2. (CHOOSE j \in DOMAIN v : v[j] = s) \in DOMAIN v /\ v[CHOOSE j \in DOMAIN v : v[j] = s] = s
    BY <2>1
  <2>3. IdOf(v, s) \in Nat /\ IdOf(v, s) + 1 = CHOOSE j \in DOMAIN v : v[j] = s
    <3> DEFINE c == CHOOSE j \in DOMAIN v : v[j] = s
    <3>1. c \in 1..Len(v) /\ IdOf(v, s) = c - 1
      BY <1>1, <1>2, <2>2 DEF IdOf
    <3> HIDE DEF c
    <3>2. c - 1 \in Nat /\ (c - 1) + 1 = c
      BY <1>1, <3>1
    <3> QED BY <3>1, <3>2 DEF c
  <2>4. Grow(v, s) = v
    BY <1>2 DEF Grow
  <2> QED BY <2>2, <2>3, <2>4 DEF Extends
<1>3. CASE s \notin Range(v)
  <2>1. Grow(v, s) = Append(v, s) /\ IdOf(v, s) = Len(v)
    BY <1>3 DEF Grow, IdOf
  <2>2. PICK w, l :
          /\ w = Append(v, s) /\ l = Len(v) /\ Len(w) = l + 1 /\ DOMAIN w = 1..(l + 1)
          /\ w[l + 1] = s /\ w \in Seq(Strings)
          /\ \A i \in 1..l : w[i] = v[i]
    <3>1. Len(Append(v, s)) = Len(v) + 1
      BY <1>1
    <3>2. DOMAIN Append(v, s) = 1..(Len(v) + 1)
      BY <1>1
    <3>3. Append(v, s)[Len(v) + 1] = s
      BY <1>1
    <3>4. \A i \in 1..Len(v) : Append(v, s)[i] = v[i]
      BY <1>1
    <3>5. Append(v, s) \in Seq(Strings)
      BY <1>1
    <3> QED BY <3>1, <3>2, <3>3, <3>4, <3>5, Zenon
  <2>3. l \in Nat /\ l >= 1
    BY <1>1, <2>2
  <2>4. \A i \in 1..l : v[i] # s
    BY <1>1, <1>3, <2>2 DEF Range
  <2>5. DOMAIN v = 1..l /\ v[1] = sentinel /\ \A i, j \in 1..l : v[i] = v[j] => i = j
    BY <1>1, <2>2 DEF IsVocab
  <2>6. w[1] = sentinel
    BY <2>2, <2>3, <2>5
  <2>7. \A i \in 1..(l + 1) : i # l + 1 => i \in 1..l
    BY <2>3
  <2>8. ASSUME NEW i \in DOMAIN w, NEW j \in DOMAIN w, w[i] = w[j]
        PROVE  i = j
    <3>1. CASE i = l + 1 /\ j # l + 1
      <4>1. j \in 1..l
        BY <2>2, <2>7, <3>1
      <4>2. w[j] = v[j] /\ w[i] = s
        BY <2>2, <3>1, <4>1
      <4> QED BY <2>4, <2>8, <4>1, <4>2
    <3>2. CASE j = l + 1 /\ i # l + 1
      <4>1. i \in 1..l
        BY <2>2, <2>7, <3>2
      <4>2. w[i] = v[i] /\ w[j] = s
        BY <2>2, <3>2, <4>1
      <4> QED BY <2>4, <2>8, <4>1, <4>2
    <3>3. CASE i # l + 1 /\ j # l + 1
      <4>1. i \in 1..l /\ j \in 1..l
        BY <2>2, <2>7, <3>3
      <4>2. w[i] = v[i] /\ w[j] = v[j]
        BY <2>2, <4>1
      <4> QED BY <2>5, <2>8, <4>1, <4>2
    <3> QED BY <3>1, <3>2, <3>3
  <2>9. Vocab(w, sentinel)
    <3>1. IsVocab(w, sentinel)
      BY <2>6, <2>8, Zenon DEF IsVocab
    <3>2. Len(w) >= 1
      <4>1. Len(w) = l + 1
        BY <2>2
      <4> QED BY <2>3, <4>1
    <3>3. w \in Seq(Strings)
      BY <2>2
    <3> QED BY <3>1, <3>2, <3>3, Zenon DEF Vocab
  <2>10. Extends(v, w) /\ l + 1 \in DOMAIN w
    BY <2>2, <2>3, <2>5 DEF Extends
  <2>11. Grow(v, s) = w /\ IdOf(v, s) = l
    BY <2>1, <2>2
  <2> QED BY <2>2, <2>3, <2>9, <2>10, <2>11
<1> QED BY <1>2, <1>3

LEMMA RowGrows ==
  ASSUME NEW r, NEW m, NEW ks, NEW is, NEW ts, NEW ks2, NEW is2, NEW ts2,
         RowFits(r, m, ks, is, ts), Extends(ks, ks2), Extends(is, is2), Extends(ts, ts2)
  PROVE  RowFits(r, m, ks2, is2, ts2)
BY DEF RowFits, Extends

LEMMA ExtendsSelf == \A v : Extends(v, v)
BY DEF Extends

\* The dump main is at, and its nodes.
LEMMA Entries ==
  ASSUME Base, entry <= Len(manifest)
  PROVE  /\ entry \in DOMAIN manifest /\ entry \in Nat
         /\ Now.source \in Strings
         /\ \A n \in DOMAIN Now.tree.inner :
              /\ n \in Nat
              /\ Now.tree.kind[n] \in Strings /\ IdentOf(n) \in Strings
              /\ Len(Now.tree.inner[n]) \in Nat
              /\ \A i \in 1..Len(Now.tree.inner[n]) : Now.tree.inner[n][i] \in 0..Len(Now.tree.inner)
         /\ 1 \in DOMAIN Now.tree.inner
         /\ DOMAIN Now.tree.inner = 1..Len(Now.tree.inner)
<1>1. manifest \in Seq(Dump) /\ \A e \in DOMAIN manifest : WellFormed(manifest[e].tree)
  BY ManifestAssumption DEF Base
<1>2. Len(manifest) \in Nat /\ DOMAIN manifest = 1..Len(manifest)
  BY <1>1
<1>3. entry \in 1..Len(manifest)
  BY <1>2 DEF Base
<1>4. Now \in Dump /\ WellFormed(Now.tree)
  BY <1>1, <1>2, <1>3, ElementOf DEF Now
<1>5. Now.source \in Strings /\ Now.tree \in Tree
  BY <1>4 DEF Dump, Strings
<1> DEFINE tree == Now.tree
<1>6. /\ tree.inner \in Seq(Seq(Nat)) /\ tree.kind \in Seq(Strings)
      /\ tree.name \in Seq(Strings) /\ tree.ref \in Seq(Strings)
  <2>1. /\ tree.inner \in Seq(Seq(Nat)) /\ tree.kind \in Seq(STRING)
        /\ tree.name \in Seq(STRING) /\ tree.ref \in Seq(STRING)
    BY <1>5 DEF Tree
  <2>2. \A S, T : S \subseteq T => \A s \in Seq(S) : s \in Seq(T)
    OBVIOUS
  <2>3. STRING \subseteq Strings
    BY DEF Strings
  <2> QED BY <2>1, <2>2, <2>3, Zenon
<1>7. /\ 1 \in DOMAIN tree.inner
      /\ Len(tree.kind) = Len(tree.inner) /\ Len(tree.name) = Len(tree.inner)
      /\ Len(tree.ref) = Len(tree.inner)
      /\ \A n \in DOMAIN tree.inner : \A i \in DOMAIN tree.inner[n] :
           tree.inner[n][i] \in 0..Len(tree.inner)
  BY <1>4 DEF WellFormed
<1>8. DOMAIN tree.inner = 1..Len(tree.inner) /\ Len(tree.inner) \in Nat
  BY <1>6
<1> HIDE DEF tree
<1>9. ASSUME NEW n \in DOMAIN tree.inner
      PROVE  /\ n \in Nat
             /\ tree.kind[n] \in Strings /\ tree.name[n] \in Strings /\ tree.ref[n] \in Strings
             /\ Len(tree.inner[n]) \in Nat
             /\ \A i \in 1..Len(tree.inner[n]) : tree.inner[n][i] \in 0..Len(tree.inner)
  <2>1. tree.inner[n] \in Seq(Nat)
    BY <1>6, <1>8, ElementOf
  <2>2. tree.kind[n] \in Strings /\ tree.name[n] \in Strings /\ tree.ref[n] \in Strings
    BY <1>6, <1>7, <1>8, ElementOf
  <2> QED BY <1>7, <1>8, <2>1, <2>2
<1>10. \A n \in DOMAIN tree.inner : IdentOf(n) \in Strings
  BY <1>9 DEF IdentOf, tree
<1> QED BY <1>2, <1>3, <1>5, <1>7, <1>8, <1>9, <1>10 DEF tree

\* The other rows of the arrays may be what they like.
LEMMA FrameKeeps ==
  ASSUME NEW f, NEW arr, NEW e, NEW tree, NEW arr2, FrameFits(f, arr, e, tree),
         Len(arr) \in Nat, Len(arr2) \in Nat, Len(arr2) >= Len(arr), f.idx \in Nat, f.prev \in Int,
         arr2[f.idx + 1] = arr[f.idx + 1],
         f.prev # -1 => arr2[f.prev + 1] = arr[f.prev + 1]
  PROVE  FrameFits(f, arr2, e, tree)
BY DEF FrameFits

\* A visit begins: a row that decodes, and the frame of its visit.
LEMMA RowMade ==
  ASSUME TensorInv, entry <= Len(manifest), NEW n \in DOMAIN Now.tree.inner,
         NEW parent \in -1..(Len(nodes) - 1), NEW depth \in Nat, NEW tu \in 0..MaxU16, Fits(n, tu),
         NEW ks, ks = Grow(kinds, Now.tree.kind[n]), NEW is, is = Grow(idents, IdentOf(n)),
         NEW ts, tu + 1 \in DOMAIN ts, ts[tu + 1] = Now.source
  PROVE  /\ Row(n, parent, depth, tu) \in RowSet
         /\ RowFits(Row(n, parent, depth, tu), manifest, ks, is, ts)
         /\ Vocab(ks, "<unknown>") /\ Vocab(is, "") /\ Extends(kinds, ks) /\ Extends(idents, is)
<1>1. /\ entry \in DOMAIN manifest /\ entry \in Nat /\ n \in Nat
      /\ Now.tree.kind[n] \in Strings /\ IdentOf(n) \in Strings
  BY Entries DEF TensorInv
<1>2. /\ Vocab(ks, "<unknown>") /\ Extends(kinds, ks) /\ IdOf(kinds, Now.tree.kind[n]) \in Nat
      /\ IdOf(kinds, Now.tree.kind[n]) + 1 \in DOMAIN ks
      /\ ks[IdOf(kinds, Now.tree.kind[n]) + 1] = Now.tree.kind[n]
  BY <1>1, Interned, Zenon DEF TensorInv, Vocabs
<1>3. /\ Vocab(is, "") /\ Extends(idents, is) /\ IdOf(idents, IdentOf(n)) \in Nat
      /\ IdOf(idents, IdentOf(n)) + 1 \in DOMAIN is
      /\ is[IdOf(idents, IdentOf(n)) + 1] = IdentOf(n)
  BY <1>1, Interned, Zenon DEF TensorInv, Vocabs
<1>4. PICK k, i, d : k = IdOf(kinds, Now.tree.kind[n]) /\ i = IdOf(idents, IdentOf(n)) /\ d = Min2(depth, MaxU8)
  OBVIOUS
<1>5. k \in 0..MaxU16 /\ i \in Nat /\ d \in 0..MaxU8
  <2>1. k \in Nat /\ k <= MaxU16 /\ i \in Nat
    BY <1>2, <1>3, <1>4, Zenon DEF Fits
  <2>2. d \in 0..MaxU8
    BY <1>4, TensorAssumption DEF Min2
  <2> QED BY <2>1, <2>2, TensorAssumption
<1>6. PICK r : r = Row(n, parent, depth, tu)
  OBVIOUS
<1>7. r = [kind |-> k, parent |-> parent, first |-> -1, next |-> -1, depth |-> d,
           ident |-> i, tu |-> tu, from |-> <<entry, n>>]
  BY <1>4, <1>6 DEF Row
<1>8. r \in RowSet
  <2>1. parent \in Int /\ k \in Nat /\ d \in Nat /\ tu \in Nat /\ i \in Nat
    BY <1>5, TensorAssumption
  <2>2. <<entry, n>> \in Nat \X Nat /\ -1 \in Int
    BY <1>1
  <2> QED BY <1>7, <2>1, <2>2 DEF RowSet
<1>9. RowFits(r, manifest, ks, is, ts)
  <2>1. r.from[1] = entry /\ r.from[2] = n /\ r.kind = k /\ r.ident = i /\ r.tu = tu /\ r.depth = d
    BY <1>7
  <2>2. k + 1 \in DOMAIN ks /\ ks[k + 1] = manifest[entry].tree.kind[n]
    BY <1>2, <1>4 DEF Now
  <2>3. /\ i + 1 \in DOMAIN is
        /\ is[i + 1] = IF manifest[entry].tree.name[n] # "" THEN manifest[entry].tree.name[n]
                       ELSE manifest[entry].tree.ref[n]
    BY <1>3, <1>4 DEF Now, IdentOf
  <2>4. /\ tu + 1 \in DOMAIN ts /\ ts[tu + 1] = manifest[entry].source
        /\ n \in DOMAIN manifest[entry].tree.inner
    BY DEF Now
  <2> QED BY <1>1, <1>5, <2>1, <2>2, <2>3, <2>4, Zenon DEF RowFits
<1> QED BY <1>2, <1>3, <1>6, <1>8, <1>9

LEMMA Entering ==
  ASSUME TensorInv, phase = "load", entry <= Len(manifest), NEW n \in DOMAIN Now.tree.inner,
         NEW parent \in -1..(Len(nodes) - 1), NEW depth \in Nat, NEW tu \in Nat,
         Enter(n, parent, depth, tu),
         Vocab(tus, "<root>")', Extends(tus, tus'), tu + 1 \in DOMAIN tus', tus'[tu + 1] = Now.source,
         stack # <<>> => parent = Top.idx /\ Top.at <= Len(Inner)
  PROVE  TensorInv'
<1>1. /\ manifest \in Manifests /\ entry \in Nat /\ entry \in 1..(Len(manifest) + 1)
      /\ stack \in Seq(FrameSet) /\ nodes \in Seq(RowSet)
  BY Entries DEF TensorInv, Base
<1>2. manifest' = manifest /\ entry' = entry
  BY DEF Enter
<1>3. CASE ~Fits(n, tu)
  <2>1. phase' = "died" /\ nodes' = nodes /\ kinds' = kinds /\ idents' = idents /\ stack' = stack
    BY <1>3 DEF Enter
  <2>2. Base' /\ Vocabs' /\ Frames' /\ Order'
    BY <1>2, <2>1 DEF TensorInv, Base, Vocabs, Vocab, Frames, Order
  <2>3. Rows'
    BY <1>2, <2>1, RowGrows, ExtendsSelf DEF TensorInv, Rows
  <2> QED BY <2>2, <2>3 DEF TensorInv
<1>4. CASE Fits(n, tu)
  <2>1. /\ nodes' = Append(nodes, Row(n, parent, depth, tu)) /\ phase' = phase
        /\ kinds' = Grow(kinds, Now.tree.kind[n]) /\ idents' = Grow(idents, IdentOf(n))
        /\ stack' = Append(stack, Frame(n, depth))
    BY <1>4 DEF Enter
  <2>2. tu \in 0..MaxU16
    BY <1>4, TensorAssumption DEF Fits
  <2>3. PICK r : r = Row(n, parent, depth, tu)
    OBVIOUS
  <2>4. /\ r \in RowSet /\ RowFits(r, manifest, kinds', idents', tus')
        /\ Vocab(kinds', "<unknown>") /\ Vocab(idents', "")
        /\ Extends(kinds, kinds') /\ Extends(idents, idents')
    BY <1>4, <2>1, <2>2, <2>3, RowMade, Zenon
  <2>5. r.parent = parent /\ r.first = -1 /\ r.next = -1 /\ r.from = <<entry, n>>
    BY <2>3 DEF Row
  <2>6. PICK f : f = Frame(n, depth)
    OBVIOUS
  <2>7. f.node = n /\ f.idx = Len(nodes) /\ f.depth = depth /\ f.at = 1 /\ f.prev = -1
    BY <2>6 DEF Frame
  <2>8. n \in Nat /\ Len(Now.tree.inner[n]) \in Nat
    BY Entries DEF TensorInv
  <2>9. f \in FrameSet
    BY <1>1, <2>6, <2>8 DEF Frame, FrameSet
  <2>10. PICK l, h : l = Len(nodes) /\ h = Len(stack)
    OBVIOUS
  <2>11. /\ l \in Nat /\ Len(nodes') = l + 1 /\ nodes'[l + 1] = r
         /\ \A i \in 1..l : nodes'[i] = nodes[i]
    BY <1>1, <2>1, <2>3, <2>10
  <2>12. /\ h \in Nat /\ Len(stack') = h + 1 /\ stack'[h + 1] = f
         /\ \A k \in 1..h : stack'[k] = stack[k]
    BY <1>1, <2>1, <2>6, <2>10
  <2>13. nodes' \in Seq(RowSet) /\ stack' \in Seq(FrameSet)
    <3>1. nodes' = Append(nodes, r) /\ stack' = Append(stack, f)
      BY <2>1, <2>3, <2>6
    <3>2. Append(nodes, r) \in Seq(RowSet)
      BY <1>1, <2>4, Appending
    <3>3. Append(stack, f) \in Seq(FrameSet)
      BY <1>1, <2>9, Appending
    <3> QED BY <3>1, <3>2, <3>3
  <2>14. Base'
    BY <1>1, <1>2, <2>1, <2>13 DEF Base
  <2>15. Vocabs'
    BY <2>4 DEF Vocabs
  <2>16. Rows'
    <3> SUFFICES ASSUME NEW i \in 1..(l + 1)
        PROVE /\ RowFits(nodes'[i], manifest, kinds', idents', tus')
              /\ nodes'[i].parent \in -1..(i - 2)
              /\ nodes'[i].first \in -1..l /\ nodes'[i].next \in -1..l
      BY <1>2, <2>11 DEF Rows
    <3>1. CASE i = l + 1
      <4>1. nodes'[i] = r
        BY <2>11, <3>1
      <4>2. r.parent \in -1..(i - 2) /\ r.first \in -1..l /\ r.next \in -1..l
        BY <2>5, <2>10, <2>11, <3>1
      <4> QED BY <2>4, <4>1, <4>2
    <3>2. CASE i # l + 1
      <4>1. i \in 1..l /\ nodes'[i] = nodes[i]
        BY <2>11, <3>2
      <4>2. /\ RowFits(nodes[i], manifest, kinds, idents, tus)
            /\ nodes[i].parent \in -1..(i - 2)
            /\ nodes[i].first \in -1..(l - 1) /\ nodes[i].next \in -1..(l - 1)
        BY <2>10, <4>1 DEF TensorInv, Rows
      <4>3. RowFits(nodes[i], manifest, kinds', idents', tus')
        BY <2>4, <4>2, RowGrows
      <4> QED BY <2>11, <4>1, <4>2, <4>3
    <3> QED BY <3>1, <3>2
  <2>17. \A k \in 1..h : /\ stack[k].idx \in 0..(l - 1) /\ stack[k].prev \in -1..(l - 1)
                         /\ stack[k] \in FrameSet
    <3> SUFFICES ASSUME NEW k \in 1..h
        PROVE stack[k].idx \in 0..(l - 1) /\ stack[k].prev \in -1..(l - 1) /\ stack[k] \in FrameSet
      OBVIOUS
    <3>1. stack[k] \in FrameSet
      BY <1>1, <2>10, ElementOf
    <3>2. FrameFits(stack[k], nodes, entry, manifest[entry].tree)
      BY <2>10 DEF TensorInv, Frames
    <3>3. stack[k].idx \in Nat /\ stack[k].prev \in Int
      BY <3>1 DEF FrameSet
    <3>4. /\ stack[k].idx + 1 \in 1..l
          /\ stack[k].prev = -1 \/ (stack[k].prev > stack[k].idx /\ stack[k].prev + 1 \in 1..l)
      BY <2>10, <3>2 DEF FrameFits
    <3>5. PICK x, y : x = stack[k].idx /\ y = stack[k].prev
      OBVIOUS
    <3>6. x \in Nat /\ y \in Int /\ x + 1 \in 1..l /\ (y = -1 \/ (y > x /\ y + 1 \in 1..l))
      BY <3>3, <3>4, <3>5
    <3>7. x \in 0..(l - 1) /\ y \in -1..(l - 1)
      BY <2>11, <3>6
    <3> QED BY <3>1, <3>5, <3>7
  <2>18. Frames'
    <3> SUFFICES ASSUME NEW k \in 1..(h + 1)
        PROVE /\ FrameFits(stack'[k], nodes', entry, manifest[entry].tree)
              /\ k > 1 => nodes'[stack'[k].idx + 1].parent = stack'[k - 1].idx
              /\ k < h + 1 => stack'[k].at <= Len(manifest[entry].tree.inner[stack'[k].node])
      BY <1>2, <2>12 DEF Frames
    <3>1. CASE k = h + 1
      <4>1. FrameFits(f, nodes', entry, manifest[entry].tree)
        <5>1. f.idx + 1 = l + 1 /\ l + 1 \in 1..(l + 1)
          BY <2>7, <2>10, <2>11
        <5>2. nodes'[f.idx + 1].from = <<entry, f.node>> /\ nodes'[f.idx + 1].next = -1
          <6>1. nodes'[f.idx + 1] = r
            BY <2>11, <5>1
          <6> QED BY <2>5, <2>7, <6>1
        <5>3. f.node \in DOMAIN Now.tree.inner /\ f.at \in 1..(Len(Now.tree.inner[f.node]) + 1)
          BY <2>7, <2>8
        <5>4. f.prev = -1
          BY <2>7
        <5> QED BY <2>11, <5>1, <5>2, <5>3, <5>4 DEF FrameFits, Now
      <4>2. k > 1 => parent = stack[h].idx
        BY <1>1, <2>10, <2>12, <3>1 DEF Top
      <4>3. ~(k < h + 1)
        BY <2>12, <3>1
      <4>4. k > 1 => nodes'[f.idx + 1].parent = stack'[k - 1].idx
        BY <2>5, <2>7, <2>10, <2>11, <2>12, <3>1, <4>2
      <4> QED BY <2>12, <3>1, <4>1, <4>3, <4>4
    <3>2. CASE k # h + 1
      <4>1. k \in 1..h /\ stack'[k] = stack[k] /\ (k > 1 => k - 1 \in 1..h /\ stack'[k - 1] = stack[k - 1])
        BY <2>12, <3>2
      <4>2. /\ FrameFits(stack[k], nodes, entry, manifest[entry].tree)
            /\ k > 1 => nodes[stack[k].idx + 1].parent = stack[k - 1].idx
        BY <2>10, <4>1 DEF TensorInv, Frames
      <4>3. /\ nodes'[stack[k].idx + 1] = nodes[stack[k].idx + 1]
            /\ stack[k].prev # -1 => nodes'[stack[k].prev + 1] = nodes[stack[k].prev + 1]
            /\ stack[k].idx \in Nat /\ stack[k].prev \in Int
        <5>1. PICK x, y : x = stack[k].idx /\ y = stack[k].prev
          OBVIOUS
        <5>2. x \in 0..(l - 1) /\ y \in -1..(l - 1)
          BY <2>17, <4>1, <5>1
        <5>3. x + 1 \in 1..l /\ (y # -1 => y + 1 \in 1..l) /\ x \in Nat /\ y \in Int
          BY <2>11, <5>2
        <5> QED BY <2>11, <5>1, <5>3
      <4>4. FrameFits(stack[k], nodes', entry, manifest[entry].tree)
        <5>1. Len(nodes) \in Nat /\ Len(nodes') \in Nat /\ Len(nodes') >= Len(nodes)
          BY <2>10, <2>11
        <5> QED BY <4>2, <4>3, <5>1, FrameKeeps
      <4>5. stack[k].at <= Len(manifest[entry].tree.inner[stack[k].node])
        <5>1. CASE k = h
          BY <1>1, <2>10, <2>12, <4>1, <5>1 DEF Top, Inner, Now
        <5>2. CASE k # h
          <6>1. k < Len(stack)
            BY <2>10, <2>12, <4>1, <5>2
          <6> QED BY <2>10, <4>1, <6>1 DEF TensorInv, Frames
        <5> QED BY <5>1, <5>2
      <4> QED BY <4>1, <4>2, <4>3, <4>4, <4>5
    <3> QED BY <3>1, <3>2
  <2>19. Order'
    <3> SUFFICES ASSUME NEW j \in 1..(h + 1), NEW k \in 1..(h + 1), j < k
        PROVE stack'[j].idx < stack'[k].idx /\ stack'[j].prev < stack'[k].idx
      BY <2>12 DEF Order
    <3>1. j \in 1..h /\ stack'[j] = stack[j]
      BY <2>12
    <3>2. CASE k = h + 1
      BY <2>7, <2>10, <2>11, <2>12, <2>17, <3>1, <3>2
    <3>3. CASE k # h + 1
      <4>1. k \in 1..h /\ stack'[k] = stack[k]
        BY <2>12, <3>3
      <4> QED BY <2>10, <3>1, <4>1 DEF TensorInv, Order
    <3> QED BY <3>2, <3>3
  <2> QED BY <2>14, <2>15, <2>16, <2>18, <2>19 DEF TensorInv
<1> QED BY <1>3, <1>4

\* The frames but the two innermost, and one more.
LEMMA Popping ==
  ASSUME NEW S, NEW s \in Seq(S), NEW x \in S, NEW h \in Nat, h = Len(s), h >= 2
  PROVE  /\ Append(SubSeq(s, 1, h - 2), x) \in Seq(S)
         /\ Len(Append(SubSeq(s, 1, h - 2), x)) = h - 1
         /\ \A k \in 1..(h - 2) : Append(SubSeq(s, 1, h - 2), x)[k] = s[k]
         /\ Append(SubSeq(s, 1, h - 2), x)[h - 1] = x
<1>1. PICK t : t = SubSeq(s, 1, h - 2)
  OBVIOUS
<1>2. t \in Seq(S) /\ Len(t) = h - 2 /\ \A k \in 1..(h - 2) : t[k] = s[k]
  BY <1>1
<1> QED BY <1>1, <1>2, Appending

\* Linking changes nothing else of a row.
SameButLinks(q, r) ==
  /\ q.kind = r.kind /\ q.parent = r.parent /\ q.depth = r.depth
  /\ q.ident = r.ident /\ q.tu = r.tu /\ q.from = r.from
Linked(new, arr, prev, idx) ==
  /\ new \in Seq(RowSet) /\ Len(new) = Len(arr)
  /\ \A i \in 1..Len(arr) :
       /\ SameButLinks(new[i], arr[i])
       /\ new[i] = [arr[i] EXCEPT !.first = new[i].first, !.next = new[i].next]
       /\ new[i].first = arr[i].first \/ (arr[i].first = -1 /\ new[i].first = idx)
       /\ new[i].next = IF i = prev + 1 THEN idx ELSE arr[i].next
LEMMA Linking ==
  ASSUME NEW arr \in Seq(RowSet), NEW parent \in Int, NEW prev \in Int, NEW idx \in Nat,
         NEW new, new = Link(arr, parent, prev, idx)
  PROVE  Linked(new, arr, prev, idx)
<1>1. Len(arr) \in Nat /\ DOMAIN arr = 1..Len(arr)
  OBVIOUS
<1>3. new = [i \in 1..Len(arr) |->
               [arr[i] EXCEPT
                  !.first = IF i = parent + 1 /\ @ = -1 THEN idx ELSE @,
                  !.next = IF i = prev + 1 THEN idx ELSE @]]
  BY <1>1 DEF Link
<1>4. ASSUME NEW i \in 1..Len(arr)
      PROVE  /\ new[i] \in RowSet
             /\ SameButLinks(new[i], arr[i])
             /\ new[i] = [arr[i] EXCEPT !.first = new[i].first, !.next = new[i].next]
             /\ new[i].first = arr[i].first \/ (arr[i].first = -1 /\ new[i].first = idx)
             /\ new[i].next = IF i = prev + 1 THEN idx ELSE arr[i].next
  <2>1. arr[i] \in RowSet
    BY ElementOf
  <2>2. PICK r, a, b : /\ r = arr[i] /\ a = (IF i = parent + 1 /\ r.first = -1 THEN idx ELSE r.first)
                       /\ b = (IF i = prev + 1 THEN idx ELSE r.next)
    OBVIOUS
  <2>3. new[i] = [r EXCEPT !.first = a, !.next = b]
    BY <1>3, <2>2
  <2>4. r \in RowSet /\ a \in Int /\ b \in Int
    <3>1. r.first \in Int /\ r.next \in Int
      BY <2>1, <2>2 DEF RowSet
    <3> QED BY <2>1, <2>2, <3>1
  <2>5. /\ [r EXCEPT !.first = a, !.next = b] \in RowSet
        /\ SameButLinks([r EXCEPT !.first = a, !.next = b], r)
        /\ [r EXCEPT !.first = a, !.next = b].first = a /\ [r EXCEPT !.first = a, !.next = b].next = b
    BY <2>4 DEF RowSet, SameButLinks
  <2>6. a = r.first \/ (r.first = -1 /\ a = idx)
    BY <2>2
  <2> QED BY <2>2, <2>3, <2>5, <2>6
<1>5. new \in Seq(RowSet) /\ Len(new) = Len(arr)
  <2>1. new \in [1..Len(arr) -> RowSet]
    BY <1>3, <1>4
  <2> QED BY <1>1, <2>1
<1> QED BY <1>4, <1>5, Zenon DEF Linked

LEMMA RowRelinked ==
  ASSUME NEW q, NEW r, NEW m, NEW ks, NEW is, NEW ts, RowFits(r, m, ks, is, ts), SameButLinks(q, r)
  PROVE  RowFits(q, m, ks, is, ts)
BY DEF RowFits, SameButLinks

\* What the invariant says of one frame.
LEMMA FrameOf ==
  ASSUME TensorInv, NEW k \in 1..Len(stack)
  PROVE  /\ stack[k] \in FrameSet /\ stack[k].idx \in Nat /\ stack[k].prev \in Int
         /\ stack[k].at \in Nat /\ stack[k].depth \in Nat /\ stack[k].node \in Nat
         /\ FrameFits(stack[k], nodes, entry, Now.tree)
         /\ k > 1 => nodes[stack[k].idx + 1].parent = stack[k - 1].idx
         /\ k < Len(stack) => stack[k].at <= Len(Now.tree.inner[stack[k].node])
         /\ entry <= Len(manifest)
         /\ stack[k].idx < Len(nodes) /\ stack[k].prev < Len(nodes)
<1>1. stack \in Seq(FrameSet) /\ nodes \in Seq(RowSet)
  BY DEF TensorInv, Base
<1>2. stack[k] \in FrameSet
  BY <1>1, ElementOf
<1>3. /\ stack[k].idx \in Nat /\ stack[k].prev \in Int
      /\ stack[k].at \in Nat /\ stack[k].depth \in Nat /\ stack[k].node \in Nat
  BY <1>2 DEF FrameSet
<1>4. /\ FrameFits(stack[k], nodes, entry, Now.tree)
      /\ k > 1 => nodes[stack[k].idx + 1].parent = stack[k - 1].idx
      /\ k < Len(stack) => stack[k].at <= Len(Now.tree.inner[stack[k].node])
  BY DEF TensorInv, Frames, Now
<1>5. entry <= Len(manifest)
  BY <1>1 DEF TensorInv, Base
<1>6. Len(nodes) \in Nat
  BY <1>1
<1>7. PICK x, y, l : x = stack[k].idx /\ y = stack[k].prev /\ l = Len(nodes)
  OBVIOUS
<1>8. x + 1 \in 1..l /\ (y = -1 \/ (y > x /\ y + 1 \in 1..l))
  BY <1>4, <1>7 DEF FrameFits
<1>9. x < l /\ y < l
  BY <1>3, <1>6, <1>7, <1>8
<1> QED BY <1>2, <1>3, <1>4, <1>5, <1>7, <1>9

\* A return links the node of the innermost visit below the next one.
LEMMA Returning ==
  ASSUME TensorInv, Return
  PROVE  TensorInv'
<1>1. /\ manifest \in Manifests /\ entry \in 1..(Len(manifest) + 1)
      /\ stack \in Seq(FrameSet) /\ nodes \in Seq(RowSet) /\ entry <= Len(manifest)
      /\ phase \in {"load", "done", "died"}
  BY DEF TensorInv, Base, Return, InVisit
<1>2. manifest' = manifest /\ phase' = phase /\ kinds' = kinds /\ idents' = idents /\ tus' = tus
  BY DEF Return, vocabs
<1>3. Vocabs'
  BY <1>2 DEF TensorInv, Vocabs, Vocab
<1>4. PICK h : h = Len(stack)
  OBVIOUS
<1>5. h \in Nat /\ h >= 1
  BY <1>1, <1>4 DEF Return, InVisit
<1>6. CASE h = 1
  <2>1. stack' = <<>> /\ entry' = entry + 1 /\ nodes' = nodes
    BY <1>4, <1>6 DEF Return
  <2>2. manifest \in Seq(Dump)
    BY <1>1, ManifestAssumption
  <2>3. Len(manifest) \in Nat
    BY <2>2
  <2>4. entry' \in 1..(Len(manifest') + 1)
    BY <1>1, <1>2, <2>1, <2>3
  <2>5. stack' \in Seq(FrameSet) /\ Len(stack') = 0
    BY <2>1
  <2>6. Base'
    BY <1>1, <1>2, <2>1, <2>4, <2>5 DEF Base
  <2>7. Rows'
    BY <1>2, <2>1 DEF TensorInv, Rows
  <2>8. Frames' /\ Order'
    BY <2>5 DEF Frames, Order
  <2> QED BY <1>3, <2>6, <2>7, <2>8 DEF TensorInv
<1>7. CASE h # 1
  <2>1. PICK up, top, g : up = stack[h - 1] /\ top = stack[h] /\ g = [Advance(up) EXCEPT !.prev = top.idx]
    OBVIOUS
  <2>2. h - 1 \in 1..h /\ h \in 1..h /\ h >= 2 /\ h - 1 < h /\ h > 1
    BY <1>5, <1>7
  <2>3. /\ nodes' = Link(nodes, up.idx, up.prev, top.idx)
        /\ stack' = Append(SubSeq(stack, 1, h - 2), g) /\ entry' = entry
    BY <1>4, <1>7, <2>1 DEF Return, Top
  <2>4. /\ up \in FrameSet /\ up.idx \in Nat /\ up.prev \in Int /\ up.at \in Nat /\ up.node \in Nat
        /\ FrameFits(up, nodes, entry, Now.tree)
        /\ up.at <= Len(Now.tree.inner[up.node])
        /\ h - 1 > 1 => nodes[up.idx + 1].parent = stack[h - 2].idx
    <3>1. h - 1 > 1 => nodes[up.idx + 1].parent = stack[(h - 1) - 1].idx
      BY <1>4, <2>1, <2>2, FrameOf
    <3>2. (h - 1) - 1 = h - 2
      BY <1>5
    <3> QED BY <1>4, <2>1, <2>2, <3>1, <3>2, FrameOf
  <2>5. top \in FrameSet /\ top.idx \in Nat /\ FrameFits(top, nodes, entry, Now.tree) /\ top.idx < Len(nodes)
    BY <1>4, <2>1, <2>2, FrameOf
  <2>6. up.idx < top.idx /\ up.prev < top.idx
    BY <1>4, <2>1, <2>2 DEF TensorInv, Order
  <2>7. /\ g \in FrameSet /\ g.idx = up.idx /\ g.node = up.node
        /\ g.at = up.at + 1 /\ g.prev = top.idx
    <3>1. up.at + 1 \in Nat /\ top.idx \in Int
      BY <2>4, <2>5
    <3> QED BY <2>1, <2>4, <3>1 DEF FrameSet, Advance
  <2>8. /\ stack' \in Seq(FrameSet) /\ Len(stack') = h - 1 /\ stack'[h - 1] = g
        /\ \A k \in 1..(h - 2) : stack'[k] = stack[k]
    BY <1>1, <1>4, <1>5, <2>2, <2>3, <2>7, Popping
  <2>9. PICK l : l = Len(nodes)
    OBVIOUS
  <2>10. l \in Nat
    BY <1>1, <2>9
  <2>17. Linked(nodes', nodes, up.prev, top.idx)
    <3>1. /\ nodes \in Seq(RowSet) /\ up.idx \in Int /\ up.prev \in Int /\ top.idx \in Nat
          /\ nodes' = Link(nodes, up.idx, up.prev, top.idx)
      BY <1>1, <2>3, <2>4, <2>5
    <3> QED BY <3>1, Linking
  <2>11. nodes' \in Seq(RowSet) /\ Len(nodes') = l
    BY <2>9, <2>17 DEF Linked
  <2>12. ASSUME NEW i \in 1..l
         PROVE  /\ SameButLinks(nodes'[i], nodes[i])
                /\ nodes'[i].first = nodes[i].first \/ nodes'[i].first = top.idx
                /\ nodes'[i].next = IF i = up.prev + 1 THEN top.idx ELSE nodes[i].next
    BY <2>9, <2>17 DEF Linked
  <2>13. Base'
    BY <1>1, <1>2, <2>3, <2>8, <2>11 DEF Base
  <2>14. Rows'
    <3> SUFFICES ASSUME NEW i \in 1..l
        PROVE /\ RowFits(nodes'[i], manifest, kinds, idents, tus)
              /\ nodes'[i].parent \in -1..(i - 2)
              /\ nodes'[i].first \in -1..(l - 1) /\ nodes'[i].next \in -1..(l - 1)
      BY <1>2, <2>11 DEF Rows
    <3>1. /\ RowFits(nodes[i], manifest, kinds, idents, tus)
          /\ nodes[i].parent \in -1..(i - 2)
          /\ nodes[i].first \in -1..(l - 1) /\ nodes[i].next \in -1..(l - 1)
      BY <2>9 DEF TensorInv, Rows
    <3>2. RowFits(nodes'[i], manifest, kinds, idents, tus)
      BY <2>12, <3>1, RowRelinked
    <3>3. nodes'[i].parent = nodes[i].parent
      BY <2>12 DEF SameButLinks
    <3>4. top.idx \in -1..(l - 1)
      BY <2>5, <2>9, <2>10
    <3> QED BY <2>12, <3>1, <3>2, <3>3, <3>4
  \* The frames that stay do not hold the node whose next sibling is set.
  <2>15. Frames'
    <3> SUFFICES ASSUME NEW k \in 1..(h - 1)
        PROVE /\ FrameFits(stack'[k], nodes', entry, Now.tree)
              /\ k > 1 => nodes'[stack'[k].idx + 1].parent = stack'[k - 1].idx
              /\ k < h - 1 => stack'[k].at <= Len(Now.tree.inner[stack'[k].node])
      BY <1>2, <2>3, <2>8 DEF Frames, Now
    <3>1. CASE k = h - 1
      <4>1. PICK x, y, z : x = up.idx /\ y = up.prev /\ z = top.idx
        OBVIOUS
      <4>2. /\ x + 1 \in 1..l /\ z + 1 \in 1..l /\ x \in Nat /\ y \in Int /\ z \in Nat
            /\ (y = -1 \/ (y > x /\ y + 1 \in 1..l)) /\ x < z /\ y < z
        BY <2>4, <2>5, <2>6, <2>9, <4>1 DEF FrameFits
      <4>3. x + 1 # y + 1 /\ z + 1 # y + 1
        BY <2>4, <2>5, <2>6, <4>1, <4>2
      <4>4. /\ nodes[x + 1].from = <<entry, up.node>> /\ nodes[x + 1].next = -1 /\ nodes[z + 1].next = -1
            /\ up.node \in DOMAIN Now.tree.inner
        BY <2>4, <2>5, <4>1 DEF FrameFits
      <4>5. /\ nodes'[x + 1].from = <<entry, up.node>> /\ nodes'[x + 1].next = -1
            /\ nodes'[z + 1].next = -1 /\ nodes'[x + 1].parent = nodes[x + 1].parent
        BY <2>12, <4>1, <4>2, <4>3, <4>4 DEF SameButLinks
      <4>6. g.at \in 1..(Len(Now.tree.inner[g.node]) + 1)
        <5>1. Len(Now.tree.inner[up.node]) \in Nat
          BY <1>1, <4>4, Entries DEF TensorInv
        <5> QED BY <2>4, <2>7, <5>1
      <4>7. FrameFits(g, nodes', entry, Now.tree)
        BY <2>6, <2>7, <2>11, <4>1, <4>2, <4>4, <4>5, <4>6 DEF FrameFits
      <4>8. h - 1 > 1 => nodes'[g.idx + 1].parent = stack'[(h - 1) - 1].idx
        <5>1. h - 1 > 1 => (h - 1) - 1 = h - 2 /\ h - 2 \in 1..(h - 2)
          BY <1>5
        <5> QED BY <2>4, <2>7, <2>8, <4>1, <4>5, <5>1
      <4>9. ~(k < h - 1)
        BY <1>5, <3>1
      <4> QED BY <2>8, <3>1, <4>7, <4>8, <4>9
    <3>2. CASE k # h - 1
      <4>1. k \in 1..(h - 2) /\ k \in 1..h /\ k < h - 1 /\ k < h /\ stack'[k] = stack[k]
        BY <1>5, <2>8, <3>2
      <4>2. PICK f : f = stack[k]
        OBVIOUS
      <4>3. /\ FrameFits(f, nodes, entry, Now.tree) /\ f.idx \in Nat /\ f.prev \in Int
            /\ k > 1 => nodes[f.idx + 1].parent = stack[k - 1].idx
            /\ f.at <= Len(Now.tree.inner[f.node])
        BY <1>4, <4>1, <4>2, FrameOf
      <4>4. f.idx < up.idx /\ f.prev < up.idx
        BY <1>4, <2>1, <2>2, <4>1, <4>2 DEF TensorInv, Order
      <4>5. PICK x, y, u, v : x = f.idx /\ y = f.prev /\ u = up.prev /\ v = up.idx
        OBVIOUS
      <4>6. /\ x \in Nat /\ y \in Int /\ u \in Int /\ v \in Nat /\ x < v /\ y < v
            /\ (u = -1 \/ u > v) /\ x + 1 \in 1..l /\ (y = -1 \/ (y > x /\ y + 1 \in 1..l))
        BY <2>4, <2>9, <4>3, <4>4, <4>5 DEF FrameFits
      <4>7. /\ nodes[x + 1].from = <<entry, f.node>> /\ nodes[x + 1].next = -1
            /\ y # -1 => nodes[y + 1].next = -1
        BY <4>3, <4>5, <4>6 DEF FrameFits
      <4>8. x + 1 # u + 1 /\ (y # -1 => y + 1 # u + 1)
        BY <4>6
      <4>9. /\ nodes'[x + 1].from = <<entry, f.node>> /\ nodes'[x + 1].next = -1
            /\ y # -1 => nodes'[y + 1].next = -1
            /\ nodes'[x + 1].parent = nodes[x + 1].parent
        BY <2>12, <4>5, <4>6, <4>7, <4>8 DEF SameButLinks
      <4>10. FrameFits(f, nodes', entry, Now.tree)
        BY <2>9, <2>11, <4>3, <4>5, <4>6, <4>9 DEF FrameFits
      <4>11. k > 1 => stack'[k - 1] = stack[k - 1]
        BY <1>5, <2>8, <4>1
      <4> QED BY <4>1, <4>2, <4>3, <4>5, <4>9, <4>10, <4>11
    <3> QED BY <3>1, <3>2
  <2>16. Order'
    <3> SUFFICES ASSUME NEW j \in 1..(h - 1), NEW k \in 1..(h - 1), j < k
        PROVE stack'[j].idx < stack'[k].idx /\ stack'[j].prev < stack'[k].idx
      BY <2>8 DEF Order
    <3>1. j \in 1..(h - 2) /\ j \in 1..h /\ k \in 1..h
      BY <1>5
    <3>2. stack[j].idx < stack[k].idx /\ stack[j].prev < stack[k].idx
      BY <1>4, <3>1 DEF TensorInv, Order
    <3>3. stack'[j] = stack[j] /\ stack'[k].idx = stack[k].idx
      <4>1. k = h - 1 \/ k \in 1..(h - 2)
        BY <1>5
      <4> QED BY <2>1, <2>7, <2>8, <3>1, <4>1
    <3> QED BY <3>2, <3>3
  <2> QED BY <1>3, <2>13, <2>14, <2>15, <2>16 DEF TensorInv
<1> QED BY <1>6, <1>7
-----------------------------------------------------------------------------
LEMMA TensorInit == Init => TensorInv
<1> SUFFICES ASSUME Init PROVE TensorInv
  OBVIOUS
<1>1. manifest \in Manifests /\ manifest \in Seq(Dump)
  BY ManifestAssumption DEF Init
<1>2. Len(manifest) \in Nat
  BY <1>1
<1>3. phase = "load" /\ entry = 1 /\ Len(stack) = 0 /\ Len(nodes) = 0 /\ stack = <<>> /\ nodes = <<>>
  BY DEF Init
<1>4. Base
  BY <1>1, <1>2, <1>3 DEF Base
<1>5. ASSUME NEW x \in Strings PROVE Vocab(<<x>>, x)
  BY DEF Vocab, IsVocab
<1>6. "<unknown>" \in Strings /\ "" \in Strings /\ "<root>" \in Strings
  BY DEF Strings
<1>7. Vocabs
  BY <1>5, <1>6, Zenon DEF Vocabs, Init
<1>8. Rows /\ Frames /\ Order
  BY <1>3 DEF Rows, Frames, Order
<1> QED BY <1>4, <1>7, <1>8 DEF TensorInv

\* Between two dumps no frame is left, and only tu_vocab may have grown.
LEMMA MovingOn ==
  ASSUME TensorInv, Ready, phase' \in {"load", "died"}, entry' \in {entry, entry + 1},
         UNCHANGED <<manifest, stack, nodes, kinds, idents>>,
         Vocab(tus, "<root>")', Extends(tus, tus')
  PROVE  TensorInv'
<1>1. stack' = <<>> /\ Len(stack') = 0 /\ stack' \in Seq(FrameSet)
  BY DEF Ready
<1>2. manifest \in Seq(Dump)
  BY ManifestAssumption DEF TensorInv, Base
<1>3. entry' \in 1..(Len(manifest) + 1)
  BY <1>2 DEF TensorInv, Base, Ready
<1>4. Base'
  BY <1>1, <1>3 DEF TensorInv, Base
<1>5. Vocabs'
  BY DEF TensorInv, Vocabs, Vocab
<1>6. Rows'
  BY RowGrows, ExtendsSelf DEF TensorInv, Rows
<1>7. Frames' /\ Order'
  BY <1>1 DEF Frames, Order
<1> QED BY <1>4, <1>5, <1>6, <1>7 DEF TensorInv

\* The source of the dump main is at, interned before the visit of its root.
LEMMA Sourcing ==
  ASSUME TensorInv, Ready, tus' = Grow(tus, Now.source)
  PROVE  /\ Vocab(tus, "<root>")' /\ Extends(tus, tus') /\ IdOf(tus, Now.source) \in Nat
         /\ IdOf(tus, Now.source) + 1 \in DOMAIN tus' /\ tus'[IdOf(tus, Now.source) + 1] = Now.source
<1>1. Now.source \in Strings
  BY Entries DEF TensorInv, Ready
<1>2. PICK ts : ts = Grow(tus, Now.source)
  OBVIOUS
<1>3. /\ Vocab(ts, "<root>") /\ Extends(tus, ts) /\ IdOf(tus, Now.source) \in Nat
      /\ IdOf(tus, Now.source) + 1 \in DOMAIN ts /\ ts[IdOf(tus, Now.source) + 1] = Now.source
  BY <1>1, <1>2, Interned, Zenon DEF TensorInv, Vocabs
<1> QED BY <1>2, <1>3

LEMMA Adding ==
  ASSUME TensorInv, AddTranslationUnit
  PROVE  TensorInv'
<1>1. Ready /\ tus' = Grow(tus, Now.source) /\ entry <= Len(manifest) /\ stack = <<>> /\ phase = "load"
  BY DEF AddTranslationUnit, Ready
<1>2. Now.source \in Strings /\ 1 \in DOMAIN Now.tree.inner
  BY <1>1, Entries DEF TensorInv
<1>3. /\ Vocab(tus, "<root>")' /\ Extends(tus, tus') /\ IdOf(tus, Now.source) \in Nat
      /\ IdOf(tus, Now.source) + 1 \in DOMAIN tus' /\ tus'[IdOf(tus, Now.source) + 1] = Now.source
  BY <1>1, Sourcing
<1>4. CASE IsMain(1)
  <2>1. Enter(1, -1, 0, IdOf(tus, Now.source))
    BY <1>4 DEF AddTranslationUnit
  <2>2. -1 \in -1..(Len(nodes) - 1) /\ 0 \in Nat
    BY DEF TensorInv, Base
  <2> QED BY <1>1, <1>2, <1>3, <2>1, <2>2, Entering
<1>5. CASE ~IsMain(1)
  <2>1. entry' = entry + 1 /\ UNCHANGED <<manifest, phase, stack, nodes, kinds, idents>>
    BY <1>5 DEF AddTranslationUnit
  <2> QED BY <1>1, <1>3, <2>1, MovingOn
<1> QED BY <1>4, <1>5

LEMMA Skipping ==
  ASSUME TensorInv, SkipChild, ~CannotCall
  PROVE  TensorInv'
<1>1. /\ stack # <<>> /\ Top.at <= Len(Inner)
      /\ stack' = [stack EXCEPT ![Len(stack)] = Advance(@)]
      /\ UNCHANGED <<manifest, phase, entry, nodes, kinds, idents, tus>>
  BY DEF SkipChild, InVisit, vocabs
<1>2. stack \in Seq(FrameSet)
  BY DEF TensorInv, Base
<1>3. PICK h, f : h = Len(stack) /\ f = stack[Len(stack)]
  OBVIOUS
<1>4. h \in Nat /\ h \in 1..h /\ DOMAIN stack = 1..h
  BY <1>1, <1>2, <1>3
<1>5. /\ f \in FrameSet /\ f.at \in Nat /\ FrameFits(f, nodes, entry, Now.tree)
      /\ entry <= Len(manifest)
  BY <1>3, <1>4, FrameOf
<1>6. f.node \in DOMAIN Now.tree.inner /\ Len(Now.tree.inner[f.node]) \in Nat
  BY <1>5, Entries DEF FrameFits, TensorInv
<1>7. f.at <= Len(Now.tree.inner[f.node])
  BY <1>1, <1>3 DEF Top, Inner
<1>8. PICK g : g = Advance(f)
  OBVIOUS
<1>9. /\ g \in FrameSet /\ g.node = f.node /\ g.idx = f.idx /\ g.prev = f.prev
      /\ g.at = f.at + 1
  <2>1. f.at + 1 \in Nat
    BY <1>5
  <2> QED BY <1>5, <1>8, <2>1 DEF Advance, FrameSet
<1>10. g.at \in 1..(Len(Now.tree.inner[g.node]) + 1)
  BY <1>5, <1>6, <1>7, <1>9
<1>11. FrameFits(g, nodes, entry, Now.tree)
  BY <1>5, <1>9, <1>10 DEF FrameFits
<1>12. /\ stack' \in Seq(FrameSet) /\ Len(stack') = h
       /\ \A k \in 1..h : stack'[k] = IF k = h THEN g ELSE stack[k]
  BY <1>1, <1>2, <1>3, <1>4, <1>8, <1>9
<1>13. \A k \in 1..h : stack'[k].idx = stack[k].idx /\ stack'[k].prev = stack[k].prev
  BY <1>3, <1>9, <1>12
<1>14. Base' /\ Vocabs' /\ Rows'
  BY <1>1, <1>5, <1>12 DEF TensorInv, Base, Vocabs, Vocab, Rows
<1>15. Frames'
  <2> SUFFICES ASSUME NEW k \in 1..h
      PROVE /\ FrameFits(stack'[k], nodes, entry, Now.tree)
            /\ k > 1 => nodes[stack'[k].idx + 1].parent = stack'[k - 1].idx
            /\ k < h => stack'[k].at <= Len(Now.tree.inner[stack'[k].node])
    BY <1>1, <1>12 DEF Frames, Now
  <2>1. /\ FrameFits(stack[k], nodes, entry, Now.tree)
        /\ k > 1 => nodes[stack[k].idx + 1].parent = stack[k - 1].idx
        /\ k < h => stack[k].at <= Len(Now.tree.inner[stack[k].node])
    BY <1>3, FrameOf
  <2>2. k > 1 => k - 1 \in 1..h
    BY <1>4
  <2>3. k > 1 => nodes[stack'[k].idx + 1].parent = stack'[k - 1].idx
    BY <1>13, <2>1, <2>2
  <2>4. k = h => FrameFits(stack'[k], nodes, entry, Now.tree) /\ ~(k < h)
    BY <1>4, <1>11, <1>12
  <2>5. k # h => stack'[k] = stack[k]
    BY <1>12
  <2> QED BY <2>1, <2>3, <2>4, <2>5
<1>16. Order'
  BY <1>3, <1>12, <1>13 DEF TensorInv, Order
<1> QED BY <1>14, <1>15, <1>16 DEF TensorInv

LEMMA Visiting ==
  ASSUME TensorInv, VisitChild
  PROVE  TensorInv'
<1>1. /\ phase = "load" /\ stack # <<>> /\ Top.at <= Len(Inner) /\ Child # 0
      /\ Enter(Child, Top.idx, Top.depth + 1, nodes[Top.idx + 1].tu) /\ tus' = tus
  BY DEF VisitChild, InVisit, Survives
<1>2. stack \in Seq(FrameSet) /\ Len(stack) \in 1..Len(stack)
  BY <1>1 DEF TensorInv, Base
<1>3. /\ Top.idx \in Nat /\ Top.at \in Nat /\ Top.depth \in Nat /\ Top.idx < Len(nodes)
      /\ FrameFits(Top, nodes, entry, Now.tree) /\ entry <= Len(manifest)
  BY <1>2, FrameOf DEF Top
<1>4. /\ Top.node \in DOMAIN Now.tree.inner /\ Top.at >= 1
      /\ Top.idx + 1 \in 1..Len(nodes) /\ nodes[Top.idx + 1].from = <<entry, Top.node>>
  BY <1>3 DEF FrameFits
<1>5. Len(Inner) \in Nat /\ \A i \in 1..Len(Inner) : Inner[i] \in 0..Len(Now.tree.inner)
  BY <1>3, <1>4, Entries DEF TensorInv, Inner
<1>6. DOMAIN Now.tree.inner = 1..Len(Now.tree.inner)
  BY <1>3, Entries DEF TensorInv
<1>7. Child \in DOMAIN Now.tree.inner
  <2>1. Top.at \in 1..Len(Inner)
    BY <1>1, <1>3, <1>4, <1>5
  <2>2. Child \in 0..Len(Now.tree.inner)
    BY <1>5, <2>1 DEF Child
  <2> QED BY <1>1, <1>6, <2>2
<1>8. RowFits(nodes[Top.idx + 1], manifest, kinds, idents, tus)
  BY <1>4 DEF TensorInv, Rows
<1>9. /\ nodes[Top.idx + 1].tu \in Nat
      /\ nodes[Top.idx + 1].tu + 1 \in DOMAIN tus' /\ tus'[nodes[Top.idx + 1].tu + 1] = Now.source
  <2>1. PICK r, t : r = nodes[Top.idx + 1] /\ t = r.tu
    OBVIOUS
  <2>2. t \in 0..MaxU16 /\ t + 1 \in DOMAIN tus /\ tus[t + 1] = manifest[r.from[1]].source
    BY <1>8, <2>1 DEF RowFits
  <2>3. r.from[1] = entry
    BY <1>4, <2>1
  <2> QED BY <1>1, <2>1, <2>2, <2>3, TensorAssumption DEF Now
<1>10. Vocab(tus, "<root>")' /\ Extends(tus, tus')
  BY <1>1, ExtendsSelf DEF TensorInv, Vocabs, Vocab
<1>11. Top.idx \in -1..(Len(nodes) - 1) /\ Top.depth + 1 \in Nat
  BY <1>3 DEF TensorInv, Base
<1> QED BY <1>1, <1>3, <1>7, <1>9, <1>10, <1>11, Entering

LEMMA TensorStep == TensorInv /\ [Next]_vars => TensorInv'
<1> SUFFICES ASSUME TensorInv, [Next]_vars PROVE TensorInv'
  OBVIOUS
<1>1. CASE NoAstKey \/ Undecodable
  <2>1. Ready /\ phase' = "died" /\ UNCHANGED <<manifest, entry, stack, nodes, kinds, idents, tus>>
    BY <1>1 DEF NoAstKey, Undecodable, vocabs
  <2>2. Vocab(tus, "<root>")' /\ Extends(tus, tus')
    BY <2>1, ExtendsSelf DEF TensorInv, Vocabs, Vocab
  <2> QED BY <2>1, <2>2, MovingOn
<1>2. CASE SkipUnreadable
  <2>1. Ready /\ phase' = "load" /\ entry' = entry + 1 /\ UNCHANGED <<manifest, stack, nodes, kinds, idents, tus>>
    BY <1>2 DEF SkipUnreadable, Ready, vocabs
  <2>2. Vocab(tus, "<root>")' /\ Extends(tus, tus')
    BY <2>1, ExtendsSelf DEF TensorInv, Vocabs, Vocab
  <2> QED BY <2>1, <2>2, MovingOn
<1>3. CASE AddTranslationUnit
  BY <1>3, Adding
<1>4. CASE SkipChild /\ ~CannotCall
  BY <1>4, Skipping
<1>5. CASE VisitChild
  BY <1>5, Visiting
<1>6. CASE Return
  BY <1>6, Returning
<1>7. CASE /\ phase' \in {phase, "done", "died"}
           /\ UNCHANGED <<manifest, entry, stack, nodes, kinds, idents, tus>>
  <2>1. Base'
    BY <1>7 DEF TensorInv, Base
  <2>2. Vocabs'
    BY <1>7 DEF TensorInv, Vocabs, Vocab
  <2>3. Rows'
    BY <1>7 DEF TensorInv, Rows
  <2>4. Frames' /\ Order'
    BY <1>7 DEF TensorInv, Frames, Order
  <2> QED BY <2>1, <2>2, <2>3, <2>4 DEF TensorInv
<1>8. CASE Finalize
  BY <1>7, <1>8 DEF Finalize, vocabs
<1>9. CASE UNCHANGED vars
  BY <1>7, <1>9 DEF vars, vocabs
<1>10. CASE SkipChild /\ CannotCall
  BY <1>7, <1>10 DEF SkipChild, vocabs
<1>11. CASE NotAnObject
  <2>1. /\ Ready /\ phase' = "died" /\ UNCHANGED <<manifest, entry, stack, nodes, kinds, idents>>
        /\ tus' = Grow(tus, Now.source)
    BY <1>11 DEF NotAnObject
  <2> QED BY <2>1, Sourcing, MovingOn
<1> QED BY <1>1, <1>2, <1>3, <1>4, <1>5, <1>6, <1>8, <1>9, <1>10, <1>11 DEF Next, Stopped

LEMMA TensorInvariant == Spec => []TensorInv
BY TensorInit, TensorStep, PTL DEF Spec
-----------------------------------------------------------------------------
\* Every index of ast_to_tensor.py stays within the arrays it points into, and
\* every frame of visit within the node it works at.
THEOREM Typing == Spec => []TypeOK
<1>1. TensorInv => TypeOK
  <2> SUFFICES ASSUME TensorInv PROVE TypeOK
    OBVIOUS
  <2>1. manifest \in Manifests /\ phase \in {"load", "done", "died"} /\ entry \in 1..(Len(manifest) + 1)
    BY DEF TensorInv, Base
  <2>2. stack \in Seq(FrameSet) /\ nodes \in Seq(RowSet) /\ Len(nodes) \in Nat
    BY DEF TensorInv, Base
  <2>3. ASSUME NEW k \in DOMAIN stack
        PROVE  /\ stack[k].idx \in Idx /\ stack[k].prev \in Link0
               /\ stack[k].node = Node(stack[k].idx).from[2]
               /\ stack[k].at \in 1..(Len(Now.tree.inner[stack[k].node]) + 1)
               /\ k > 1 => Node(stack[k].idx).parent = stack[k - 1].idx
    <3>1. k \in 1..Len(stack)
      BY <2>2
    <3>2. PICK f, l : f = stack[k] /\ l = Len(nodes)
      OBVIOUS
    <3>3. /\ f.idx \in Nat /\ f.prev \in Int /\ FrameFits(f, nodes, entry, Now.tree)
          /\ k > 1 => nodes[f.idx + 1].parent = stack[k - 1].idx
          /\ f.idx < l /\ f.prev < l
      BY <3>1, <3>2, FrameOf
    <3>4. /\ f.prev = -1 \/ f.prev > f.idx
          /\ nodes[f.idx + 1].from = <<entry, f.node>>
          /\ f.at \in 1..(Len(Now.tree.inner[f.node]) + 1)
      BY <3>3 DEF FrameFits
    <3>5. f.idx \in 0..(l - 1) /\ f.prev \in 0..(l - 1) \cup {-1}
      <4>1. PICK x, y : x = f.idx /\ y = f.prev
        OBVIOUS
      <4>2. x \in Nat /\ y \in Int /\ l \in Nat /\ x < l /\ y < l /\ (y = -1 \/ y > x)
        BY <2>2, <3>2, <3>3, <3>4, <4>1
      <4>3. x \in 0..(l - 1) /\ y \in 0..(l - 1) \cup {-1}
        BY <4>2
      <4> QED BY <4>1, <4>3
    <3> QED BY <3>2, <3>3, <3>4, <3>5 DEF Idx, Link0, Node
  <2>4. ASSUME NEW i \in Idx
        PROVE  /\ Node(i).parent \in -1..(i - 1)
               /\ Node(i).first \in Link0 /\ Node(i).next \in Link0
               /\ Node(i).depth \in 0..MaxU8
               /\ Node(i).kind \in 0..MaxU16 /\ Node(i).tu \in 0..MaxU16
               /\ Node(i).ident \in 0..(Len(idents) - 1)
    <3>1. PICK l, r : l = Len(nodes) /\ r = nodes[i + 1]
      OBVIOUS
    <3>2. i + 1 \in 1..l /\ l \in Nat /\ i \in Nat /\ (i + 1) - 2 = i - 1
      BY <2>2, <3>1 DEF Idx
    <3>3. /\ RowFits(r, manifest, kinds, idents, tus)
          /\ r.parent \in -1..((i + 1) - 2) /\ r.first \in -1..(l - 1) /\ r.next \in -1..(l - 1)
      BY <3>1, <3>2 DEF TensorInv, Rows
    <3>4. r \in RowSet
      BY <2>2, <3>1, <3>2, ElementOf
    <3>5. r.ident \in Nat
      BY <3>4 DEF RowSet
    <3>6. idents \in Seq(Strings)
      BY DEF TensorInv, Vocabs, Vocab
    <3>7. r.ident \in 0..(Len(idents) - 1)
      <4>1. DOMAIN idents = 1..Len(idents) /\ Len(idents) \in Nat
        BY <3>6
      <4>2. r.ident + 1 \in DOMAIN idents
        BY <3>3 DEF RowFits
      <4> QED BY <3>5, <4>1, <4>2
    <3>8. r.first \in 0..(l - 1) \cup {-1} /\ r.next \in 0..(l - 1) \cup {-1}
      BY <3>2, <3>3
    <3>9. r.kind \in 0..MaxU16 /\ r.tu \in 0..MaxU16 /\ r.depth \in 0..MaxU8
      BY <3>3 DEF RowFits
    <3> QED BY <3>1, <3>2, <3>3, <3>7, <3>8, <3>9 DEF Node, Link0, Idx
  <2> QED BY <2>1, <2>3, <2>4 DEF TypeOK
<1> QED BY <1>1, TensorInvariant, PTL

\* Whatever is interned later, every index in the arrays decodes to the string its
\* node had, and index 0 to the sentinel.
THEOREM Decodes == Spec => []VocabsDecode
<1>1. TensorInv => VocabsDecode
  <2> SUFFICES ASSUME TensorInv PROVE VocabsDecode
    OBVIOUS
  <2>1. IsVocab(kinds, "<unknown>") /\ IsVocab(idents, "") /\ IsVocab(tus, "<root>")
    BY DEF TensorInv, Vocabs, Vocab
  <2>2. ASSUME NEW i \in Idx
        PROVE  /\ kinds[Node(i).kind + 1] = TreeAt(i).kind[NodeAt(i)]
               /\ idents[Node(i).ident + 1] = (IF TreeAt(i).name[NodeAt(i)] # ""
                                               THEN TreeAt(i).name[NodeAt(i)]
                                               ELSE TreeAt(i).ref[NodeAt(i)])
               /\ tus[Node(i).tu + 1] = manifest[Node(i).from[1]].source
    <3>1. i + 1 \in 1..Len(nodes)
      BY DEF Idx, TensorInv, Base
    <3>2. RowFits(Node(i), manifest, kinds, idents, tus)
      BY <3>1 DEF TensorInv, Rows, Node
    <3>3. PICK r, m, t : r = Node(i) /\ m = r.from[1] /\ t = manifest[m].tree
      OBVIOUS
    <3>4. /\ kinds[r.kind + 1] = t.kind[r.from[2]] /\ tus[r.tu + 1] = manifest[m].source
          /\ idents[r.ident + 1] = IF t.name[r.from[2]] # "" THEN t.name[r.from[2]] ELSE t.ref[r.from[2]]
      BY <3>2, <3>3, Zenon DEF RowFits
    <3>5. TreeAt(i) = t /\ NodeAt(i) = r.from[2]
      BY <3>3 DEF TreeAt, NodeAt
    <3> QED BY <3>3, <3>4, <3>5
  <2> QED BY <2>1, <2>2 DEF VocabsDecode
<1> QED BY <1>1, TensorInvariant, PTL

\* visit sets first_child and next_sibling of a row at most once: the child that
\* a frame linked last cannot have a next sibling already.
THEOREM SetOnce == Spec => LinksSetOnce
<1> DEFINE Kept ==
      /\ Len(nodes') >= Len(nodes)
      /\ \A i \in DOMAIN nodes :
           /\ [nodes'[i] EXCEPT !.first = 0, !.next = 0] = [nodes[i] EXCEPT !.first = 0, !.next = 0]
           /\ nodes[i].first # -1 => nodes'[i].first = nodes[i].first
           /\ nodes[i].next # -1 => nodes'[i].next = nodes[i].next
<1>1. TensorInv /\ [Next]_vars => [Kept]_vars
  <2> SUFFICES ASSUME TensorInv, Next PROVE Kept
    BY DEF vars, vocabs
  <2>1. nodes \in Seq(RowSet) /\ Len(nodes) \in Nat /\ DOMAIN nodes = 1..Len(nodes)
    BY DEF TensorInv, Base
  <2>2. CASE nodes' = nodes
    BY <2>1, <2>2
  <2>3. ASSUME NEW r, nodes' = Append(nodes, r) PROVE Kept
    <3>1. Len(nodes') = Len(nodes) + 1 /\ \A i \in 1..Len(nodes) : nodes'[i] = nodes[i]
      BY <2>1, <2>3, Appending
    <3>2. Len(nodes') >= Len(nodes)
      BY <2>1, <3>1
    <3>3. \A i \in DOMAIN nodes : nodes'[i] = nodes[i]
      BY <2>1, <3>1
    <3> QED BY <3>2, <3>3, Zenon
  <2>4. ASSUME NEW n, NEW parent, NEW depth, NEW tu, Enter(n, parent, depth, tu) PROVE Kept
    <3>1. nodes' = nodes \/ nodes' = Append(nodes, Row(n, parent, depth, tu))
      BY <2>4 DEF Enter
    <3> QED BY <2>2, <2>3, <3>1
  <2>5. CASE Return /\ Len(stack) # 1
    <3>1. PICK h, up, top : h = Len(stack) /\ up = stack[h - 1] /\ top = stack[h]
      OBVIOUS
    <3>2. h - 1 \in 1..h /\ h \in 1..h
      BY <2>5, <3>1 DEF Return, InVisit, TensorInv, Base
    <3>3. nodes' = Link(nodes, up.idx, up.prev, top.idx)
      BY <2>5, <3>1 DEF Return, Top
    <3>4. /\ up.idx \in Nat /\ up.prev \in Int /\ top.idx \in Nat
          /\ FrameFits(up, nodes, entry, Now.tree)
      BY <3>1, <3>2, FrameOf
    <3>5. Linked(nodes', nodes, up.prev, top.idx)
      <4>1. up.idx \in Int
        BY <3>4
      <4> QED BY <2>1, <3>3, <3>4, <4>1, Linking, Zenon
    <3>6. up.prev # -1 => nodes[up.prev + 1].next = -1
      BY <3>4 DEF FrameFits
    <3>7. ASSUME NEW i \in DOMAIN nodes
          PROVE  /\ [nodes'[i] EXCEPT !.first = 0, !.next = 0] = [nodes[i] EXCEPT !.first = 0, !.next = 0]
                 /\ nodes[i].first # -1 => nodes'[i].first = nodes[i].first
                 /\ nodes[i].next # -1 => nodes'[i].next = nodes[i].next
      <4>1. PICK q, r : q = nodes'[i] /\ r = nodes[i]
        OBVIOUS
      <4>2. /\ q = [r EXCEPT !.first = q.first, !.next = q.next]
            /\ q.first = r.first \/ r.first = -1
            /\ q.next = IF i = up.prev + 1 THEN top.idx ELSE r.next
        BY <2>1, <3>5, <4>1 DEF Linked
      <4>3. i = up.prev + 1 => r.next = -1
        BY <2>1, <3>4, <3>6, <4>1
      <4>4. r \in RowSet
        BY <2>1, <4>1, ElementOf
      <4>5. [q EXCEPT !.first = 0, !.next = 0] = [r EXCEPT !.first = 0, !.next = 0]
        <5>1. PICK a, b : a = q.first /\ b = q.next
          OBVIOUS
        <5>2. q = [r EXCEPT !.first = a, !.next = b]
          BY <4>2, <5>1
        <5> QED BY <4>4, <5>2 DEF RowSet
      <4> QED BY <4>1, <4>2, <4>3, <4>5
    <3>8. Len(nodes') >= Len(nodes)
      <4>1. Len(nodes') = Len(nodes)
        BY <3>5, Zenon DEF Linked
      <4> QED BY <2>1, <4>1
    <3> QED BY <3>7, <3>8, Zenon
  <2>6. CASE AddTranslationUnit
    BY <2>2, <2>4, <2>6 DEF AddTranslationUnit
  <2>7. CASE VisitChild
    BY <2>4, <2>7 DEF VisitChild
  <2>8. CASE Return /\ Len(stack) = 1
    BY <2>2, <2>8 DEF Return
  <2>9. CASE \/ NoAstKey \/ Undecodable \/ NotAnObject \/ SkipUnreadable
             \/ SkipChild \/ Finalize \/ Stopped
    BY <2>2, <2>9 DEF NoAstKey, Undecodable, NotAnObject, SkipUnreadable, SkipChild, Finalize,
                      Stopped, vars
  <2> QED BY <2>5, <2>6, <2>7, <2>8, <2>9 DEF Next
<1> QED BY <1>1, TensorInvariant, PTL DEF Spec, LinksSetOnce
-----------------------------------------------------------------------------
(* The children of a row.  What the filter leaves of a list is a recursive   *)
(* function, known by its equation once a function is shown to satisfy it.   *)

\* A set of natural numbers that is not empty has a least element.
LEMMA LeastNatural ==
  ASSUME NEW T \in SUBSET Nat, T # {}
  PROVE  \E x \in T : \A y \in T : x <= y
<1> DEFINE R == OpToRel(<, Nat)
<1>1. IsWellFoundedOn(R, Nat)
  BY NatLessThanWellFounded
<1>2. \E x \in T : \A y \in T : ~(<<y, x>> \in R)
  <2> HIDE DEF R
  <2> QED BY <1>1, WFMin
<1>3. PICK x \in T : \A y \in T : ~(<<y, x>> \in R)
  BY <1>2
<1>4. ASSUME NEW y \in T PROVE x <= y
  <2>1. ~(<<y, x>> \in {ss \in Nat \X Nat : ss[1] < ss[2]})
    BY <1>3 DEF OpToRel
  <2> QED BY <2>1
<1> QED BY <1>4

\* A set of natural numbers with 0 in it, and n + 1 with n, is all of them.
LEMMA Inductive ==
  ASSUME NEW G \in SUBSET Nat, 0 \in G, \A n \in G : n + 1 \in G
  PROVE  \A n \in Nat : n \in G
<1> DEFINE T == Nat \ G
<1> SUFFICES ASSUME T # {} PROVE FALSE
  OBVIOUS
<1>1. PICK x \in T : \A y \in T : x <= y BY LeastNatural
<1>2. x # 0 /\ x - 1 \in Nat /\ x - 1 \notin T BY <1>1
<1>3. x - 1 + 1 \in G BY <1>2
<1> QED BY <1>1, <1>3

KeptIn(tree, n) == n # 0 /\ (KeepAll \/ n \in tree.main)
KeptStep(tree, list, f, p) ==
  IF p = 0 THEN <<>>
  ELSE IF KeptIn(tree, list[p]) THEN Append(f[p - 1], list[p]) ELSE f[p - 1]

LEMMA KeptExists ==
  ASSUME NEW tree, NEW list \in Seq(Nat), NEW n \in Nat, n <= Len(list)
  PROVE  \E f \in [0..n -> Seq(Nat)] : \A p \in 0..n : f[p] = KeptStep(tree, list, f, p)
<1> DEFINE G == {m \in Nat : m <= Len(list) =>
                   \E f \in [0..m -> Seq(Nat)] : \A p \in 0..m : f[p] = KeptStep(tree, list, f, p)}
<1>0. Len(list) \in Nat
  OBVIOUS
<1>1. 0 \in G
  <2>1. PICK f : f = [p \in 0..0 |-> <<>>]
    OBVIOUS
  <2>2. f \in [0..0 -> Seq(Nat)] /\ \A p \in 0..0 : p = 0 /\ f[p] = <<>>
    <3>1. <<>> \in Seq(Nat)
      OBVIOUS
    <3> QED BY <2>1, <3>1
  <2> QED BY <2>2 DEF KeptStep
<1>2. ASSUME NEW m \in G PROVE m + 1 \in G
  <2>1. m \in Nat /\ m + 1 \in Nat
    OBVIOUS
  <2> SUFFICES ASSUME m + 1 <= Len(list)
      PROVE \E f \in [0..(m + 1) -> Seq(Nat)] : \A p \in 0..(m + 1) : f[p] = KeptStep(tree, list, f, p)
    BY <2>1
  <2>2. PICK f \in [0..m -> Seq(Nat)] : \A p \in 0..m : f[p] = KeptStep(tree, list, f, p)
    BY <1>0, <2>1
  <2>3. m \in 0..m /\ f[m] \in Seq(Nat) /\ m + 1 \in 1..Len(list) /\ list[m + 1] \in Nat
    BY <1>0, <2>1, <2>2
  <2>4. PICK x : x = IF KeptIn(tree, list[m + 1]) THEN Append(f[m], list[m + 1]) ELSE f[m]
    OBVIOUS
  <2>5. x \in Seq(Nat)
    BY <2>3, <2>4
  <2>6. PICK g : g = [p \in 0..(m + 1) |-> IF p = m + 1 THEN x ELSE f[p]]
    OBVIOUS
  <2>7. g \in [0..(m + 1) -> Seq(Nat)] /\ g[m + 1] = x /\ \A p \in 0..m : g[p] = f[p]
    <3>1. \A p \in 0..(m + 1) : p # m + 1 => p \in 0..m
      BY <2>1
    <3>2. \A p \in 0..m : p # m + 1 /\ p \in 0..(m + 1)
      BY <2>1
    <3>3. m + 1 \in 0..(m + 1)
      BY <2>1
    <3> QED BY <2>2, <2>5, <2>6, <3>1, <3>2, <3>3
  <2>8. ASSUME NEW p \in 0..(m + 1) PROVE g[p] = KeptStep(tree, list, g, p)
    <3>1. CASE p = m + 1
      <4>1. p # 0 /\ p - 1 = m
        BY <2>1, <3>1
      <4> QED BY <2>3, <2>4, <2>7, <3>1, <4>1 DEF KeptStep
    <3>2. CASE p # m + 1
      <4>1. p \in 0..m /\ (p # 0 => p - 1 \in 0..m)
        BY <2>1, <3>2
      <4>2. g[p] = f[p] /\ (p # 0 => g[p - 1] = f[p - 1])
        BY <2>7, <4>1
      <4> QED BY <2>2, <4>1, <4>2 DEF KeptStep
    <3> QED BY <3>1, <3>2
  <2> QED BY <2>7, <2>8
<1>3. n \in G
  <2>1. G \in SUBSET Nat
    OBVIOUS
  <2> HIDE DEF G
  <2> QED BY <1>1, <1>2, <2>1, Inductive
<1> QED BY <1>3

\* What the filter leaves grows by the entries it keeps.
LEMMA KeptUnfolds ==
  ASSUME NEW tree, NEW list \in Seq(Nat)
  PROVE  /\ KeptOf(tree, list)[0] = <<>>
         /\ \A p \in 1..Len(list) :
              KeptOf(tree, list)[p] =
                IF KeptIn(tree, list[p]) THEN Append(KeptOf(tree, list)[p - 1], list[p])
                ELSE KeptOf(tree, list)[p - 1]
<1> DEFINE D == 0..Len(list)
           Solves(f) == f = [p \in D |-> KeptStep(tree, list, f, p)]
<1>1. PICK f \in [D -> Seq(Nat)] : \A p \in D : f[p] = KeptStep(tree, list, f, p)
  <2>1. Len(list) \in Nat /\ Len(list) <= Len(list)
    OBVIOUS
  <2> QED BY <2>1, KeptExists
<1>2. f = [p \in D |-> KeptStep(tree, list, f, p)]
  BY <1>1
<1>3. PICK g : g = CHOOSE f0 : f0 = [p \in D |-> KeptStep(tree, list, f0, p)]
  OBVIOUS
<1>4. g = [p \in D |-> KeptStep(tree, list, g, p)]
  BY <1>2, <1>3
<1>5. KeptOf(tree, list) = g
  BY <1>3 DEF KeptOf, KeptStep, KeptIn
<1>6. \A p \in D : g[p] = KeptStep(tree, list, g, p)
  BY <1>4
<1>7. 0 \in D /\ \A p \in 1..Len(list) : p \in D /\ p # 0
  OBVIOUS
<1> HIDE DEF D
<1> QED BY <1>5, <1>6, <1>7 DEF KeptStep

LEMMA KeptTyped ==
  ASSUME NEW tree, NEW list \in Seq(Nat), NEW n \in 0..Len(list)
  PROVE  KeptOf(tree, list)[n] \in Seq(Nat)
<1> DEFINE G == {m \in Nat : m <= Len(list) => KeptOf(tree, list)[m] \in Seq(Nat)}
<1>0. Len(list) \in Nat
  OBVIOUS
<1>1. 0 \in G
  <2>1. KeptOf(tree, list)[0] = <<>>
    BY KeptUnfolds
  <2>2. <<>> \in Seq(Nat)
    OBVIOUS
  <2> QED BY <2>1, <2>2
<1>2. ASSUME NEW m \in G PROVE m + 1 \in G
  <2> SUFFICES ASSUME m + 1 <= Len(list) PROVE KeptOf(tree, list)[m + 1] \in Seq(Nat)
    OBVIOUS
  <2>1. m + 1 \in 1..Len(list) /\ list[m + 1] \in Nat /\ (m + 1) - 1 = m
    BY <1>0
  <2>2. PICK s : s = KeptOf(tree, list)[m]
    OBVIOUS
  <2>3. s \in Seq(Nat)
    BY <1>0, <2>2
  <2>4. KeptOf(tree, list)[m + 1] = IF KeptIn(tree, list[m + 1]) THEN Append(s, list[m + 1]) ELSE s
    BY <2>1, <2>2, KeptUnfolds
  <2>5. Append(s, list[m + 1]) \in Seq(Nat)
    BY <2>1, <2>3
  <2> QED BY <2>3, <2>4, <2>5
<1>3. \A m \in Nat : m \in G
  <2>1. G \in SUBSET Nat
    OBVIOUS
  <2> HIDE DEF G
  <2> QED BY <1>1, <1>2, <2>1, Inductive
<1>4. n \in Nat /\ n <= Len(list)
  BY <1>0
<1> QED BY <1>3, <1>4
-----------------------------------------------------------------------------
(* The children of row i by its links: c are the rows of the tree nodes kept. *)

IsChild(q, r, i, x) ==
  /\ q.from = <<r.from[1], x>> /\ q.parent = i /\ q.tu = r.tu
  /\ q.depth = Min2(r.depth + 1, MaxU8)
ChildrenAre(arr, i, kept, c) ==
  /\ c \in [1..Len(kept) -> 0..(Len(arr) - 1)]
  /\ arr[i + 1].first = IF Len(kept) = 0 THEN -1 ELSE c[1]
  /\ \A k \in 1..Len(kept) :
       /\ IsChild(arr[c[k] + 1], arr[i + 1], i, kept[k])
       /\ arr[c[k] + 1].next = IF k = Len(kept) THEN -1 ELSE c[k + 1]
\* The rows whose parent is i; those of open are not linked yet.
Below(arr, i) == {j \in 0..(Len(arr) - 1) : arr[j + 1].parent = i}
HasLinks(arr, i, kept, open, last) ==
  \E c : /\ ChildrenAre(arr, i, kept, c)
         /\ last = IF Len(kept) = 0 THEN -1 ELSE c[Len(kept)]
         /\ Below(arr, i) = {c[k] : k \in 1..Len(kept)} \cup open

\* Links of other rows may be set, and rows may be added.
LEMMA LinksStay ==
  ASSUME NEW arr, NEW arr2, NEW i, NEW kept, NEW open, NEW last, NEW more,
         HasLinks(arr, i, kept, open, last), Len(kept) \in Nat,
         Len(arr) \in Nat, Len(arr2) \in Nat, Len(arr) <= Len(arr2), i \in 0..(Len(arr) - 1),
         \A j \in 0..(Len(arr) - 1) : SameButLinks(arr2[j + 1], arr[j + 1]),
         arr2[i + 1].first = arr[i + 1].first,
         \A j \in Below(arr, i) : arr2[j + 1].next = arr[j + 1].next,
         Below(arr2, i) = Below(arr, i) \cup more
  PROVE  HasLinks(arr2, i, kept, open \cup more, last)
<1>1. PICK c : /\ ChildrenAre(arr, i, kept, c)
               /\ last = IF Len(kept) = 0 THEN -1 ELSE c[Len(kept)]
               /\ Below(arr, i) = {c[k] : k \in 1..Len(kept)} \cup open
  BY DEF HasLinks
<1>2. PICK n : n = Len(kept)
  OBVIOUS
<1>3. /\ c \in [1..n -> 0..(Len(arr) - 1)]
      /\ arr[i + 1].first = IF n = 0 THEN -1 ELSE c[1]
      /\ \A k \in 1..n : /\ IsChild(arr[c[k] + 1], arr[i + 1], i, kept[k])
                         /\ arr[c[k] + 1].next = IF k = n THEN -1 ELSE c[k + 1]
  BY <1>1, <1>2 DEF ChildrenAre
<1>4. ASSUME NEW k \in 1..n
      PROVE  /\ IsChild(arr2[c[k] + 1], arr2[i + 1], i, kept[k])
             /\ arr2[c[k] + 1].next = IF k = n THEN -1 ELSE c[k + 1]
  <2>1. c[k] \in 0..(Len(arr) - 1)
    BY <1>3
  <2>2. SameButLinks(arr2[c[k] + 1], arr[c[k] + 1]) /\ SameButLinks(arr2[i + 1], arr[i + 1])
    BY <2>1
  <2>3. IsChild(arr[c[k] + 1], arr[i + 1], i, kept[k])
    BY <1>3
  <2>4. IsChild(arr2[c[k] + 1], arr2[i + 1], i, kept[k])
    BY <2>2, <2>3, Zenon DEF SameButLinks, IsChild
  <2>5. c[k] \in Below(arr, i)
    BY <1>1, <1>2
  <2>6. arr2[c[k] + 1].next = arr[c[k] + 1].next
    BY <2>5
  <2> QED BY <1>3, <2>4, <2>6
<1>5. c \in [1..n -> 0..(Len(arr2) - 1)]
  <2>1. \A x \in 0..(Len(arr) - 1) : x \in 0..(Len(arr2) - 1)
    OBVIOUS
  <2> QED BY <1>3, <2>1
<1>6. ChildrenAre(arr2, i, kept, c)
  BY <1>2, <1>3, <1>4, <1>5 DEF ChildrenAre
<1>7. Below(arr2, i) = {c[k] : k \in 1..Len(kept)} \cup (open \cup more)
  BY <1>1
<1> QED BY <1>1, <1>6, <1>7 DEF HasLinks

\* A new row has no children.
LEMMA NoLinks ==
  ASSUME NEW arr, NEW i, arr[i + 1].first = -1, Below(arr, i) = {}
  PROVE  HasLinks(arr, i, <<>>, {}, -1)
<1>1. PICK c : c = [k \in 1..0 |-> 0]
  OBVIOUS
<1>2. Len(<<>>) = 0 /\ ~\E k \in 1..0 : TRUE
  OBVIOUS
<1>3. c \in [1..0 -> 0..(Len(arr) - 1)]
  BY <1>1, <1>2
<1>4. ChildrenAre(arr, i, <<>>, c)
  BY <1>2, <1>3 DEF ChildrenAre
<1>5. {c[k] : k \in 1..0} = {}
  BY <1>2
<1> QED BY <1>2, <1>4, <1>5 DEF HasLinks

\* The child linked last is a child.
LEMMA LastBelow ==
  ASSUME NEW arr, NEW i, NEW kept, NEW open, NEW last, HasLinks(arr, i, kept, open, last), Len(kept) \in Nat
  PROVE  last = -1 \/ last \in Below(arr, i)
<1>1. PICK c : /\ last = IF Len(kept) = 0 THEN -1 ELSE c[Len(kept)]
               /\ Below(arr, i) = {c[k] : k \in 1..Len(kept)} \cup open
  BY DEF HasLinks
<1> QED BY <1>1

\* What Link does to first_child.
LEMMA LinkFirst ==
  ASSUME NEW arr \in Seq(RowSet), NEW parent, NEW prev, NEW idx, NEW i \in 1..Len(arr)
  PROVE  Link(arr, parent, prev, idx)[i].first =
           IF i = parent + 1 /\ arr[i].first = -1 THEN idx ELSE arr[i].first
<1>1. DOMAIN arr = 1..Len(arr) /\ arr[i] \in RowSet
  BY ElementOf
<1>2. PICK r, a, b : /\ r = arr[i] /\ a = (IF i = parent + 1 /\ r.first = -1 THEN idx ELSE r.first)
                     /\ b = (IF i = prev + 1 THEN idx ELSE r.next)
  OBVIOUS
<1>3. Link(arr, parent, prev, idx)[i] = [r EXCEPT !.first = a, !.next = b]
  BY <1>1, <1>2 DEF Link
<1>4. [r EXCEPT !.first = a, !.next = b].first = a
  BY <1>1, <1>2 DEF RowSet
<1> QED BY <1>2, <1>3, <1>4

\* A visit that returns links its row behind the children linked before.
LEMMA LinkOne ==
  ASSUME NEW arr \in Seq(RowSet), NEW i \in 0..(Len(arr) - 1), NEW kept \in Seq(Nat), NEW x \in Nat,
         NEW last \in Int, NEW idx \in 0..(Len(arr) - 1), HasLinks(arr, i, kept, {idx}, last),
         IsChild(arr[idx + 1], arr[i + 1], i, x), arr[idx + 1].next = -1, last < idx,
         NEW new, new = Link(arr, i, last, idx)
  PROVE  HasLinks(new, i, Append(kept, x), {}, idx)
<1>1. PICK c : /\ ChildrenAre(arr, i, kept, c)
               /\ last = IF Len(kept) = 0 THEN -1 ELSE c[Len(kept)]
               /\ Below(arr, i) = {c[k] : k \in 1..Len(kept)} \cup {idx}
  BY DEF HasLinks
<1>2. PICK n, l, kept2 : n = Len(kept) /\ l = Len(arr) /\ kept2 = Append(kept, x)
  OBVIOUS
<1>3. /\ n \in Nat /\ l \in Nat /\ Len(kept2) = n + 1 /\ kept2[n + 1] = x
      /\ \A k \in 1..n : kept2[k] = kept[k]
  BY <1>2
<1>4. /\ c \in [1..n -> 0..(l - 1)]
      /\ arr[i + 1].first = IF n = 0 THEN -1 ELSE c[1]
      /\ \A k \in 1..n : /\ IsChild(arr[c[k] + 1], arr[i + 1], i, kept[k])
                         /\ arr[c[k] + 1].next = IF k = n THEN -1 ELSE c[k + 1]
  BY <1>1, <1>2 DEF ChildrenAre
<1>5. /\ Len(new) = l
      /\ \A j \in 1..l : /\ SameButLinks(new[j], arr[j])
                         /\ new[j].next = IF j = last + 1 THEN idx ELSE arr[j].next
  <2>1. i \in Int /\ idx \in Nat
    BY <1>2, <1>3
  <2>2. Linked(new, arr, last, idx)
    BY <2>1, Linking
  <2> QED BY <1>2, <2>2 DEF Linked
<1>6. new[i + 1].first = IF n = 0 THEN idx ELSE arr[i + 1].first
  <2>1. i + 1 \in 1..l
    BY <1>2, <1>3
  <2>2. new[i + 1].first = IF arr[i + 1].first = -1 THEN idx ELSE arr[i + 1].first
    <3>1. PICK m : m = i + 1
      OBVIOUS
    <3>2. m \in 1..Len(arr)
      BY <1>2, <2>1, <3>1
    <3>3. Link(arr, i, last, idx)[m].first = IF m = i + 1 /\ arr[m].first = -1 THEN idx ELSE arr[m].first
      BY <3>2, LinkFirst, SMTT(30)
    <3>4. new[m].first = IF m = i + 1 /\ arr[m].first = -1 THEN idx ELSE arr[m].first
      BY <3>3, Zenon
    <3>5. new[m].first = IF arr[m].first = -1 THEN idx ELSE arr[m].first
      <4>1. CASE arr[m].first = -1
        BY <3>1, <3>4, <4>1, Zenon
      <4>2. CASE arr[m].first # -1
        BY <3>1, <3>4, <4>2, Zenon
      <4> QED BY <4>1, <4>2, Zenon
    <3> QED BY <3>1, <3>5, Zenon
  <2>3. n # 0 => c[1] # -1
    <3>1. n # 0 => 1 \in 1..n
      BY <1>3
    <3> QED BY <1>3, <1>4, <3>1
  <2> QED BY <1>4, <2>2, <2>3
<1>7. PICK d : d = [k \in 1..(n + 1) |-> IF k = n + 1 THEN idx ELSE c[k]]
  OBVIOUS
<1>8. d[n + 1] = idx /\ \A k \in 1..n : d[k] = c[k]
  <2>1. n + 1 \in 1..(n + 1) /\ \A k \in 1..n : k \in 1..(n + 1) /\ k # n + 1
    BY <1>3
  <2> QED BY <1>7, <2>1
<1>9. d \in [1..(n + 1) -> 0..(l - 1)]
  <2>1. \A k \in 1..(n + 1) : k # n + 1 => k \in 1..n
    BY <1>3
  <2> QED BY <1>2, <1>4, <1>7, <2>1
<1>10. \A j \in 0..(l - 1) : j + 1 \in 1..l
  BY <1>3
<1>11. \A j \in 0..(l - 1) : SameButLinks(new[j + 1], arr[j + 1])
  BY <1>5, <1>10
<1>12. \A q, r, p : \A y : IsChild(q, r, i, y) /\ SameButLinks(p, q) => IsChild(p, r, i, y)
  BY Zenon DEF IsChild, SameButLinks
<1>13. \A q, r, p : \A y : IsChild(q, r, i, y) /\ SameButLinks(p, r) => IsChild(q, p, i, y)
  BY Zenon DEF IsChild, SameButLinks
<1>14. ASSUME NEW k \in 1..(n + 1)
       PROVE  /\ IsChild(new[d[k] + 1], new[i + 1], i, kept2[k])
              /\ new[d[k] + 1].next = IF k = n + 1 THEN -1 ELSE d[k + 1]
  <2>1. CASE k = n + 1
    <3>1. IsChild(new[idx + 1], new[i + 1], i, x)
      BY <1>2, <1>11, <1>12, <1>13
    <3>2. idx + 1 \in 1..l /\ idx + 1 # last + 1
      BY <1>2, <1>10
    <3>3. new[idx + 1].next = -1
      BY <1>5, <3>2
    <3> QED BY <1>3, <1>8, <2>1, <3>1, <3>3
  <2>2. CASE k # n + 1
    <3>1. k \in 1..n /\ (k # n => k + 1 \in 1..n)
      BY <1>3, <2>2
    <3>2. d[k] = c[k] /\ c[k] \in 0..(l - 1)
      BY <1>4, <1>8, <3>1
    <3>3. IsChild(new[c[k] + 1], new[i + 1], i, kept[k])
      <4>1. IsChild(arr[c[k] + 1], arr[i + 1], i, kept[k])
        BY <1>4, <3>1
      <4>2. SameButLinks(new[c[k] + 1], arr[c[k] + 1]) /\ SameButLinks(new[i + 1], arr[i + 1])
        BY <1>2, <1>11, <3>2
      <4> QED BY <1>12, <1>13, <4>1, <4>2
    <3>4. last = c[n]
      BY <1>1, <1>2, <1>3, <3>1
    <3>5. CASE k = n
      <4>1. c[k] + 1 \in 1..l /\ c[k] + 1 = last + 1
        BY <1>10, <3>2, <3>4, <3>5
      <4>2. new[c[k] + 1].next = idx
        BY <1>5, <4>1
      <4> QED BY <1>3, <1>8, <2>2, <3>1, <3>2, <3>3, <3>5, <4>2
    <3>6. CASE k # n
      <4>1. arr[c[k] + 1].next = c[k + 1] /\ c[k + 1] \in 0..(l - 1) /\ d[k + 1] = c[k + 1]
        BY <1>4, <1>8, <3>1, <3>6
      <4>2. n \in 1..n /\ arr[c[n] + 1].next = -1
        <5>1. n \in 1..n
          BY <1>3, <3>1
        <5> QED BY <1>4, <5>1
      <4>3. c[k] # c[n]
        <5>1. c[k + 1] # -1
          BY <1>3, <4>1
        <5> QED BY <4>1, <4>2, <5>1, Zenon
      <4>4. c[k] + 1 \in 1..l /\ c[k] + 1 # last + 1
        <5>1. c[n] \in 0..(l - 1)
          BY <1>4, <4>2
        <5>2. PICK y, z : y = c[k] /\ z = c[n]
          OBVIOUS
        <5>3. y \in 0..(l - 1) /\ z \in 0..(l - 1) /\ y # z
          BY <3>2, <4>3, <5>1, <5>2
        <5>4. y + 1 # z + 1
          BY <1>3, <5>3
        <5>5. y + 1 \in 1..l
          BY <1>10, <5>3
        <5> QED BY <3>4, <5>2, <5>4, <5>5
      <4>5. new[c[k] + 1].next = c[k + 1]
        BY <1>5, <4>1, <4>4
      <4> QED BY <1>3, <1>8, <2>2, <3>1, <3>2, <3>3, <4>1, <4>5
    <3> QED BY <3>5, <3>6
  <2> QED BY <2>1, <2>2
<1>15. new[i + 1].first = IF n + 1 = 0 THEN -1 ELSE d[1]
  <2>1. CASE n = 0
    <3>1. d[1] = idx /\ n + 1 # 0
      BY <1>8, <2>1
    <3> QED BY <1>6, <2>1, <3>1
  <2>2. CASE n # 0
    <3>1. 1 \in 1..n /\ n + 1 # 0
      BY <1>3, <2>2
    <3> QED BY <1>4, <1>6, <1>8, <2>2, <3>1
  <2> QED BY <2>1, <2>2
<1>16. ChildrenAre(new, i, kept2, d)
  BY <1>3, <1>5, <1>9, <1>14, <1>15 DEF ChildrenAre
<1>17. Below(new, i) = {d[k] : k \in 1..Len(kept2)} \cup {}
  <2>1. Below(new, i) = Below(arr, i)
    BY <1>2, <1>5, <1>11 DEF Below, SameButLinks
  <2>2. {d[k] : k \in 1..(n + 1)} = {c[k] : k \in 1..n} \cup {idx}
    <3>1. \A k \in 1..(n + 1) : k = n + 1 \/ k \in 1..n
      BY <1>3
    <3>2. n + 1 \in 1..(n + 1) /\ \A k \in 1..n : k \in 1..(n + 1)
      BY <1>3
    <3> QED BY <1>8, <3>1, <3>2
  <2> QED BY <1>1, <1>2, <1>3, <2>1, <2>2
<1>18. idx = IF Len(kept2) = 0 THEN -1 ELSE d[Len(kept2)]
  BY <1>3, <1>8
<1> QED BY <1>2, <1>16, <1>17, <1>18 DEF HasLinks
-----------------------------------------------------------------------------
(* The invariant of the links.                                               *)

\* The entries of "inner" a frame has done with are linked, less those left out; a
\* frame below another is visiting the entry it is at, whose row is not linked yet.
Pending(st, k) == IF k < Len(st) THEN {st[k + 1].idx} ELSE {}
Visits(up, f, arr, tree, n) ==
  /\ f.node = n /\ KeptIn(tree, n)
  /\ arr[f.idx + 1].tu = arr[up.idx + 1].tu /\ f.depth = up.depth + 1
FrameLinked(st, arr, tree, k) ==
  /\ HasLinks(arr, st[k].idx, KeptOf(tree, tree.inner[st[k].node])[st[k].at - 1], Pending(st, k), st[k].prev)
  /\ arr[st[k].idx + 1].depth = Min2(st[k].depth, MaxU8)
  /\ k < Len(st) => Visits(st[k], st[k + 1], arr, tree, tree.inner[st[k].node][st[k].at])
\* A row no frame is at has all its children.
ListOf(m, r) == m[r.from[1]].tree.inner[r.from[2]]
KeptOfRow(m, r) == KeptOf(m[r.from[1]].tree, ListOf(m, r))[Len(ListOf(m, r))]
RowLinked(arr, m, i) == \E last : HasLinks(arr, i, KeptOfRow(m, arr[i + 1]), {}, last)

InHand(st, i) == \E k \in 1..Len(st) : st[k].idx = i
Links ==
  /\ \A k \in 1..Len(stack) : FrameLinked(stack, nodes, Now.tree, k)
  /\ \A i \in 0..(Len(nodes) - 1) : InHand(stack, i) \/ RowLinked(nodes, manifest, i)

\* The list a frame works through, and what is kept of it so far.
LEMMA FrameList ==
  ASSUME TensorInv, NEW k \in 1..Len(stack)
  PROVE  LET list == Now.tree.inner[stack[k].node]
         IN /\ list \in Seq(Nat) /\ Len(list) \in Nat
            /\ stack[k].at \in Nat \ {0} /\ stack[k].at - 1 \in 0..Len(list)
            /\ KeptOf(Now.tree, list)[stack[k].at - 1] \in Seq(Nat)
            /\ stack[k].idx \in 0..(Len(nodes) - 1)
            /\ nodes[stack[k].idx + 1].from = <<entry, stack[k].node>>
<1>1. /\ stack[k].at \in Nat /\ stack[k].node \in Nat /\ stack[k].idx \in Nat
      /\ FrameFits(stack[k], nodes, entry, Now.tree) /\ entry <= Len(manifest)
      /\ stack[k].idx < Len(nodes)
  BY FrameOf
<1>2. Now.tree.inner \in Seq(Seq(Nat))
  <2>1. manifest \in Seq(Dump) /\ entry \in DOMAIN manifest
    BY <1>1, Entries, ManifestAssumption DEF TensorInv, Base
  <2>2. Now \in Dump
    BY <2>1 DEF Now
  <2> QED BY <2>2 DEF Dump, Tree
<1>3. PICK list : list = Now.tree.inner[stack[k].node]
  OBVIOUS
<1>4. list \in Seq(Nat) /\ Len(list) \in Nat
  BY <1>1, <1>2, <1>3 DEF FrameFits
<1>5. stack[k].at - 1 \in 0..Len(list) /\ stack[k].at # 0
  <2>1. stack[k].at \in 1..(Len(list) + 1)
    BY <1>1, <1>3 DEF FrameFits
  <2> QED BY <1>1, <1>4, <2>1
<1>6. KeptOf(Now.tree, list)[stack[k].at - 1] \in Seq(Nat)
  BY <1>4, <1>5, KeptTyped
<1>7. stack[k].idx \in 0..(Len(nodes) - 1) /\ nodes[stack[k].idx + 1].from = <<entry, stack[k].node>>
  <2>1. Len(nodes) \in Nat
    BY DEF TensorInv, Base
  <2> QED BY <1>1, <2>1 DEF FrameFits
<1> QED BY <1>1, <1>3, <1>4, <1>5, <1>6, <1>7

\* The list of a row is known when the row decodes.
LEMMA RowList ==
  ASSUME TensorInv, NEW i \in 0..(Len(nodes) - 1)
  PROVE  /\ ListOf(manifest, nodes[i + 1]) \in Seq(Nat)
         /\ KeptOfRow(manifest, nodes[i + 1]) \in Seq(Nat)
         /\ nodes[i + 1] \in RowSet /\ nodes[i + 1].parent \in -1..(i - 1)
<1>1. nodes \in Seq(RowSet) /\ Len(nodes) \in Nat /\ manifest \in Seq(Dump)
  BY ManifestAssumption DEF TensorInv, Base
<1>2. i + 1 \in 1..Len(nodes) /\ (i + 1) - 2 = i - 1
  BY <1>1
<1>3. PICK r : r = nodes[i + 1]
  OBVIOUS
<1>4. RowFits(r, manifest, kinds, idents, tus) /\ r.parent \in -1..(i - 1)
  BY <1>2, <1>3 DEF TensorInv, Rows
<1>5. r.from[1] \in DOMAIN manifest /\ r.from[2] \in DOMAIN manifest[r.from[1]].tree.inner
  BY <1>4 DEF RowFits
<1>6. manifest[r.from[1]].tree.inner \in Seq(Seq(Nat))
  <2>1. manifest[r.from[1]] \in Dump
    BY <1>1, <1>5
  <2> QED BY <2>1 DEF Dump, Tree
<1>7. ListOf(manifest, r) \in Seq(Nat)
  BY <1>5, <1>6 DEF ListOf
<1>8. Len(ListOf(manifest, r)) \in 0..Len(ListOf(manifest, r))
  BY <1>7
<1>9. KeptOfRow(manifest, r) \in Seq(Nat)
  BY <1>7, <1>8, KeptTyped DEF KeptOfRow
<1> QED BY <1>1, <1>2, <1>3, <1>4, <1>7, <1>9

\* A step that changes neither rows, nor frames, nor the dump they are of.
LEMMA LinksSame ==
  ASSUME Links, nodes' = nodes, manifest' = manifest,
         stack' = stack, entry' = entry \/ stack = <<>>
  PROVE  Links'
<1>1. ASSUME NEW k \in 1..Len(stack) PROVE FrameLinked(stack, nodes, Now'.tree, k)
  <2>1. stack # <<>>
    OBVIOUS
  <2>2. Now' = Now
    BY <2>1 DEF Now
  <2> QED BY <2>2 DEF Links
<1>2. \A i \in 0..(Len(nodes) - 1) : InHand(stack, i) \/ RowLinked(nodes, manifest, i)
  BY DEF Links
<1> QED BY <1>1, <1>2 DEF Links

\* A visit begins below the one it was called from.
LEMMA LinksEnter ==
  ASSUME TensorInv, Links, entry <= Len(manifest), NEW n \in DOMAIN Now.tree.inner,
         NEW parent \in -1..(Len(nodes) - 1), NEW depth \in Nat, NEW tu, Enter(n, parent, depth, tu),
         stack = <<>> => parent = -1,
         stack # <<>> => /\ parent = Top.idx /\ n = Child /\ KeptIn(Now.tree, n)
                         /\ depth = Top.depth + 1 /\ tu = nodes[Top.idx + 1].tu
  PROVE  Links'
<1>1. manifest' = manifest /\ entry' = entry /\ Now' = Now
  BY DEF Enter, Now
<1>2. CASE ~Fits(n, tu)
  BY <1>1, <1>2, LinksSame DEF Enter
<1>3. CASE Fits(n, tu)
  <2>1. stack \in Seq(FrameSet) /\ nodes \in Seq(RowSet)
    BY DEF TensorInv, Base
  <2>2. PICK r, f, l, h : /\ r = Row(n, parent, depth, tu) /\ f = Frame(n, depth)
                          /\ l = Len(nodes) /\ h = Len(stack)
    OBVIOUS
  <2>3. nodes' = Append(nodes, r) /\ stack' = Append(stack, f)
    BY <1>3, <2>2 DEF Enter
  <2>4. /\ l \in Nat /\ Len(nodes') = l + 1 /\ nodes'[l + 1] = r
        /\ \A i \in 1..l : nodes'[i] = nodes[i]
    BY <2>1, <2>2, <2>3
  <2>5. /\ h \in Nat /\ Len(stack') = h + 1 /\ stack'[h + 1] = f
        /\ \A k \in 1..h : stack'[k] = stack[k]
    BY <2>1, <2>2, <2>3
  <2>6. /\ r.parent = parent /\ r.first = -1 /\ r.next = -1 /\ r.tu = tu
        /\ r.depth = Min2(depth, MaxU8)
    BY <2>2 DEF Row
  <2>7. f.node = n /\ f.idx = l /\ f.depth = depth /\ f.at = 1 /\ f.prev = -1
    BY <2>2 DEF Frame
  <2>8. \A i \in 0..(l - 1) : i + 1 \in 1..l /\ nodes'[i + 1] = nodes[i + 1]
    BY <2>4
  <2>9. ASSUME NEW i \in 0..(l - 1)
        PROVE  Below(nodes', i) = Below(nodes, i) \cup (IF parent = i THEN {l} ELSE {})
    <3>1. \A j \in 0..l : j = l \/ j \in 0..(l - 1)
      BY <2>4
    <3>2. l \in 0..l /\ \A j \in 0..(l - 1) : j \in 0..l
      BY <2>4
    <3>3. (l + 1) - 1 = l
      BY <2>4
    <3>4. Below(nodes', i) = {j \in 0..l : nodes'[j + 1].parent = i}
      BY <2>4, <3>3 DEF Below
    <3>5. Below(nodes, i) = {j \in 0..(l - 1) : nodes'[j + 1].parent = i}
      BY <2>2, <2>8 DEF Below
    <3> QED BY <2>4, <2>6, <3>1, <3>2, <3>4, <3>5
  <2>10. ASSUME NEW i \in 0..(l - 1), NEW kept \in Seq(Nat), NEW open, NEW last,
                HasLinks(nodes, i, kept, open, last)
         PROVE  HasLinks(nodes', i, kept, open \cup (IF parent = i THEN {l} ELSE {}), last)
    <3>1. Len(nodes) \in Nat /\ Len(nodes') \in Nat /\ Len(nodes) <= Len(nodes') /\ Len(kept) \in Nat
      BY <2>2, <2>4
    <3>2. \A j \in 0..(Len(nodes) - 1) : nodes'[j + 1] = nodes[j + 1]
      BY <2>2, <2>8
    <3>3. \A j \in 0..(Len(nodes) - 1) : SameButLinks(nodes'[j + 1], nodes[j + 1])
      BY <3>2 DEF SameButLinks
    <3>4. \A j \in Below(nodes, i) : nodes'[j + 1].next = nodes[j + 1].next
      BY <3>2 DEF Below
    <3>5. nodes'[i + 1].first = nodes[i + 1].first /\ i \in 0..(Len(nodes) - 1)
      BY <2>2, <2>8
    <3> HIDE DEF Links
    <3> QED BY <2>9, <2>10, <3>1, <3>3, <3>4, <3>5, LinksStay
  <2>11. ASSUME NEW k \in 1..(h + 1) PROVE FrameLinked(stack', nodes', Now.tree, k)
    <3>1. CASE k = h + 1
      <4>1. Below(nodes', l) = {}
        <5>1. ASSUME NEW j \in 0..l, nodes'[j + 1].parent = l PROVE FALSE
          <6>1. CASE j = l
            BY <2>2, <2>4, <2>6, <5>1, <6>1
          <6>2. CASE j # l
            <7>1. j \in 0..(l - 1)
              BY <2>4, <6>2
            <7>2. nodes[j + 1].parent \in -1..(j - 1)
              BY <2>2, <7>1, RowList
            <7> QED BY <2>4, <2>8, <5>1, <7>1, <7>2
          <6> QED BY <6>1, <6>2
        <5>2. (l + 1) - 1 = l
          BY <2>4
        <5> QED BY <2>4, <5>1, <5>2 DEF Below
      <4>2. HasLinks(nodes', l, <<>>, {}, -1)
        BY <2>4, <2>6, <4>1, NoLinks
      <4>3. KeptOf(Now.tree, Now.tree.inner[n])[0] = <<>>
        <5>1. Now.tree.inner[n] \in Seq(Nat)
          <6>1. manifest \in Seq(Dump) /\ entry \in DOMAIN manifest
            BY Entries, ManifestAssumption DEF TensorInv, Base
          <6>2. Now \in Dump
            BY <6>1 DEF Now
          <6> QED BY <6>2 DEF Dump, Tree
        <5> QED BY <5>1, KeptUnfolds
      <4>4. f.at - 1 = 0 /\ Pending(stack', h + 1) = {} /\ ~(h + 1 < Len(stack'))
        BY <2>5, <2>7 DEF Pending
      <4>5. nodes'[f.idx + 1].depth = Min2(f.depth, MaxU8)
        BY <2>4, <2>6, <2>7
      <4> QED BY <2>5, <2>7, <3>1, <4>2, <4>3, <4>4, <4>5 DEF FrameLinked
    <3>2. CASE k # h + 1
      <4>1. k \in 1..h /\ stack'[k] = stack[k] /\ k < Len(stack')
        BY <2>5, <3>2
      <4>2. PICK g, kept : /\ g = stack[k]
                           /\ kept = KeptOf(Now.tree, Now.tree.inner[g.node])[g.at - 1]
        OBVIOUS
      <4>3. g.idx \in 0..(l - 1) /\ kept \in Seq(Nat)
        BY <2>2, <4>1, <4>2, FrameList
      <4>4. /\ HasLinks(nodes, g.idx, kept, Pending(stack, k), g.prev)
            /\ nodes[g.idx + 1].depth = Min2(g.depth, MaxU8)
            /\ k < h => Visits(g, stack[k + 1], nodes, Now.tree, Now.tree.inner[g.node][g.at])
        BY <2>2, <4>1, <4>2 DEF Links, FrameLinked
      <4>5. nodes'[g.idx + 1] = nodes[g.idx + 1]
        BY <2>8, <4>3
      <4>6. HasLinks(nodes', g.idx, kept, Pending(stack, k) \cup (IF parent = g.idx THEN {l} ELSE {}), g.prev)
        BY <2>10, <4>3, <4>4
      <4>7. stack # <<>> /\ Top = stack[h]
        BY <2>2, <2>5, <4>1 DEF Top
      <4>8. CASE k = h
        <5>1. g = Top /\ Pending(stack, k) = {} /\ Pending(stack', k) = {l} /\ stack'[k + 1] = f
          BY <2>2, <2>5, <2>7, <4>1, <4>2, <4>7, <4>8 DEF Pending
        <5>2. HasLinks(nodes', g.idx, kept, Pending(stack', k), g.prev)
          BY <4>6, <4>7, <5>1
        <5>3. n = Now.tree.inner[g.node][g.at] /\ KeptIn(Now.tree, n)
          BY <4>7, <5>1 DEF Child, Inner
        <5>4. nodes'[f.idx + 1].tu = nodes'[g.idx + 1].tu /\ f.depth = g.depth + 1
          BY <2>4, <2>6, <2>7, <4>5, <4>7, <5>1
        <5>5. Visits(g, f, nodes', Now.tree, Now.tree.inner[g.node][g.at])
          BY <2>7, <5>3, <5>4 DEF Visits
        <5> QED BY <4>1, <4>2, <4>4, <4>5, <5>1, <5>2, <5>5 DEF FrameLinked
      <4>9. CASE k # h
        <5>1. k < h /\ k + 1 \in 1..h /\ h \in 1..h /\ k < Len(stack)
          BY <2>2, <2>5, <4>1, <4>9
        <5>2. stack'[k + 1] = stack[k + 1] /\ Pending(stack', k) = Pending(stack, k)
          BY <2>5, <4>1, <5>1 DEF Pending
        <5>3. parent # g.idx
          <6>1. g.idx < stack[h].idx
            BY <2>2, <4>1, <4>2, <5>1 DEF TensorInv, Order
          <6>2. parent = stack[h].idx /\ stack[h].idx \in 0..(l - 1)
            BY <2>2, <4>7, <5>1, FrameList
          <6> QED BY <2>4, <4>3, <6>1, <6>2
        <5>4. HasLinks(nodes', g.idx, kept, Pending(stack', k), g.prev)
          BY <4>6, <5>2, <5>3
        <5>5. stack[k + 1].idx \in 0..(l - 1)
          BY <2>2, <5>1, FrameList
        <5>6. Visits(g, stack[k + 1], nodes', Now.tree, Now.tree.inner[g.node][g.at])
          BY <2>8, <4>4, <4>5, <5>1, <5>5 DEF Visits
        <5> QED BY <4>1, <4>2, <4>4, <4>5, <5>2, <5>4, <5>6 DEF FrameLinked
      <4> QED BY <4>8, <4>9
    <3> QED BY <3>1, <3>2
  <2>12. ASSUME NEW i \in 0..l, ~InHand(stack', i) PROVE RowLinked(nodes', manifest, i)
    <3>1. i # l
      <4>1. h + 1 \in 1..Len(stack')
        BY <2>5
      <4> QED BY <2>5, <2>7, <2>12, <4>1 DEF InHand
    <3>2. i \in 0..(l - 1)
      BY <2>4, <3>1
    <3>3. ~InHand(stack, i)
      <4>1. \A k \in 1..h : k \in 1..(h + 1) /\ stack'[k].idx = stack[k].idx
        BY <2>5
      <4> QED BY <2>2, <2>5, <2>12, <4>1 DEF InHand
    <3>4. PICK last : HasLinks(nodes, i, KeptOfRow(manifest, nodes[i + 1]), {}, last)
      BY <2>2, <3>2, <3>3 DEF Links, RowLinked
    <3>5. KeptOfRow(manifest, nodes[i + 1]) \in Seq(Nat)
      BY <2>2, <3>2, RowList
    <3>6. parent # i
      <4>1. CASE stack = <<>>
        BY <2>4, <3>2, <4>1
      <4>2. CASE stack # <<>>
        <5>1. h \in 1..h /\ parent = stack[h].idx
          BY <2>1, <2>2, <2>5, <4>2 DEF Top
        <5> QED BY <2>2, <3>3, <5>1 DEF InHand
      <4> QED BY <4>1, <4>2
    <3>7. HasLinks(nodes', i, KeptOfRow(manifest, nodes[i + 1]), {} \cup {}, last)
      BY <2>10, <3>2, <3>4, <3>5, <3>6
    <3> QED BY <2>8, <3>2, <3>7 DEF RowLinked
  <2>13. (l + 1) - 1 = l
    BY <2>4
  <2> QED BY <1>1, <2>4, <2>5, <2>11, <2>12, <2>13 DEF Links
<1> QED BY <1>2, <1>3

\* An entry that is left out adds nothing to what is kept.
LEMMA LinksSkip ==
  ASSUME TensorInv, Links, SkipChild, ~CannotCall
  PROVE  Links'
<1>1. /\ stack # <<>> /\ Top.at <= Len(Inner) /\ ~Survives(Child)
      /\ stack' = [stack EXCEPT ![Len(stack)] = Advance(@)]
      /\ manifest' = manifest /\ nodes' = nodes /\ entry' = entry /\ Now' = Now
  BY DEF SkipChild, InVisit, Now
<1>2. stack \in Seq(FrameSet)
  BY DEF TensorInv, Base
<1>3. PICK h, f, g, list : /\ h = Len(stack) /\ f = stack[h] /\ g = Advance(f)
                           /\ list = Now.tree.inner[f.node]
  OBVIOUS
<1>4. h \in Nat /\ h \in 1..h /\ f = Top /\ Inner = list
  BY <1>1, <1>2, <1>3 DEF Top, Inner
<1>5. /\ list \in Seq(Nat) /\ Len(list) \in Nat /\ f.at \in Nat \ {0} /\ f.at <= Len(list)
      /\ f \in FrameSet
  BY <1>1, <1>3, <1>4, FrameList, FrameOf
<1>6. g.node = f.node /\ g.idx = f.idx /\ g.prev = f.prev /\ g.at = f.at + 1 /\ g.depth = f.depth
  BY <1>3, <1>5 DEF Advance, FrameSet
<1>7. /\ Len(stack') = h
      /\ \A k \in 1..h : stack'[k] = IF k = h THEN g ELSE stack[k]
  BY <1>1, <1>2, <1>3, <1>4
<1>8. KeptOf(Now.tree, list)[f.at] = KeptOf(Now.tree, list)[f.at - 1]
  <2>1. f.at \in 1..Len(list)
    BY <1>5
  <2>2. ~KeptIn(Now.tree, list[f.at])
    BY <1>1, <1>4 DEF Child, Survives, IsMain, KeptIn
  <2> QED BY <1>5, <2>1, <2>2, KeptUnfolds
<1>9. ASSUME NEW k \in 1..h PROVE FrameLinked(stack', nodes, Now.tree, k)
  <2>1. FrameLinked(stack, nodes, Now.tree, k)
    BY <1>3 DEF Links
  <2>2. k < h => k + 1 \in 1..h /\ stack'[k] = stack[k] /\ stack'[k + 1].idx = stack[k + 1].idx
    <3>1. k < h => k + 1 \in 1..h /\ k # h
      BY <1>4
    <3>2. \A j \in 1..h : stack'[j].idx = stack[j].idx
      BY <1>3, <1>6, <1>7
    <3>3. k # h => stack'[k] = stack[k]
      BY <1>7
    <3> QED BY <3>1, <3>2, <3>3
  <2>3. Pending(stack', k) = Pending(stack, k)
    BY <1>3, <1>7, <2>2 DEF Pending
  <2>4. CASE k = h
    <3>1. ~(k < Len(stack')) /\ stack'[k] = g /\ stack[k] = f /\ g.at - 1 = f.at
      <4>1. ~(k < Len(stack'))
        BY <1>4, <1>7, <2>4
      <4>3. stack'[k] = g /\ stack[k] = f
        BY <1>3, <1>7, <2>4
      <4>2. (f.at + 1) - 1 = f.at
        BY <1>5
      <4> QED BY <1>6, <4>1, <4>2, <4>3
    <3>2. /\ HasLinks(nodes, f.idx, KeptOf(Now.tree, list)[f.at - 1], Pending(stack, k), f.prev)
          /\ nodes[f.idx + 1].depth = Min2(f.depth, MaxU8)
      BY <1>3, <2>1, <3>1 DEF FrameLinked
    <3> QED BY <1>3, <1>6, <1>8, <2>3, <3>1, <3>2 DEF FrameLinked
  <2>5. CASE k # h
    <3>1. k < h /\ k < Len(stack) /\ k + 1 \in 1..h /\ stack'[k] = stack[k]
      BY <1>3, <1>4, <1>7, <2>5
    <3>2. Visits(stack[k], stack[k + 1], nodes, Now.tree, Now.tree.inner[stack[k].node][stack[k].at])
      BY <2>1, <3>1 DEF FrameLinked
    <3>3. /\ stack'[k + 1].idx = stack[k + 1].idx /\ stack'[k + 1].node = stack[k + 1].node
          /\ stack'[k + 1].depth = stack[k + 1].depth
      BY <1>3, <1>6, <1>7, <3>1
    <3>4. Visits(stack[k], stack'[k + 1], nodes, Now.tree, Now.tree.inner[stack[k].node][stack[k].at])
      BY <3>2, <3>3 DEF Visits
    <3> QED BY <2>1, <2>3, <3>1, <3>4 DEF FrameLinked
  <2> QED BY <2>4, <2>5
<1>10. \A i : InHand(stack, i) => InHand(stack', i)
  <2>1. \A k \in 1..h : stack'[k].idx = stack[k].idx
    BY <1>3, <1>6, <1>7
  <2> QED BY <1>3, <1>7, <2>1 DEF InHand
<1>11. \A i \in 0..(Len(nodes) - 1) : InHand(stack', i) \/ RowLinked(nodes, manifest, i)
  BY <1>10 DEF Links
<1> QED BY <1>1, <1>7, <1>9, <1>11 DEF Links

\* A node whose list is at its end has all its children.
LEMMA TopFinished ==
  ASSUME TensorInv, Links, Return
  PROVE  RowLinked(nodes, manifest, Top.idx)
<1>1. stack # <<>> /\ Top.at > Len(Inner) /\ stack \in Seq(FrameSet)
  BY DEF TensorInv, Base, Return, InVisit
<1>2. PICK h, f, list : h = Len(stack) /\ f = Top /\ list = Inner
  OBVIOUS
<1>3. h \in Nat /\ h \in 1..h /\ f = stack[h] /\ list = Now.tree.inner[f.node] /\ ~(h < h)
  BY <1>1, <1>2 DEF Top, Inner
<1>4. /\ Len(list) \in Nat /\ f.at - 1 \in 0..Len(list) /\ f.at \in Nat
      /\ nodes[f.idx + 1].from = <<entry, f.node>>
  BY <1>2, <1>3, FrameList
<1>5. f.at - 1 = Len(list)
  BY <1>1, <1>2, <1>4
<1>6. FrameLinked(stack, nodes, Now.tree, h)
  BY <1>2, <1>3 DEF Links
<1>7. HasLinks(nodes, f.idx, KeptOf(Now.tree, list)[Len(list)], {}, f.prev)
  BY <1>2, <1>3, <1>5, <1>6 DEF FrameLinked, Pending
<1>8. KeptOfRow(manifest, nodes[f.idx + 1]) = KeptOf(Now.tree, list)[Len(list)]
  BY <1>3, <1>4 DEF KeptOfRow, ListOf, Now
<1> QED BY <1>2, <1>7, <1>8 DEF RowLinked

\* The row a return links is the child its frame is visiting.
IsVisited(up, top, list) ==
  /\ IsChild(nodes[top.idx + 1], nodes[up.idx + 1], up.idx, top.node)
  /\ nodes[top.idx + 1].next = -1 /\ up.prev < top.idx
  /\ HasLinks(nodes, up.idx, KeptOf(Now.tree, list)[up.at - 1], {top.idx}, up.prev)
  /\ KeptOf(Now.tree, list)[up.at] = Append(KeptOf(Now.tree, list)[up.at - 1], top.node)
LEMMA ReturnedChild ==
  ASSUME TensorInv, Links, NEW h \in Nat, h = Len(stack), h >= 2
  PROVE  IsVisited(stack[h - 1], stack[h], Now.tree.inner[stack[h - 1].node])
<1>0. PICK up, top : up = stack[h - 1] /\ top = stack[h]
  OBVIOUS
<1>1. h - 1 \in 1..h /\ h \in 1..h /\ h - 1 < h /\ h > 1 /\ (h - 1) + 1 = h
  OBVIOUS
<1>2. /\ up.idx \in Nat /\ up.depth \in Nat /\ up.at \in Nat
      /\ up.at <= Len(Now.tree.inner[up.node])
      /\ FrameFits(up, nodes, entry, Now.tree)
  BY <1>0, <1>1, FrameOf
<1>3. /\ top.idx \in Nat /\ top.depth \in Nat /\ FrameFits(top, nodes, entry, Now.tree)
      /\ nodes[top.idx + 1].parent = up.idx
  BY <1>0, <1>1, FrameOf
<1>4. PICK list : list = Now.tree.inner[up.node]
  OBVIOUS
<1>5. list \in Seq(Nat) /\ Len(list) \in Nat /\ up.at \in Nat \ {0} /\ up.at <= Len(list)
  BY <1>0, <1>1, <1>2, <1>4, FrameList
<1>6. FrameLinked(stack, nodes, Now.tree, h - 1) /\ FrameLinked(stack, nodes, Now.tree, h)
  BY <1>1 DEF Links
<1>7. /\ HasLinks(nodes, up.idx, KeptOf(Now.tree, list)[up.at - 1], {top.idx}, up.prev)
      /\ nodes[up.idx + 1].depth = Min2(up.depth, MaxU8)
      /\ Visits(up, top, nodes, Now.tree, list[up.at])
  BY <1>0, <1>1, <1>4, <1>6 DEF FrameLinked, Pending
<1>8. nodes[top.idx + 1].depth = Min2(top.depth, MaxU8)
  BY <1>0, <1>6 DEF FrameLinked
<1>9. nodes[top.idx + 1].depth = Min2(nodes[up.idx + 1].depth + 1, MaxU8)
  <2>1. PICK d : d = up.depth
    OBVIOUS
  <2>2. d \in Nat /\ top.depth = d + 1
    BY <1>2, <1>7, <2>1 DEF Visits
  <2>3. Min2(Min2(d, MaxU8) + 1, MaxU8) = Min2(d + 1, MaxU8)
    BY <2>2, TensorAssumption DEF Min2
  <2> QED BY <1>7, <1>8, <2>1, <2>2, <2>3
<1>10. IsChild(nodes[top.idx + 1], nodes[up.idx + 1], up.idx, top.node)
  <2>1. nodes[top.idx + 1].from = <<entry, top.node>> /\ nodes[up.idx + 1].from = <<entry, up.node>>
    BY <1>2, <1>3 DEF FrameFits
  <2>2. nodes[up.idx + 1].from[1] = entry
    BY <2>1
  <2>3. nodes[top.idx + 1].tu = nodes[up.idx + 1].tu
    BY <1>7 DEF Visits
  <2> QED BY <1>3, <1>9, <2>1, <2>2, <2>3, Zenon DEF IsChild
<1>11. nodes[top.idx + 1].next = -1
  BY <1>3 DEF FrameFits
<1>12. up.prev < top.idx
  BY <1>0, <1>1 DEF TensorInv, Order
<1>13. KeptOf(Now.tree, list)[up.at] = Append(KeptOf(Now.tree, list)[up.at - 1], top.node)
  <2>1. up.at \in 1..Len(list)
    BY <1>5
  <2>2. KeptIn(Now.tree, list[up.at]) /\ top.node = list[up.at]
    BY <1>7 DEF Visits
  <2> QED BY <1>5, <2>1, <2>2, KeptUnfolds
<1>14. IsVisited(up, top, list)
  BY <1>7, <1>10, <1>11, <1>12, <1>13 DEF IsVisited
<1> QED BY <1>0, <1>4, <1>14

\* Linking a row under up leaves the children of every other row as they are.
LEMMA OthersStay ==
  ASSUME NEW arr \in Seq(RowSet), NEW u \in Nat, NEW prev \in Int, NEW idx \in Nat,
         prev = -1 \/ prev \in Below(arr, u),
         NEW new, new = Link(arr, u, prev, idx),
         NEW i \in 0..(Len(arr) - 1), i # u,
         NEW kept \in Seq(Nat), NEW open, NEW last, HasLinks(arr, i, kept, open, last)
  PROVE  HasLinks(new, i, kept, open, last)
<1>1. PICK l : l = Len(arr)
  OBVIOUS
<1>2. /\ l \in Nat /\ Len(new) = l
      /\ \A j \in 1..l : /\ SameButLinks(new[j], arr[j])
                         /\ new[j].next = IF j = prev + 1 THEN idx ELSE arr[j].next
  <2>1. Linked(new, arr, prev, idx)
    <3>1. u \in Int
      OBVIOUS
    <3> QED BY <3>1, Linking
  <2>2. l \in Nat
    BY <1>1
  <2>3. /\ Len(new) = l
        /\ \A j \in 1..l : /\ SameButLinks(new[j], arr[j])
                           /\ new[j].next = IF j = prev + 1 THEN idx ELSE arr[j].next
    BY <1>1, <2>1, Zenon DEF Linked
  <2> QED BY <2>2, <2>3
<1>3. \A j \in 0..(l - 1) : j + 1 \in 1..l
  BY <1>2
<1>4. \A j \in 0..(l - 1) : SameButLinks(new[j + 1], arr[j + 1])
  BY <1>2, <1>3
<1>5. new[i + 1].first = arr[i + 1].first
  <2>1. i + 1 \in 1..l /\ i + 1 # u + 1
    BY <1>1, <1>2
  <2> QED BY <1>1, <2>1, LinkFirst
<1>6. \A j \in 0..(l - 1) : new[j + 1].parent = arr[j + 1].parent
  BY <1>4 DEF SameButLinks
<1>7. Below(new, i) = Below(arr, i)
  BY <1>1, <1>2, <1>6 DEF Below
<1>8. ASSUME NEW j \in Below(arr, i) PROVE new[j + 1].next = arr[j + 1].next
  <2>1. j \in 0..(l - 1) /\ arr[j + 1].parent = i /\ j + 1 \in 1..l
    BY <1>1, <1>3 DEF Below
  <2>2. j # prev
    BY <2>1 DEF Below
  <2>3. j + 1 # prev + 1
    BY <1>2, <2>1, <2>2
  <2> QED BY <1>2, <2>1, <2>3
<1>9. Len(kept) \in Nat /\ l <= l /\ i \in 0..(l - 1)
  BY <1>1, <1>2
<1>10. HasLinks(new, i, kept, open \cup {}, last)
  <2>1. Below(new, i) = Below(arr, i) \cup {}
    BY <1>7
  <2> QED BY <1>1, <1>2, <1>4, <1>5, <1>8, <1>9, <2>1, LinksStay
<1>11. open \cup {} = open
  OBVIOUS
<1> QED BY <1>10, <1>11

\* A visit that returns is linked below its parent, and done with.
LEMMA LinksReturn ==
  ASSUME TensorInv, Links, Return
  PROVE  Links'
<1>1. manifest' = manifest /\ stack \in Seq(FrameSet) /\ nodes \in Seq(RowSet) /\ stack # <<>>
  BY DEF TensorInv, Base, Return, InVisit
<1>2. PICK h, l : h = Len(stack) /\ l = Len(nodes)
  OBVIOUS
<1>3. h \in Nat /\ h >= 1 /\ l \in Nat
  BY <1>1, <1>2
<1>4. RowLinked(nodes, manifest, Top.idx)
  BY TopFinished
<1>5. CASE h = 1
  <2>1. stack' = <<>> /\ nodes' = nodes /\ Len(stack') = 0
    BY <1>2, <1>5 DEF Return
  <2>2. ASSUME NEW i \in 0..(l - 1) PROVE RowLinked(nodes, manifest, i)
    <3>1. CASE InHand(stack, i)
      <4>1. PICK k \in 1..Len(stack) : stack[k].idx = i
        BY <3>1 DEF InHand
      <4>2. k = h
        BY <1>2, <1>5
      <4> QED BY <1>2, <1>4, <4>1, <4>2 DEF Top
    <3>2. CASE ~InHand(stack, i)
      BY <1>2, <3>2 DEF Links
    <3> QED BY <3>1, <3>2
  <2> QED BY <1>1, <1>2, <2>1, <2>2 DEF Links
<1>6. CASE h # 1
  <2>1. PICK up, top, g : up = stack[h - 1] /\ top = stack[h] /\ g = [Advance(up) EXCEPT !.prev = top.idx]
    OBVIOUS
  <2>2. h >= 2 /\ h - 1 \in 1..h /\ h \in 1..h /\ (h - 1) + 1 = h /\ top = Top
    BY <1>2, <1>3, <1>6, <2>1 DEF Top
  <2>3. /\ nodes' = Link(nodes, up.idx, up.prev, top.idx)
        /\ stack' = Append(SubSeq(stack, 1, h - 2), g) /\ entry' = entry /\ Now' = Now
    BY <1>1, <1>2, <1>6, <2>1 DEF Return, Top, Now
  <2>4. /\ up \in FrameSet /\ up.idx \in 0..(l - 1) /\ up.prev \in Int
        /\ up.at \in Nat /\ top.idx \in 0..(l - 1) /\ top.idx \in Nat /\ up.idx \in Nat
    BY <1>2, <2>1, <2>2, FrameOf, FrameList
  <2>5. /\ g \in FrameSet /\ g.idx = up.idx /\ g.node = up.node /\ g.depth = up.depth
        /\ g.at = up.at + 1 /\ g.prev = top.idx
    <3>1. up.at + 1 \in Nat /\ top.idx \in Int
      BY <2>4
    <3> QED BY <2>1, <2>4, <3>1 DEF FrameSet, Advance
  <2>6. /\ Len(stack') = h - 1 /\ stack'[h - 1] = g
        /\ \A k \in 1..(h - 2) : stack'[k] = stack[k]
    BY <1>1, <1>2, <1>3, <2>2, <2>3, <2>5, Popping
  <2>7. PICK list : list = Now.tree.inner[up.node]
    OBVIOUS
  <2>8. list \in Seq(Nat) /\ KeptOf(Now.tree, list)[up.at - 1] \in Seq(Nat)
    BY <1>2, <2>1, <2>2, <2>7, FrameList
  <2>9. /\ IsChild(nodes[top.idx + 1], nodes[up.idx + 1], up.idx, top.node)
        /\ nodes[top.idx + 1].next = -1 /\ up.prev < top.idx
        /\ HasLinks(nodes, up.idx, KeptOf(Now.tree, list)[up.at - 1], {top.idx}, up.prev)
        /\ KeptOf(Now.tree, list)[up.at] = Append(KeptOf(Now.tree, list)[up.at - 1], top.node)
    <3>1. IsVisited(up, top, list)
      BY <1>2, <1>3, <2>1, <2>2, <2>7, ReturnedChild
    <3> QED BY <3>1 DEF IsVisited
  <2>10. top.node \in Nat
    BY <1>2, <2>1, <2>2, FrameOf
  <2>11. HasLinks(nodes', up.idx, KeptOf(Now.tree, list)[up.at], {}, top.idx)
    BY <1>1, <1>2, <2>3, <2>4, <2>8, <2>9, <2>10, LinkOne
  <2>12. up.prev = -1 \/ up.prev \in Below(nodes, up.idx)
    <3>1. Len(KeptOf(Now.tree, list)[up.at - 1]) \in Nat
      BY <2>8
    <3> QED BY <2>9, <3>1, LastBelow
  <2>13. Len(nodes') = l /\ \A j \in 0..(l - 1) : SameButLinks(nodes'[j + 1], nodes[j + 1])
    <3>1. up.idx \in Int
      BY <2>4
    <3>2. Linked(nodes', nodes, up.prev, top.idx)
      BY <1>1, <2>3, <2>4, <3>1, Linking
    <3>3. \A j \in 0..(l - 1) : j + 1 \in 1..l
      BY <1>3
    <3> QED BY <1>2, <3>2, <3>3 DEF Linked
  <2>14. ASSUME NEW i \in 0..(l - 1), i # up.idx, NEW kept \in Seq(Nat), NEW open, NEW last,
                HasLinks(nodes, i, kept, open, last)
         PROVE  HasLinks(nodes', i, kept, open, last)
    <3>1. PICK u, p, x, new : u = up.idx /\ p = up.prev /\ x = top.idx /\ new = nodes'
      OBVIOUS
    <3>2. /\ nodes \in Seq(RowSet) /\ u \in Nat /\ p \in Int /\ x \in Nat
          /\ p = -1 \/ p \in Below(nodes, u)
          /\ new = Link(nodes, u, p, x) /\ i \in 0..(Len(nodes) - 1) /\ i # u
      BY <1>1, <1>2, <2>3, <2>4, <2>12, <2>14, <3>1, Zenon
    <3>3. HasLinks(new, i, kept, open, last)
      BY <2>14, <3>2, OthersStay, Zenon
    <3> QED BY <3>1, <3>3
  <2>15. ASSUME NEW k \in 1..(h - 1) PROVE FrameLinked(stack', nodes', Now.tree, k)
    <3>1. CASE k = h - 1
      <4>1. (up.at + 1) - 1 = up.at /\ ~(k < Len(stack'))
        BY <1>3, <2>4, <2>6, <3>1
      <4>2. nodes'[up.idx + 1].depth = Min2(up.depth, MaxU8)
        <5>1. FrameLinked(stack, nodes, Now.tree, h - 1)
          BY <1>2, <2>2 DEF Links
        <5>2. nodes[up.idx + 1].depth = Min2(up.depth, MaxU8)
          BY <2>1, <5>1 DEF FrameLinked
        <5> QED BY <2>4, <2>13, <5>2 DEF SameButLinks
      <4>3. stack'[k] = g /\ Pending(stack', k) = {}
        BY <2>6, <3>1, <4>1 DEF Pending
      <4> QED BY <2>5, <2>7, <2>11, <4>1, <4>2, <4>3 DEF FrameLinked
    <3>2. CASE k # h - 1
      <4>1. k \in 1..(h - 2) /\ k \in 1..h /\ k < h /\ k < h - 1 /\ k + 1 \in 1..h /\ k + 1 \in 1..(h - 1)
        BY <1>3, <3>2
      <4>2. PICK f, kept : /\ f = stack[k] /\ f = stack'[k]
                           /\ kept = KeptOf(Now.tree, Now.tree.inner[f.node])[f.at - 1]
        BY <2>6, <4>1
      <4>3. f.idx \in 0..(l - 1) /\ kept \in Seq(Nat) /\ stack[k + 1].idx \in 0..(l - 1)
        BY <1>2, <4>1, <4>2, FrameList
      <4>4. f.idx # up.idx
        <5>1. f.idx < up.idx
          BY <1>2, <2>1, <2>2, <4>1, <4>2 DEF TensorInv, Order
        <5> QED BY <2>4, <4>3, <5>1
      <4>5. FrameLinked(stack, nodes, Now.tree, k)
        BY <1>2, <4>1 DEF Links
      <4>6. /\ HasLinks(nodes, f.idx, kept, {stack[k + 1].idx}, f.prev)
            /\ nodes[f.idx + 1].depth = Min2(f.depth, MaxU8)
            /\ Visits(f, stack[k + 1], nodes, Now.tree, Now.tree.inner[f.node][f.at])
        BY <1>2, <4>1, <4>2, <4>5 DEF FrameLinked, Pending
      <4>7. /\ stack'[k + 1].idx = stack[k + 1].idx /\ stack'[k + 1].node = stack[k + 1].node
            /\ stack'[k + 1].depth = stack[k + 1].depth
        <5>1. CASE k + 1 = h - 1
          BY <2>1, <2>5, <2>6, <5>1
        <5>2. CASE k + 1 # h - 1
          <6>1. k + 1 \in 1..(h - 2)
            BY <1>3, <4>1, <5>2
          <6> QED BY <2>6, <6>1
        <5> QED BY <5>1, <5>2
      <4>8. k < Len(stack') /\ Pending(stack', k) = {stack[k + 1].idx}
        BY <2>6, <4>1, <4>7 DEF Pending
      <4>9. HasLinks(nodes', f.idx, kept, Pending(stack', k), f.prev)
        BY <2>14, <4>3, <4>4, <4>6, <4>8
      <4>10. /\ nodes'[f.idx + 1].depth = nodes[f.idx + 1].depth
             /\ nodes'[f.idx + 1].tu = nodes[f.idx + 1].tu
             /\ nodes'[stack[k + 1].idx + 1].tu = nodes[stack[k + 1].idx + 1].tu
        BY <2>13, <4>3 DEF SameButLinks
      <4>11. Visits(f, stack'[k + 1], nodes', Now.tree, Now.tree.inner[f.node][f.at])
        BY <4>6, <4>7, <4>10 DEF Visits
      <4> QED BY <4>2, <4>6, <4>9, <4>10, <4>11 DEF FrameLinked
    <3> QED BY <3>1, <3>2
  <2>16. ASSUME NEW i \in 0..(l - 1), ~InHand(stack', i) PROVE RowLinked(nodes', manifest, i)
    <3>1. i # up.idx
      <4>1. h - 1 \in 1..Len(stack')
        BY <1>3, <2>2, <2>6
      <4> QED BY <2>5, <2>6, <2>16, <4>1 DEF InHand
    <3>2. RowLinked(nodes, manifest, i)
      <4>1. CASE i = top.idx
        BY <1>4, <2>2, <4>1
      <4>2. CASE i # top.idx
        <5>1. ASSUME NEW k \in 1..h, stack[k].idx = i PROVE FALSE
          <6>1. k # h /\ k # h - 1
            BY <2>1, <3>1, <4>2, <5>1
          <6>2. k \in 1..(h - 2) /\ k \in 1..(h - 1)
            BY <1>3, <6>1
          <6> QED BY <2>6, <2>16, <5>1, <6>2 DEF InHand
        <5>2. ~InHand(stack, i)
          BY <1>2, <5>1 DEF InHand
        <5> QED BY <1>2, <5>2 DEF Links
      <4> QED BY <4>1, <4>2
    <3>3. PICK last : HasLinks(nodes, i, KeptOfRow(manifest, nodes[i + 1]), {}, last)
      BY <3>2 DEF RowLinked
    <3>4. KeptOfRow(manifest, nodes[i + 1]) \in Seq(Nat)
      BY <1>2, RowList
    <3>5. HasLinks(nodes', i, KeptOfRow(manifest, nodes[i + 1]), {}, last)
      BY <2>14, <3>1, <3>3, <3>4
    <3>6. nodes'[i + 1].from = nodes[i + 1].from
      BY <2>13 DEF SameButLinks
    <3>7. KeptOfRow(manifest, nodes'[i + 1]) = KeptOfRow(manifest, nodes[i + 1])
      BY <3>6 DEF KeptOfRow, ListOf
    <3> QED BY <3>5, <3>7 DEF RowLinked
  <2> QED BY <1>1, <2>3, <2>6, <2>13, <2>15, <2>16 DEF Links
<1> QED BY <1>5, <1>6

LEMMA LinksInit == Init => Links
<1> SUFFICES ASSUME Init PROVE Links
  OBVIOUS
<1>1. Len(stack) = 0 /\ Len(nodes) = 0
  BY DEF Init
<1> QED BY <1>1 DEF Links

LEMMA LinksStep == TensorInv /\ Links /\ [Next]_vars => Links'
<1> SUFFICES ASSUME TensorInv, Links, [Next]_vars PROVE Links'
  OBVIOUS
<1>1. CASE \/ NoAstKey \/ Undecodable \/ NotAnObject \/ SkipUnreadable
          \/ (SkipChild /\ CannotCall) \/ Finalize \/ Stopped \/ UNCHANGED vars
  <2>1. nodes' = nodes /\ manifest' = manifest /\ stack' = stack /\ (entry' = entry \/ stack = <<>>)
    BY <1>1 DEF NoAstKey, Undecodable, NotAnObject, SkipUnreadable, SkipChild, Finalize, Stopped,
                Ready, vars, vocabs
  <2> QED BY <2>1, LinksSame
<1>2. CASE AddTranslationUnit
  <2>1. Ready /\ stack = <<>> /\ entry <= Len(manifest)
    BY <1>2 DEF AddTranslationUnit, Ready
  <2>2. CASE IsMain(1)
    <3>1. Enter(1, -1, 0, IdOf(tus, Now.source))
      BY <1>2, <2>2 DEF AddTranslationUnit
    <3>2. 1 \in DOMAIN Now.tree.inner
      BY <2>1, Entries DEF TensorInv
    <3>3. -1 \in -1..(Len(nodes) - 1) /\ 0 \in Nat
      BY DEF TensorInv, Base
    <3> QED BY <2>1, <3>1, <3>2, <3>3, LinksEnter
  <2>3. CASE ~IsMain(1)
    <3>1. nodes' = nodes /\ manifest' = manifest /\ stack' = stack
      BY <1>2, <2>3 DEF AddTranslationUnit
    <3> QED BY <2>1, <3>1, LinksSame
  <2> QED BY <2>2, <2>3
<1>3. CASE SkipChild /\ ~CannotCall
  BY <1>3, LinksSkip
<1>4. CASE VisitChild
  <2>1. /\ stack # <<>> /\ Top.at <= Len(Inner) /\ Survives(Child)
        /\ Enter(Child, Top.idx, Top.depth + 1, nodes[Top.idx + 1].tu)
    BY <1>4 DEF VisitChild, InVisit
  <2>2. KeptIn(Now.tree, Child) /\ Child # 0
    BY <2>1 DEF Survives, IsMain, KeptIn
  <2>3. stack \in Seq(FrameSet) /\ Len(stack) \in 1..Len(stack) /\ Len(nodes) \in Nat
    BY <2>1 DEF TensorInv, Base
  <2>4. /\ Top.idx \in Nat /\ Top.at \in Nat \ {0} /\ Top.depth \in Nat /\ Top.idx < Len(nodes)
        /\ FrameFits(Top, nodes, entry, Now.tree) /\ entry <= Len(manifest)
    BY <2>3, FrameOf, FrameList DEF Top
  <2>5. Child \in DOMAIN Now.tree.inner
    <3>1. Top.node \in DOMAIN Now.tree.inner
      BY <2>4 DEF FrameFits
    <3>2. /\ Len(Inner) \in Nat /\ \A i \in 1..Len(Inner) : Inner[i] \in 0..Len(Now.tree.inner)
          /\ DOMAIN Now.tree.inner = 1..Len(Now.tree.inner)
      BY <2>4, <3>1, Entries DEF TensorInv, Inner
    <3>3. Child \in 0..Len(Now.tree.inner)
      <4>1. Top.at \in 1..Len(Inner)
        BY <2>1, <2>4, <3>2
      <4> QED BY <3>2, <4>1 DEF Child
    <3> QED BY <2>2, <3>2, <3>3
  <2>6. Top.idx \in -1..(Len(nodes) - 1) /\ Top.depth + 1 \in Nat
    BY <2>3, <2>4
  <2> QED BY <2>1, <2>2, <2>4, <2>5, <2>6, LinksEnter
<1>5. CASE Return
  BY <1>5, LinksReturn
<1>6. CASE SkipChild
  BY <1>1, <1>3, <1>6
<1> QED BY <1>1, <1>2, <1>4, <1>5, <1>6 DEF Next
-----------------------------------------------------------------------------
(* The roots, and the sources.                                               *)

RootsOf(arr) == {j \in 0..(Len(arr) - 1) : arr[j + 1].parent = -1}
RootsAre(arr, P) ==
  /\ {arr[j + 1].from : j \in RootsOf(arr)} = {<<e, 1>> : e \in P}
  /\ \A i, j \in RootsOf(arr) : i < j => arr[i + 1].from[1] < arr[j + 1].from[1]
\* The dumps read whose translation unit was begun.
Passed == {e \in Readable : e < entry \/ (e = entry /\ stack # <<>>)}
Sources(P) == {"<root>"} \cup {manifest[e].source : e \in P}
OneRoot ==
  /\ phase # "died" => RootsAre(nodes, Walked \cap Passed) /\ Range(tus) = Sources(Passed)
  /\ phase = "done" => stack = <<>> /\ entry > Len(manifest)

LEMMA RootsKept ==
  ASSUME NEW arr, NEW arr2, NEW P, RootsAre(arr, P), Len(arr2) = Len(arr),
         \A j \in 0..(Len(arr) - 1) : SameButLinks(arr2[j + 1], arr[j + 1])
  PROVE  RootsAre(arr2, P)
<1>1. \A j \in 0..(Len(arr) - 1) : arr2[j + 1].parent = arr[j + 1].parent /\ arr2[j + 1].from = arr[j + 1].from
  BY DEF SameButLinks
<1>2. RootsOf(arr2) = RootsOf(arr)
  BY <1>1 DEF RootsOf
<1>3. \A j \in RootsOf(arr) : arr2[j + 1].from = arr[j + 1].from
  BY <1>1 DEF RootsOf
<1>4. {arr2[j + 1].from : j \in RootsOf(arr)} = {arr[j + 1].from : j \in RootsOf(arr)}
  BY <1>3
<1> QED BY <1>2, <1>3, <1>4 DEF RootsAre

\* A row that has a parent is no root.
LEMMA RootsGrow ==
  ASSUME NEW arr \in Seq(RowSet), NEW r, NEW P, RootsAre(arr, P)
  PROVE  /\ r.parent # -1 => RootsAre(Append(arr, r), P)
         /\ \A e \in Nat :
              r.parent = -1 /\ r.from = <<e, 1>> /\ (\A p \in P : p \in Nat /\ p < e)
              => RootsAre(Append(arr, r), P \cup {e})
<1>1. PICK l, new : l = Len(arr) /\ new = Append(arr, r)
  OBVIOUS
<1>2. l \in Nat /\ Len(new) = l + 1 /\ new[l + 1] = r /\ \A i \in 1..l : new[i] = arr[i]
  BY <1>1
<1>3. \A j \in 0..(l - 1) : j + 1 \in 1..l /\ new[j + 1] = arr[j + 1]
  BY <1>2
<1>4. (l + 1) - 1 = l /\ l \in 0..l /\ \A j \in 0..l : j = l \/ j \in 0..(l - 1)
  BY <1>2
<1>5. \A j \in 0..(l - 1) : j \in 0..l /\ j < l
  BY <1>2
<1>6. RootsOf(new) = RootsOf(arr) \cup (IF r.parent = -1 THEN {l} ELSE {})
  <2>1. RootsOf(new) = {j \in 0..l : new[j + 1].parent = -1}
    BY <1>2, <1>4 DEF RootsOf
  <2>2. RootsOf(arr) = {j \in 0..(l - 1) : new[j + 1].parent = -1}
    BY <1>1, <1>3 DEF RootsOf
  <2> QED BY <1>2, <1>4, <1>5, <2>1, <2>2
<1>7. \A j \in RootsOf(arr) : new[j + 1] = arr[j + 1] /\ j < l /\ j # l /\ j \in 0..(l - 1)
  BY <1>1, <1>3, <1>5 DEF RootsOf
<1>8. {new[j + 1].from : j \in RootsOf(arr)} = {<<e, 1>> : e \in P}
  <2>1. {new[j + 1].from : j \in RootsOf(arr)} = {arr[j + 1].from : j \in RootsOf(arr)}
    BY <1>7
  <2> QED BY <2>1 DEF RootsAre
<1>9. \A i, j \in RootsOf(arr) : i < j => new[i + 1].from[1] < new[j + 1].from[1]
  BY <1>7 DEF RootsAre
<1>10. ASSUME r.parent # -1 PROVE RootsAre(new, P)
  <2>1. RootsOf(new) = RootsOf(arr)
    BY <1>6, <1>10
  <2> QED BY <1>8, <1>9, <2>1 DEF RootsAre
<1>11. ASSUME NEW e \in Nat, r.parent = -1, r.from = <<e, 1>>, \A p \in P : p \in Nat /\ p < e
       PROVE  RootsAre(new, P \cup {e})
  <2>1. RootsOf(new) = RootsOf(arr) \cup {l}
    BY <1>6, <1>11
  <2>2. {new[j + 1].from : j \in RootsOf(new)} = {<<p, 1>> : p \in P \cup {e}}
    <3>1. {new[j + 1].from : j \in RootsOf(new)} = {new[j + 1].from : j \in RootsOf(arr)} \cup {r.from}
      BY <1>2, <2>1
    <3>2. {<<p, 1>> : p \in P \cup {e}} = {<<p, 1>> : p \in P} \cup {<<e, 1>>}
      OBVIOUS
    <3> QED BY <1>8, <1>11, <3>1, <3>2
  <2>3. ASSUME NEW i \in RootsOf(new), NEW j \in RootsOf(new), i < j
        PROVE  new[i + 1].from[1] < new[j + 1].from[1]
    <3>1. i \in RootsOf(arr)
      <4>1. j \in 0..l
        BY <1>4, <1>7, <1>5, <2>1
      <4>2. i # l
        BY <1>2, <2>3, <4>1
      <4> QED BY <2>1, <4>2
    <3>2. CASE j = l
      <4>1. PICK p \in P : new[i + 1].from = <<p, 1>>
        BY <1>8, <3>1
      <4>2. new[i + 1].from[1] = p /\ new[j + 1].from[1] = e
        BY <1>2, <1>11, <3>2, <4>1
      <4> QED BY <1>11, <4>2
    <3>3. CASE j # l
      BY <1>9, <2>1, <2>3, <3>1, <3>3
    <3> QED BY <3>2, <3>3
  <2> QED BY <2>2, <2>3 DEF RootsAre
<1> QED BY <1>1, <1>10, <1>11

LEMMA RangeGrows ==
  ASSUME NEW S, NEW v \in Seq(S), NEW s
  PROVE  Range(Grow(v, s)) = Range(v) \cup {s}
<1>1. CASE s \in Range(v)
  BY <1>1 DEF Grow
<1>2. CASE s \notin Range(v)
  <2>1. PICK l, w : l = Len(v) /\ w = Append(v, s)
    OBVIOUS
  <2>2. /\ l \in Nat /\ DOMAIN w = 1..(l + 1) /\ w[l + 1] = s /\ DOMAIN v = 1..l
        /\ \A i \in 1..l : w[i] = v[i]
    BY <2>1
  <2>3. l + 1 \in 1..(l + 1) /\ \A i \in 1..(l + 1) : i = l + 1 \/ i \in 1..l
    BY <2>2
  <2>4. \A i \in 1..l : i \in 1..(l + 1)
    BY <2>2
  <2>5. Range(w) = Range(v) \cup {s}
    BY <2>2, <2>3, <2>4 DEF Range
  <2> QED BY <1>2, <2>1, <2>5 DEF Grow
<1> QED BY <1>1, <1>2

LEMMA RootsInit == Init => OneRoot
<1> SUFFICES ASSUME Init PROVE OneRoot
  OBVIOUS
<1>1. phase = "load" /\ entry = 1 /\ stack = <<>> /\ Len(nodes) = 0 /\ tus = <<"<root>">>
  BY DEF Init
<1>2. manifest \in Seq(Dump)
  BY ManifestAssumption DEF Init
<1>3. \A e \in DOMAIN manifest : e \in Nat /\ e >= 1
  BY <1>2
<1>4. Passed = {}
  BY <1>1, <1>3 DEF Passed, Readable
<1>5. RootsOf(nodes) = {}
  BY <1>1 DEF RootsOf
<1>6. RootsAre(nodes, Walked \cap Passed)
  BY <1>4, <1>5 DEF RootsAre
<1>7. Range(tus) = {"<root>"}
  BY <1>1 DEF Range
<1> QED BY <1>1, <1>4, <1>6, <1>7 DEF OneRoot, Sources

\* What is passed when main moves on: the entry it is at, if it was readable.
LEMMA Passing ==
  ASSUME TensorInv, entry <= Len(manifest)
  PROVE  /\ entry \in DOMAIN manifest /\ entry \in Nat
         /\ \A e \in Readable : e \in Nat
         /\ {e \in Readable : e < entry + 1} = {e \in Readable : e < entry} \cup (Readable \cap {entry})
         /\ stack = <<>> => Passed = {e \in Readable : e < entry}
         /\ stack # <<>> => Passed = {e \in Readable : e < entry} \cup (Readable \cap {entry})
<1>1. manifest \in Seq(Dump) /\ entry \in DOMAIN manifest /\ entry \in Nat
  BY Entries, ManifestAssumption DEF TensorInv, Base
<1>2. \A e \in Readable : e \in Nat
  BY <1>1 DEF Readable
<1>3. \A e \in Nat : e < entry + 1 <=> e < entry \/ e = entry
  BY <1>1
<1>4. {e \in Readable : e < entry + 1} = {e \in Readable : e < entry} \cup (Readable \cap {entry})
  BY <1>2, <1>3
<1>5. stack = <<>> => Passed = {e \in Readable : e < entry}
  BY DEF Passed
<1>6. stack # <<>> => Passed = {e \in Readable : e < entry} \cup (Readable \cap {entry})
  BY DEF Passed
<1> QED BY <1>1, <1>2, <1>4, <1>5, <1>6

LEMMA RootsAdding ==
  ASSUME TensorInv, OneRoot, AddTranslationUnit
  PROVE  OneRoot'
<1>1. /\ phase = "load" /\ stack = <<>> /\ entry <= Len(manifest) /\ Now.file = "object"
      /\ tus' = Grow(tus, Now.source) /\ manifest' = manifest
  BY DEF AddTranslationUnit, Ready, Enter
<1>2. PICK P : P = {e \in Readable : e < entry}
  OBVIOUS
<1>3. entry \in Readable /\ entry \in Nat
  BY <1>1, Passing DEF Readable, Now
<1>4. Passed = P /\ {e \in Readable : e < entry + 1} = P \cup {entry}
  BY <1>1, <1>2, <1>3, Passing
<1>5. RootsAre(nodes, Walked \cap P) /\ Range(tus) = Sources(P)
  BY <1>1, <1>4 DEF OneRoot
<1>6. Range(tus') = Sources(P \cup {entry})
  <2>1. tus \in Seq(Strings)
    BY DEF TensorInv, Vocabs, Vocab
  <2>2. Range(Grow(tus, Now.source)) = Range(tus) \cup {Now.source}
    BY <2>1, RangeGrows
  <2>3. Sources(P \cup {entry}) = Sources(P) \cup {Now.source}
    BY DEF Sources, Now
  <2> QED BY <1>1, <1>5, <2>2, <2>3
<1>7. Readable' = Readable /\ Walked' = Walked /\ \A Q : Sources(Q)' = Sources(Q)
  BY <1>1 DEF Readable, Walked, Sources
<1>8. CASE ~IsMain(1)
  <2>1. entry' = entry + 1 /\ nodes' = nodes /\ phase' = phase /\ stack' = stack
    BY <1>8 DEF AddTranslationUnit
  <2>2. Passed' = P \cup {entry}
    BY <1>1, <1>4, <1>7, <2>1 DEF Passed
  <2>3. Walked \cap (P \cup {entry}) = Walked \cap P
    <3>1. entry \notin Walked
      BY <1>8 DEF Walked, IsMain, Now
    <3> QED BY <3>1
  <2> QED BY <1>1, <1>5, <1>6, <1>7, <2>1, <2>2, <2>3 DEF OneRoot, Sources
<1>9. CASE IsMain(1)
  <2>1. Enter(1, -1, 0, IdOf(tus, Now.source))
    BY <1>9 DEF AddTranslationUnit
  <2>2. CASE ~Fits(1, IdOf(tus, Now.source))
    BY <2>1, <2>2 DEF Enter, OneRoot
  <2>3. CASE Fits(1, IdOf(tus, Now.source))
    <3>1. PICK r, f : r = Row(1, -1, 0, IdOf(tus, Now.source)) /\ f = Frame(1, 0)
      OBVIOUS
    <3>2. /\ nodes' = Append(nodes, r) /\ stack' = Append(stack, f)
          /\ phase' = phase /\ entry' = entry
      BY <2>1, <2>3, <3>1 DEF Enter
    <3>3. stack' # <<>>
      <4>1. stack' = <<f>>
        BY <1>1, <3>2
      <4> QED BY <4>1
    <3>4. Passed' = P \cup {entry}
      BY <1>2, <1>3, <1>7, <3>2, <3>3 DEF Passed
    <3>5. Walked \cap (P \cup {entry}) = (Walked \cap P) \cup {entry}
      <4>1. entry \in Walked
        BY <1>3, <1>9 DEF Walked, IsMain, Now
      <4> QED BY <4>1
    <3>6. RootsAre(nodes', (Walked \cap P) \cup {entry})
      <4>1. r.parent = -1 /\ r.from = <<entry, 1>> /\ nodes \in Seq(RowSet)
        BY <3>1 DEF Row, TensorInv, Base
      <4>2. \A p \in Walked \cap P : p \in Nat /\ p < entry
        BY <1>1, <1>2, Passing
      <4> QED BY <1>3, <1>5, <3>2, <4>1, <4>2, RootsGrow
    <3> QED BY <1>1, <1>6, <1>7, <3>2, <3>4, <3>5, <3>6 DEF OneRoot, Sources
  <2> QED BY <2>2, <2>3
<1> QED BY <1>8, <1>9

LEMMA RootsStep == TensorInv /\ OneRoot /\ [Next]_vars => OneRoot'
<1> SUFFICES ASSUME TensorInv, OneRoot, [Next]_vars PROVE OneRoot'
  OBVIOUS
<1>1. manifest' = manifest /\ Readable' = Readable /\ Walked' = Walked /\ \A Q : Sources(Q)' = Sources(Q)
  <2>1. manifest' = manifest
    BY DEF Next, NoAstKey, Undecodable, NotAnObject, SkipUnreadable, AddTranslationUnit,
           SkipChild, VisitChild, Return, Finalize, Stopped, Enter, vars
  <2> QED BY <2>1 DEF Readable, Walked, Sources
<1>2. CASE NoAstKey \/ Undecodable \/ NotAnObject \/ (SkipChild /\ CannotCall)
  BY <1>2 DEF NoAstKey, Undecodable, NotAnObject, SkipChild, OneRoot
<1>3. CASE SkipUnreadable
  <2>1. /\ phase = "load" /\ stack = <<>> /\ entry <= Len(manifest)
        /\ Now.file # "object"
        /\ entry' = entry + 1 /\ phase' = phase /\ stack' = stack /\ nodes' = nodes /\ tus' = tus
    BY <1>3 DEF SkipUnreadable, Ready, vocabs
  <2>2. entry \notin Readable
    BY <2>1 DEF Readable, Now
  <2>3. Passed' = Passed
    <3>1. Passed' = {e \in Readable : e < entry + 1}
      BY <1>1, <2>1 DEF Passed
    <3> QED BY <2>1, <2>2, <3>1, Passing
  <2> QED BY <1>1, <2>1, <2>3 DEF OneRoot, Sources
<1>4. CASE AddTranslationUnit
  BY <1>4, RootsAdding
<1>5. CASE SkipChild /\ ~CannotCall
  <2>1. /\ phase = "load" /\ stack # <<>> /\ stack' = [stack EXCEPT ![Len(stack)] = Advance(@)]
        /\ entry' = entry /\ phase' = phase /\ nodes' = nodes /\ tus' = tus
    BY <1>5 DEF SkipChild, InVisit, vocabs
  <2>2. stack' # <<>>
    <3>1. stack \in Seq(FrameSet) /\ DOMAIN stack' = DOMAIN stack
      BY <2>1 DEF TensorInv, Base
    <3> QED BY <2>1, <3>1
  <2>3. Passed' = Passed
    BY <1>1, <2>1, <2>2 DEF Passed
  <2> QED BY <1>1, <2>1, <2>3 DEF OneRoot, Sources
<1>6. CASE VisitChild
  <2>1. phase = "load" /\ stack # <<>> /\ tus' = tus
        /\ Enter(Child, Top.idx, Top.depth + 1, nodes[Top.idx + 1].tu)
    BY <1>6 DEF VisitChild, InVisit
  <2>2. CASE ~Fits(Child, nodes[Top.idx + 1].tu)
    BY <2>1, <2>2 DEF Enter, OneRoot
  <2>3. CASE Fits(Child, nodes[Top.idx + 1].tu)
    <3>1. PICK r, f : /\ r = Row(Child, Top.idx, Top.depth + 1, nodes[Top.idx + 1].tu)
                      /\ f = Frame(Child, Top.depth + 1)
      OBVIOUS
    <3>2. /\ nodes' = Append(nodes, r) /\ stack' = Append(stack, f)
          /\ phase' = phase /\ entry' = entry
      BY <2>1, <2>3, <3>1 DEF Enter
    <3>3. stack \in Seq(FrameSet) /\ nodes \in Seq(RowSet) /\ Len(stack) \in 1..Len(stack)
      BY <2>1 DEF TensorInv, Base
    <3>4. stack' # <<>>
      <4>1. Len(stack') = Len(stack) + 1
        BY <3>2, <3>3
      <4> QED BY <3>3, <4>1
    <3>5. r.parent # -1
      <4>1. Top.idx \in Nat
        BY <3>3, FrameOf DEF Top
      <4> QED BY <3>1, <4>1 DEF Row
    <3>6. Passed' = Passed
      BY <1>1, <2>1, <3>2, <3>4 DEF Passed
    <3>7. RootsAre(nodes', Walked \cap Passed) /\ Range(tus) = Sources(Passed)
      BY <2>1, <3>2, <3>3, <3>5, RootsGrow DEF OneRoot
    <3> QED BY <1>1, <2>1, <3>2, <3>6, <3>7 DEF OneRoot, Sources
  <2> QED BY <2>2, <2>3
<1>7. CASE Return
  <2>1. phase = "load" /\ stack # <<>> /\ phase' = phase /\ tus' = tus
    BY <1>7 DEF Return, InVisit, vocabs
  <2>2. stack \in Seq(FrameSet) /\ nodes \in Seq(RowSet) /\ entry <= Len(manifest) /\ Len(stack) \in Nat
    BY <2>1 DEF TensorInv, Base
  <2>3. CASE Len(stack) = 1
    <3>1. stack' = <<>> /\ entry' = entry + 1 /\ nodes' = nodes
      BY <1>7, <2>3 DEF Return
    <3>2. Passed' = Passed
      <4>1. Passed' = {e \in Readable : e < entry + 1}
        BY <1>1, <3>1 DEF Passed
      <4> QED BY <2>1, <2>2, <4>1, Passing
    <3> QED BY <1>1, <2>1, <3>1, <3>2 DEF OneRoot, Sources
  <2>4. CASE Len(stack) # 1
    <3>1. PICK h, up, top : h = Len(stack) /\ up = stack[h - 1] /\ top = stack[h]
      OBVIOUS
    <3>2. h \in Nat /\ h >= 2 /\ h - 1 \in 1..h /\ h \in 1..h
      BY <2>1, <2>2, <2>4, <3>1
    <3>3. /\ nodes' = Link(nodes, up.idx, up.prev, top.idx) /\ entry' = entry
          /\ stack' = Append(SubSeq(stack, 1, h - 2), [Advance(up) EXCEPT !.prev = top.idx])
      BY <1>7, <2>4, <3>1 DEF Return, Top
    <3>4. stack' # <<>>
      <4>1. SubSeq(stack, 1, h - 2) \in Seq(FrameSet)
        BY <2>2, <3>1, <3>2
      <4>2. Len(stack') = Len(SubSeq(stack, 1, h - 2)) + 1
        BY <3>3, <4>1
      <4> QED BY <4>1, <4>2
    <3>5. up.idx \in Int /\ up.prev \in Int /\ top.idx \in Nat
      BY <3>1, <3>2, FrameOf
    <3>6. Linked(nodes', nodes, up.prev, top.idx)
      BY <2>2, <3>3, <3>5, Linking
    <3>7. /\ Len(nodes') = Len(nodes)
          /\ \A j \in 0..(Len(nodes) - 1) : SameButLinks(nodes'[j + 1], nodes[j + 1])
      <4>1. \A j \in 0..(Len(nodes) - 1) : j + 1 \in 1..Len(nodes)
        BY <2>2
      <4> QED BY <3>6, <4>1 DEF Linked
    <3>8. Passed' = Passed
      BY <1>1, <2>1, <3>3, <3>4 DEF Passed
    <3>9. RootsAre(nodes', Walked \cap Passed) /\ Range(tus) = Sources(Passed)
      BY <2>1, <3>7, RootsKept DEF OneRoot
    <3> QED BY <1>1, <2>1, <3>8, <3>9 DEF OneRoot, Sources
  <2> QED BY <2>3, <2>4
<1>8. CASE Finalize
  <2>1. /\ phase = "load" /\ stack = <<>> /\ entry > Len(manifest)
        /\ entry' = entry /\ stack' = stack /\ nodes' = nodes /\ tus' = tus
    BY <1>8 DEF Finalize, vocabs
  <2>2. Passed' = Passed
    BY <1>1, <2>1 DEF Passed
  <2> QED BY <1>1, <2>1, <2>2 DEF OneRoot, Sources
<1>9. CASE UNCHANGED vars
  <2>1. Passed' = Passed
    BY <1>1, <1>9 DEF Passed, vars
  <2> QED BY <1>1, <1>9, <2>1 DEF OneRoot, Sources, vars, vocabs
<1>10. CASE SkipChild
  BY <1>2, <1>5, <1>10
<1> QED BY <1>2, <1>3, <1>4, <1>6, <1>7, <1>8, <1>9, <1>10 DEF Next, Stopped

TensorAll == TensorInv /\ Links /\ OneRoot
LEMMA TensorAlways == Spec => []TensorAll
<1>1. Init => TensorAll
  BY TensorInit, LinksInit, RootsInit DEF TensorAll
<1>2. TensorAll /\ [Next]_vars => TensorAll'
  BY TensorStep, LinksStep, RootsStep DEF TensorAll
<1> QED BY <1>1, <1>2, PTL DEF Spec

\* A finished corpus has one root per dump read the filter keeps the
\* translation unit of, in manifest order, each under the name of its source, and
\* a dump that cannot be read is in no vocabulary.
THEOREM OneRootEach == Spec => []RootPerDump
<1>1. TensorAll => RootPerDump
  <2> SUFFICES ASSUME TensorAll, phase = "done"
      PROVE /\ {Node(i).from : i \in Roots} = {<<e, 1>> : e \in Walked}
            /\ \A i, j \in Roots : i < j => Node(i).from[1] < Node(j).from[1]
            /\ \A i \in Roots : tus[Node(i).tu + 1] = manifest[Node(i).from[1]].source
            /\ Range(tus) = {"<root>"} \cup {manifest[e].source : e \in Readable}
    BY DEF RootPerDump
  <2>1. TensorInv /\ OneRoot
    BY DEF TensorAll
  <2>2. manifest \in Seq(Dump) /\ entry \in Nat /\ entry > Len(manifest)
    BY <2>1, ManifestAssumption DEF TensorInv, Base, OneRoot
  <2>3. \A e \in DOMAIN manifest : e < entry
    BY <2>2
  <2>4. Passed = Readable
    BY <2>3 DEF Passed, Readable
  <2>5. Walked \cap Readable = Walked
    BY DEF Walked
  <2>6. RootsAre(nodes, Walked) /\ Range(tus) = Sources(Readable)
    BY <2>1, <2>4, <2>5 DEF OneRoot
  <2>7. RootsOf(nodes) = Roots
    BY DEF RootsOf, Roots, Idx, Node
  <2>8. \A i \in Roots : tus[Node(i).tu + 1] = manifest[Node(i).from[1]].source
    <3>1. ASSUME NEW i \in Roots PROVE tus[Node(i).tu + 1] = manifest[Node(i).from[1]].source
      <4>1. i + 1 \in 1..Len(nodes)
        BY <2>1 DEF Roots, Idx, TensorInv, Base
      <4> QED BY <2>1, <4>1 DEF TensorInv, Rows, RowFits, Node
    <3> QED BY <3>1
  <2> QED BY <2>6, <2>7, <2>8 DEF RootsAre, Sources, Node
<1> QED BY <1>1, TensorAlways, PTL

\* The k-th child a reader finds is the k-th row of the chain, and behind the last
\* one there is none.
LEMMA ReadersChild ==
  ASSUME NEW i \in Idx, NEW kept \in Seq(Nat), NEW c, ChildrenAre(nodes, i, kept, c),
         nodes \in Seq(RowSet), NEW k \in 1..(Len(kept) + 1)
  PROVE  KthChild(i, k) = IF k = Len(kept) + 1 THEN -1 ELSE c[k]
<1> DEFINE Link1(f, j) == IF j = 1 THEN Node(i).first
                          ELSE IF f[j - 1] \in Idx THEN Node(f[j - 1]).next ELSE -1
           Want(j) == IF j = Len(kept) + 1 THEN -1 ELSE c[j]
<1>1. PICK n, g, s : /\ n = Len(kept)
                     /\ g = CHOOSE f : f = [j \in 1..k |-> Link1(f, j)]
                     /\ s = [j \in 1..k |-> Want(j)]
  OBVIOUS
<1>2. n \in Nat /\ k \in Nat /\ 1 \in 1..k /\ k \in 1..k
  BY <1>1
<1>3. KthChild(i, k) = g[k]
  BY <1>1 DEF KthChild
<1>4. /\ c \in [1..n -> Idx] /\ Node(i).first = IF n = 0 THEN -1 ELSE c[1]
      /\ \A j \in 1..n : Node(c[j]).next = IF j = n THEN -1 ELSE c[j + 1]
  BY <1>1 DEF ChildrenAre, Idx, Node
<1>5. Want(1) = Node(i).first
  BY <1>1, <1>2, <1>4
<1>6. ASSUME NEW j \in 1..k, j # 1
      PROVE  /\ j - 1 \in 1..k /\ j - 1 \in 1..n
             /\ Want(j - 1) \in Idx /\ Want(j) = Node(Want(j - 1)).next
  <2>1. j - 1 \in 1..k /\ j - 1 \in 1..n /\ j - 1 # n + 1 /\ (j - 1) + 1 = j /\ (j - 1 = n <=> j = n + 1)
    BY <1>1, <1>2, <1>6
  <2>2. Want(j - 1) = c[j - 1] /\ c[j - 1] \in Idx
    BY <1>1, <1>4, <2>1
  <2>3. Node(c[j - 1]).next = IF j - 1 = n THEN -1 ELSE c[j]
    BY <1>4, <2>1
  <2>4. Want(j) = Node(c[j - 1]).next
    BY <1>1, <2>1, <2>3
  <2> QED BY <2>1, <2>2, <2>4
<1>7. s = [j \in 1..k |-> Link1(s, j)]
  <2>1. ASSUME NEW j \in 1..k PROVE Want(j) = Link1(s, j)
    <3>1. CASE j = 1
      BY <1>5, <3>1
    <3>2. CASE j # 1
      <4>1. s[j - 1] = Want(j - 1)
        BY <1>1, <1>6, <3>2
      <4> HIDE DEF Want
      <4> QED BY <1>6, <3>2, <4>1
    <3> QED BY <3>1, <3>2
  <2> HIDE DEF Want, Link1
  <2> QED BY <1>1, <2>1
<1>8. g = [j \in 1..k |-> Link1(g, j)]
  <2> HIDE DEF Link1
  <2> QED BY <1>1, <1>7
<1>9. \A j \in 1..k : g[j] = Link1(g, j)
  <2>1. PICK gg : gg = g
    OBVIOUS
  <2>2. gg = [j \in 1..k |-> Link1(gg, j)]
    BY <1>8, <2>1
  <2> HIDE DEF Link1
  <2>3. \A j \in 1..k : gg[j] = Link1(gg, j)
    BY <2>2
  <2> QED BY <2>1, <2>3
<1> DEFINE G == {m \in Nat : m + 1 <= k => g[m + 1] = Want(m + 1)}
<1>10. 0 \in G
  <2>1. g[1] = Node(i).first
    BY <1>2, <1>9
  <2>2. 0 + 1 = 1
    OBVIOUS
  <2> HIDE DEF Want
  <2> QED BY <1>5, <2>1, <2>2
<1>11. ASSUME NEW m \in G PROVE m + 1 \in G
  <2> SUFFICES ASSUME m + 1 + 1 <= k PROVE g[m + 1 + 1] = Want(m + 1 + 1)
    <3> HIDE DEF Want
    <3> QED OBVIOUS
  <2>1. PICK j : j = m + 1 + 1
    OBVIOUS
  <2>2. j \in 1..k /\ j # 1 /\ j - 1 = m + 1
    BY <1>2, <2>1
  <2> HIDE DEF Want
  <2>3. g[j - 1] = Want(j - 1)
    BY <1>2, <2>1, <2>2
  <2>4. g[j] = Node(Want(j - 1)).next
    BY <1>6, <1>9, <2>2, <2>3
  <2> QED BY <1>6, <2>1, <2>2, <2>4
<1>12. k - 1 \in G
  <2>1. G \in SUBSET Nat /\ k - 1 \in Nat
    BY <1>2
  <2> HIDE DEF G
  <2> QED BY <1>10, <1>11, <2>1, Inductive
<1>13. (k - 1) + 1 = k
  BY <1>2
<1>14. g[k] = Want(k)
  <2> HIDE DEF Want
  <2> QED BY <1>2, <1>12, <1>13
<1> QED BY <1>3, <1>14

\* In a finished corpus the links of every row lead through the children its JSON
\* node has, less those left out, in their order, and through no other row.
THEOREM ChildrenWritten == Spec => []ChildrenAsWritten
<1>1. TensorAll => ChildrenAsWritten
  <2> SUFFICES ASSUME TensorAll, phase = "done", NEW i \in Idx
      PROVE LET kept == KeptChildren(i)
            IN /\ KthChild(i, Len(kept) + 1) = -1
               /\ \A k \in DOMAIN kept :
                    LET j == KthChild(i, k)
                    IN /\ j \in Idx
                       /\ Node(j).from = <<Node(i).from[1], kept[k]>>
                       /\ Node(j).parent = i /\ Node(j).tu = Node(i).tu
                       /\ Node(j).depth = Min2(Node(i).depth + 1, MaxU8)
               /\ \A j \in Idx : Node(j).parent = i => \E k \in DOMAIN kept : j = KthChild(i, k)
    BY DEF ChildrenAsWritten
  <2>1. TensorInv /\ Links /\ stack = <<>> /\ Len(stack) = 0 /\ nodes \in Seq(RowSet)
    BY DEF TensorAll, TensorInv, Base, OneRoot
  <2> DEFINE kept == KeptChildren(i)
  <2>2. kept = KeptChildren(i)
    OBVIOUS
  <2> HIDE DEF kept
  <2>3. i \in 0..(Len(nodes) - 1)
    BY DEF Idx
  <2>4. kept = KeptOfRow(manifest, nodes[i + 1]) /\ kept \in Seq(Nat)
    BY <2>1, <2>2, <2>3, RowList DEF KeptChildren, KeptOfRow, ListOf, TreeAt, NodeAt, Node
  <2>5. RowLinked(nodes, manifest, i)
    BY <2>1, <2>3 DEF Links, InHand
  <2>6. PICK c : ChildrenAre(nodes, i, kept, c) /\ Below(nodes, i) = {c[k] : k \in 1..Len(kept)} \cup {}
    BY <2>4, <2>5 DEF RowLinked, HasLinks
  <2>7. DOMAIN kept = 1..Len(kept) /\ Len(kept) \in Nat
    BY <2>4
  <2>8. ASSUME NEW k \in 1..Len(kept) PROVE KthChild(i, k) = c[k]
    <3>1. k \in 1..(Len(kept) + 1) /\ k # Len(kept) + 1
      BY <2>7
    <3> QED BY <2>1, <2>4, <2>6, <3>1, ReadersChild
  <2>9. KthChild(i, Len(kept) + 1) = -1
    <3>1. Len(kept) + 1 \in 1..(Len(kept) + 1)
      BY <2>7
    <3> QED BY <2>1, <2>4, <2>6, <3>1, ReadersChild
  <2>10. ASSUME NEW k \in 1..Len(kept)
         PROVE  /\ c[k] \in Idx
                /\ Node(c[k]).from = <<Node(i).from[1], kept[k]>>
                /\ Node(c[k]).parent = i /\ Node(c[k]).tu = Node(i).tu
                /\ Node(c[k]).depth = Min2(Node(i).depth + 1, MaxU8)
    BY <2>6, <2>10 DEF ChildrenAre, IsChild, Idx, Node
  <2>11. ASSUME NEW j \in Idx, Node(j).parent = i PROVE \E k \in 1..Len(kept) : j = c[k]
    BY <2>6, <2>11 DEF Below, Idx, Node
  <2>12. \A k \in DOMAIN kept : /\ KthChild(i, k) \in Idx
                               /\ Node(KthChild(i, k)).from = <<Node(i).from[1], kept[k]>>
                               /\ Node(KthChild(i, k)).parent = i
                               /\ Node(KthChild(i, k)).tu = Node(i).tu
                               /\ Node(KthChild(i, k)).depth = Min2(Node(i).depth + 1, MaxU8)
    <3>1. ASSUME NEW k \in 1..Len(kept)
          PROVE  /\ KthChild(i, k) \in Idx
                 /\ Node(KthChild(i, k)).from = <<Node(i).from[1], kept[k]>>
                 /\ Node(KthChild(i, k)).parent = i /\ Node(KthChild(i, k)).tu = Node(i).tu
                 /\ Node(KthChild(i, k)).depth = Min2(Node(i).depth + 1, MaxU8)
      BY <2>8, <2>10, Zenon
    <3> QED BY <2>7, <3>1, Zenon
  <2>13. \A j \in Idx : Node(j).parent = i => \E k \in DOMAIN kept : j = KthChild(i, k)
    <3>1. ASSUME NEW j \in Idx, Node(j).parent = i PROVE \E k \in DOMAIN kept : j = KthChild(i, k)
      <4>1. PICK k \in 1..Len(kept) : j = c[k]
        BY <2>11, <3>1
      <4>2. k \in DOMAIN kept /\ j = KthChild(i, k)
        BY <2>7, <2>8, <4>1
      <4> QED BY <4>2
    <3> QED BY <3>1
  <2> QED BY <2>9, <2>12, <2>13, Zenon DEF kept
<1> QED BY <1>1, TensorAlways, PTL
=============================================================================
