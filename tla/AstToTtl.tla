------------------------------- MODULE AstToTtl -------------------------------
(***************************************************************************)
(* rules/c/cli/json_to_ttl.py: a clang AST dump becomes a graph of         *)
(* declarations, statements and the references between them.               *)
(*                                                                         *)
(* A node is its clang id.  An IRI is a tagged tuple: the source path,     *)
(* which is the same in all of them, is left out; so are the triples that  *)
(* copy a value (spelling, qualType, lines and columns).                   *)
(***************************************************************************)
EXTENDS Integers, Sequences, FiniteSets

CONSTANTS
  Id,      \* the clang ids: of the dump's nodes and of what it refers to
  Name,    \* spellings; "" stands for none
  Dumps    \* the dumps, see Dump

\* STMT_KINDS, by five that stand for them, and the kinds of declarations.  A
\* "cast" is an ImplicitCastExpr or a ParenExpr; "other" is whatever else a dump has
\* nodes for, a MemberExpr for one.
StmtKinds == {"CompoundStmt", "IfStmt", "ReturnStmt", "DeclStmt", "NullStmt"}
NamedDeclKinds == {"FunctionDecl", "VarDecl", "TypedefDecl", "EnumDecl"}
RecordKinds == {"struct", "union"}   \* a RecordDecl, by its tagUsed
Kinds == StmtKinds \cup NamedDeclKinds \cup RecordKinds
         \cup {"ParmVarDecl", "CallExpr", "DeclRefExpr", "cast", "other"}

\* unit: the payload is a TranslationUnitDecl.  inMain: neither includedFrom nor
\* isImplicit.  span: 0 when the dump leaves out the line, as it does when the line
\* before was the same.  ref: the id a DeclRefExpr refers to.
Dump == [unit : BOOLEAN, tops : Seq(Id), kind : [Id -> Kinds], kids : [Id -> Seq(Id)],
         name : [Id -> Name], inMain : [Id -> BOOLEAN], span : [Id -> Nat], ref : [Id -> Id]]

\* No node lies within itself: in every set of nodes there is one with no child in it.
Forest(kids) ==
  \A T \in SUBSET Id : T # {} => \E n \in T : \A i \in DOMAIN kids[n] : kids[n][i] \notin T
\* The nodes of each subtree, as a function of its root.
Within(kids) ==
  LET all[n \in Id] == {n} \cup UNION {all[kids[n][i]] : i \in DOMAIN kids[n]}
  IN all
\* A node with a statement or a reference in it has one place in the dump, and a
\* reference no children.  (clang repeats the nodes of types, which have neither,
\* and the condition of GNU's x ?: y, which is left out.)
OnePlace(d) ==
  /\ \A m, n \in Id : \A i \in DOMAIN d.kids[m], j \in DOMAIN d.kids[n] :
       /\ d.kids[m][i] = d.kids[n][j]
       /\ \E s \in Within(d.kids)[d.kids[n][j]] : d.kind[s] \in StmtKinds \cup {"DeclRefExpr"}
       => m = n /\ i = j
  /\ \A n \in Id : d.kind[n] = "DeclRefExpr" => d.kids[n] = <<>>
\* What the nodes of each subtree refer to, as a function of its root.
ReferredTo(d) ==
  LET all[n \in Id] == (IF d.kind[n] = "DeclRefExpr" THEN {d.ref[n]} ELSE {})
                       \cup UNION {all[d.kids[n][i]] : i \in DOMAIN d.kids[n]}
  IN all
Parameters(d, n) ==
  {m \in Id : /\ d.kind[n] = "FunctionDecl" /\ d.kind[m] = "ParmVarDecl"
              /\ \E i \in DOMAIN d.kids[n] : d.kids[n][i] = m}
\* In C what is used has been declared before, and is no statement.
DeclaredFirst(d) ==
  /\ \A i, j \in DOMAIN d.tops : i < j =>
       \A id \in {d.tops[j]} \cup Parameters(d, d.tops[j]) : id \notin ReferredTo(d)[d.tops[i]]
  /\ \A n \in Id : \A i, j \in DOMAIN d.kids[n] :
       i < j /\ d.kids[n][j] \in Parameters(d, n) => d.kids[n][j] \notin ReferredTo(d)[d.kids[n][i]]
  /\ \A n \in Id : d.kind[n] = "DeclRefExpr" => d.kind[d.ref[n]] \notin StmtKinds
\* No two statements of a kind begin and end at the same places.
ApartInSource(d) ==
  \A m, n \in Id :
    d.kind[m] \in StmtKinds /\ d.kind[m] = d.kind[n] /\ d.span[m] = d.span[n] /\ d.span[m] # 0
      => m = n

ASSUME DumpsAssumption ==
  /\ \A d \in Dumps : d \in Dump /\ DeclaredFirst(d) /\ ApartInSource(d)
  /\ \A kids \in {d.kids : d \in Dumps} : Forest(kids)
ASSUME PlacesAssumption == \A d \in Dumps : OnePlace(d)

VARIABLES
  dump,     \* the parsed JSON
  stack,    \* what convert and its callees have still to visit, nearest first
  graph,    \* the triples written
  iris,     \* decl_iri_by_clang_id: the IRI of a declaration met, or NoIri
  counter,  \* fallback_counter
  raised    \* an exception ended the conversion, before anything was written

vars == <<dump, stack, graph, iris, counter, raised>>

NoIri == <<"none">>
Tu == <<"tu">>
Unknown(id) == <<"unknown", id>>
-----------------------------------------------------------------------------
Kind(n) == dump.kind[n]
Kids(n) == dump.kids[n]

\* An item of the stack: who visits the node, on behalf of which IRI, and after
\* how many parameters (param_index).
Items(role, parent, nodes) ==
  [i \in DOMAIN nodes |->
     [role |-> role, parent |-> parent, node |-> nodes[i],
      index |-> Cardinality({j \in 1..(i - 1) : Kind(nodes[j]) = "ParmVarDecl"})]]

\* convert refuses a payload of another kind before it visits anything.
Init ==
  /\ dump \in Dumps
  /\ raised = ~dump.unit
  /\ stack = Items("convert", Tu, dump.tops)
  /\ graph = {<<Tu, "a", "TranslationUnitDecl">>}
  /\ iris = [id \in Id |-> NoIri]
  /\ counter = 0

Top == Head(stack)
Node == Top.node
Visiting(role) == ~raised /\ stack # <<>> /\ Top.role = role
Then(items) == stack' = items \o Tail(stack) /\ UNCHANGED raised

\* _span_iri, and the counter it leaves.
SpanIri(n) ==
  IF dump.span[n] = 0 THEN <<"node", counter + 1, Kind(n)>> ELSE <<"stmt", dump.span[n], Kind(n)>>
\* Mutated form: the nodes without a line share one IRI.
CountSpanNever(n) == counter' = counter
CountSpan(n) == counter' = IF dump.span[n] = 0 THEN counter + 1 ELSE counter

\* The class of an IRI and the node it was written for.
Written(iri, n) == {<<iri, "a", Kind(n)>>, <<iri, "clangNodeId", n>>}
-----------------------------------------------------------------------------
\* A declaration of a header or of clang, of no modelled kind, or without a name.
Skipped(n) ==
  \/ ~dump.inMain[n]
  \/ Kind(n) \notin NamedDeclKinds \cup RecordKinds
  \/ dump.name[n] = ""

SkipDecl ==
  /\ Visiting("convert") /\ Skipped(Node)
  /\ Then(<<>>)
  /\ UNCHANGED <<dump, graph, iris, counter>>

DeclIri(n) == <<"decl", Kind(n), dump.name[n]>>

\* Mutated form: the id is recorded when the function has been written.
EmitDeclUnrecorded ==
  /\ Visiting("convert") /\ ~Skipped(Node)
  /\ graph' = graph \cup Written(DeclIri(Node), Node) \cup {<<DeclIri(Node), "declaredIn", Tu>>}
  /\ iris' = IF Kind(Node) = "FunctionDecl" THEN iris ELSE [iris EXCEPT ![Node] = DeclIri(Node)]
  /\ Then(IF Kind(Node) = "FunctionDecl" THEN Items("function", DeclIri(Node), Kids(Node)) ELSE <<>>)
  /\ UNCHANGED <<dump, counter>>

\* The id is recorded before the body is visited.
EmitDecl ==
  /\ Visiting("convert") /\ ~Skipped(Node)
  /\ graph' = graph \cup Written(DeclIri(Node), Node) \cup {<<DeclIri(Node), "declaredIn", Tu>>}
  /\ iris' = [iris EXCEPT ![Node] = DeclIri(Node)]
  /\ Then(IF Kind(Node) = "FunctionDecl" THEN Items("function", DeclIri(Node), Kids(Node)) ELSE <<>>)
  /\ UNCHANGED <<dump, counter>>

ParamIri(function, index, n) == <<"param", function, index, dump.name[n]>>

\* Mutated form: the spelling of a parameter is recorded for its id.
EmitParamSpelt ==
  /\ Visiting("function") /\ Kind(Node) = "ParmVarDecl"
  /\ LET iri == ParamIri(Top.parent, Top.index, Node)
     IN graph' = graph \cup {<<iri, "a", "ParmVarDecl">>, <<Top.parent, "hasParameter", iri>>}
  /\ iris' = [iris EXCEPT ![Node] = <<dump.name[Node]>>]
  /\ Then(<<>>)
  /\ UNCHANGED <<dump, counter>>

\* Mutated form: a parameter is written without an edge from its function.
EmitParamAlone ==
  /\ Visiting("function") /\ Kind(Node) = "ParmVarDecl"
  /\ LET iri == ParamIri(Top.parent, Top.index, Node)
     IN /\ graph' = graph \cup {<<Top.parent, "hasParameter", iri>>}
        /\ iris' = [iris EXCEPT ![Node] = iri]
  /\ Then(<<>>)
  /\ UNCHANGED <<dump, counter>>

EmitParam ==
  /\ Visiting("function") /\ Kind(Node) = "ParmVarDecl"
  /\ LET iri == ParamIri(Top.parent, Top.index, Node)
     IN /\ graph' = graph \cup {<<iri, "a", "ParmVarDecl">>, <<Top.parent, "hasParameter", iri>>}
        /\ iris' = [iris EXCEPT ![Node] = iri]
  /\ Then(<<>>)
  /\ UNCHANGED <<dump, counter>>

\* The body gets its node and its children are visited; its own edges are not
\* extracted.
EmitBody ==
  /\ Visiting("function") /\ Kind(Node) = "CompoundStmt"
  /\ LET iri == SpanIri(Node)
     IN /\ graph' = graph \cup Written(iri, Node)
                     \cup {<<Top.parent, "hasBody", iri>>, <<Top.parent, "isDefinition", TRUE>>}
        /\ Then(Items("statement", iri, Kids(Node)))
  /\ CountSpan(Node)
  /\ UNCHANGED <<dump, iris>>

SkipChild ==
  /\ Visiting("function") /\ Kind(Node) \notin {"ParmVarDecl", "CompoundStmt"}
  /\ Then(<<>>)
  /\ UNCHANGED <<dump, graph, iris, counter>>
-----------------------------------------------------------------------------
\* _find_referenced_decl_id, none or one: down the first children to a DeclRefExpr.
Target[n \in Id] ==
  IF Kind(n) = "DeclRefExpr" THEN {dump.ref[n]}
  ELSE IF Kids(n) = <<>> THEN {} ELSE Target[Kids(n)[1]]
Calls(n) ==
  {<<"calls", id>> : id \in IF Kids(n) = <<>> THEN {} ELSE Target[Kids(n)[1]]}

\* _extracted_refs, as a set: the pairs are deduplicated.  The callee of a call is
\* not searched again.
Extracted[n \in Id] ==
  IF Kind(n) = "CallExpr"
  THEN Calls(n) \cup UNION {Extracted[Kids(n)[i]] : i \in DOMAIN Kids(n) \ {1}}
  ELSE (IF Kind(n) = "DeclRefExpr" THEN {<<"refs", dump.ref[n]>>} ELSE {})
       \cup UNION {Extracted[Kids(n)[i]] : i \in DOMAIN Kids(n)}

\* Mutated form: child statements are searched too.
EdgesOfAll(n) == UNION {Extracted[Kids(n)[i]] : i \in DOMAIN Kids(n)}

Edges(n) ==
  UNION {Extracted[Kids(n)[i]] : i \in {j \in DOMAIN Kids(n) : Kind(Kids(n)[j]) \notin StmtKinds}}

\* _ref_iri, which is always called without a referencedDecl.
RefIri(id) == IF iris[id] # NoIri THEN iris[id] ELSE Unknown(id)

EmitStmt ==
  /\ Visiting("statement") /\ Kind(Node) \in StmtKinds
  /\ LET iri == SpanIri(Node)
     IN /\ graph' = graph \cup Written(iri, Node) \cup {<<Top.parent, "hasChild", iri>>}
                     \cup {<<iri, e[1], RefIri(e[2])>> : e \in Edges(Node)}
        /\ Then(Items("statement", iri, Kids(Node)))
  /\ CountSpan(Node)
  /\ UNCHANGED <<dump, iris>>

\* Mutated form: what is below an expression is not visited.
DescendNot ==
  /\ Visiting("statement") /\ Kind(Node) \notin StmtKinds
  /\ Then(<<>>)
  /\ UNCHANGED <<dump, graph, iris, counter>>

\* Not a statement: one may be buried in it.
Descend ==
  /\ Visiting("statement") /\ Kind(Node) \notin StmtKinds
  /\ Then(Items("statement", Top.parent, Kids(Node)))
  /\ UNCHANGED <<dump, graph, iris, counter>>

\* The visits below a body recurse, those of what they extract too, and Python ends
\* a recursion that is too deep for it; how deep that is, is left out.
TooDeep ==
  /\ Visiting("statement")
  /\ raised' = TRUE
  /\ UNCHANGED <<dump, stack, graph, iris, counter>>

Done == (raised \/ stack = <<>>) /\ UNCHANGED vars
\* convert returns, and main writes the graph.
Finished == stack = <<>> /\ ~raised

Next ==
  \/ SkipDecl \/ EmitDecl
  \/ EmitParam \/ EmitBody \/ SkipChild
  \/ EmitStmt \/ Descend \/ TooDeep \/ Done
Spec == Init /\ [][Next]_vars
-----------------------------------------------------------------------------
EdgeNames == {"declaredIn", "hasParameter", "hasBody", "hasChild", "calls", "refs"}
Roles == {"convert", "function", "statement"}

TypeOK ==
  /\ \A i \in DOMAIN stack :
       stack[i].node \in Id /\ stack[i].role \in Roles /\ stack[i].index \in Nat
  /\ \A t \in graph : Len(t) = 3
  /\ DOMAIN iris = Id /\ \A id \in Id : iris[id] = NoIri \/ iris[id][1] \in {"decl", "param"}
  /\ counter \in Nat /\ raised \in BOOLEAN

\* Every edge joins two nodes of the graph that have a class: what a query over
\* the ontology's classes can reach.  Only the target of a reference may have none,
\* when its id was never recorded.
HasClass(iri) == \E class \in Kinds \cup {"TranslationUnitDecl"} : <<iri, "a", class>> \in graph
GraphIsClosed ==
  \A t \in graph : t[2] \in EdgeNames =>
    /\ HasClass(t[1])
    /\ HasClass(t[3]) \/ (t[2] \in {"refs", "calls"} /\ \E id \in Id : t[3] = Unknown(id))

\* A reference to a declaration that is a node of the graph uses its IRI: the id
\* is recorded before the first reference to it is resolved, a recursive call's too.
KnownIdsResolve ==
  \A t, u \in graph :
    t[2] = "clangNodeId" /\ u[2] \in {"refs", "calls"} => u[3] # Unknown(t[3])

\* No two nodes of the dump share a statement's IRI, though clang leaves out the
\* line of a node that follows another on the same line.
OneNodePerIri ==
  \A t, u \in graph :
    t[2] = "clangNodeId" /\ u[2] = "clangNodeId" /\ t[1] = u[1] /\ Kind(t[3]) \in StmtKinds => t = u
-----------------------------------------------------------------------------
(***************************************************************************)
(* What the converter promises, said of the dump alone by the ancestors of *)
(* a node.                                                                 *)
(***************************************************************************)
Above(n) == {m \in Id : n \in Within(dump.kids)[m]}
Below(s) == {n \in Id \ {s} : s \in Above(n)}
Chain(s, n) == Above(n) \cap Below(s)
FirstChild(c) == \E n \in Id : Kids(n) # <<>> /\ Kids(n)[1] = c
CalleeOf(c, call) == Kind(call) = "CallExpr" /\ Kids(call) # <<>> /\ Kids(call)[1] = c

Bodies ==
  {n \in Id : /\ Kind(n) = "CompoundStmt"
              /\ \E i \in DOMAIN dump.tops :
                    LET f == dump.tops[i]
                    IN /\ ~Skipped(f) /\ Kind(f) = "FunctionDecl"
                       /\ \E j \in DOMAIN Kids(f) : Kids(f)[j] = n}
Stmts == {n \in Id : Kind(n) \in StmtKinds /\ \E b \in Bodies : n \in Below(b)}
Encloses(s, n) ==
  n \in Below(s) /\ \A c \in Chain(s, n) \ {n} : Kind(c) \notin StmtKinds

\* What a call calls, to the code: the reference at the end of the first children,
\* whatever these are.
Callee(call) ==
  {r \in Below(call) : Kind(r) = "DeclRefExpr" /\ \A c \in Chain(call, r) : FirstChild(c)}
\* What is attributed to s: not below a child statement, not below a callee.  What is
\* below a statement inside an expression is attributed to that one as well.
Searched(s) ==
  {n \in Below(s) :
     \A c \in Chain(s, n) :
       /\ ~(Kind(c) \in StmtKinds /\ \E i \in DOMAIN Kids(s) : Kids(s)[i] = c)
       /\ ~\E call \in Below(s) : CalleeOf(c, call)}

WrittenFor(iri, n) == <<iri, "clangNodeId", n>> \in graph

\* A statement hangs below the nearest statement that encloses it in the dump,
\* through any number of expressions, and below no other.
NestingIsTheDumps ==
  Finished =>
    \A s \in Stmts, p \in Stmts \cup Bodies :
      (\E t \in graph : t[2] = "hasChild" /\ WrittenFor(t[1], p) /\ WrittenFor(t[3], s))
        <=> Encloses(p, s)

\* No edge is lost, doubled or resolved too early: the edges of a statement are the
\* references and the callees of the expressions searched for it, by the IRIs that
\* the conversion ends with.  A callee is a call and not also a reference; the edges
\* of a child statement are its own.
EdgesAreExact ==
  Finished =>
    \A s \in Stmts :
      {<<t[2], t[3]>> : t \in {u \in graph : u[2] \in {"refs", "calls"} /\ WrittenFor(u[1], s)}}
        = {<<"refs", RefIri(dump.ref[r])>> : r \in {n \in Searched(s) : Kind(n) = "DeclRefExpr"}}
          \cup {<<"calls", RefIri(dump.ref[r])>> :
                 r \in UNION {Callee(k) : k \in {n \in Searched(s) : Kind(n) = "CallExpr"}}}

\* json_to_ttl.py:12-14: "the enclosing Stmt accumulates c:calls / c:refs edges
\* extracted from its expression subtree", the statement that is a function's body
\* like any other.
CallsAreAttributed ==
  Finished =>
    \A s \in Stmts \cup Bodies :
      \A k \in Searched(s) :
        Kind(k) = "CallExpr" /\ Encloses(s, k) /\ Callee(k) # {} =>
          \E t \in graph : t[2] = "calls" /\ WrittenFor(t[1], s)

\* "Unwrap ImplicitCastExpr / ParenExpr around a DeclRefExpr to find the referenced
\* decl id. Returns None if not resolvable" (_find_referenced_decl_id): what a
\* statement calls is named by a call below it, but for casts and parentheses, and
\* is not the object a called member is taken of.
Named(call) == {r \in Callee(call) : \A c \in Chain(call, r) \ {r} : Kind(c) = "cast"}
CallsAreOfTheNamed ==
  Finished =>
    \A s \in Stmts, t \in graph : t[2] = "calls" /\ WrittenFor(t[1], s) =>
      \E k \in Below(s) : Kind(k) = "CallExpr" /\ \E r \in Named(k) : t[3] = RefIri(dump.ref[r])
=============================================================================
