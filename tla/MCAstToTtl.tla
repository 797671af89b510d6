------------------------------ MODULE MCAstToTtl ------------------------------
(***************************************************************************)
(* Translation units of a function g, from a header or not, a function f   *)
(* with one parameter whose body is every tree of a statement and three    *)
(* more nodes, a second declaration of g, and an attribute of the first.   *)
(***************************************************************************)
EXTENDS AstToTtl

MCName == {"", "f", "g", "x"}
MCId == 1..10

\* 1, 9: g, 10 an attribute.  2: f, 3 its parameter, 4 its body, 5 to 8 below it.
Inner == 5..8
Trees == {p \in [Inner -> 4..7] : \A n \in Inner : p[n] < n}
ChildrenOf(p, n) == SelectSeq(<<5, 6, 7, 8>>, LAMBDA m : p[m] = n)

InnerKinds == {"IfStmt", "CallExpr", "DeclRefExpr", "other"}
Sensible(p, k) ==
  \A n \in Inner : /\ k[n] = "CallExpr" => \E m \in Inner : p[m] = n
                   /\ k[n] = "DeclRefExpr" => \A m \in Inner : p[m] # n
Bodied == {t \in Trees \X [Inner -> InnerKinds] : Sensible(t[1], t[2])}

\* What is referred to: g, f itself, or its parameter.
Refs(k) == {r \in [Inner -> 1..3] : \A n \in Inner : k[n] # "DeclRefExpr" => r[n] = 1}

\* The children of every node, of each tree.
KidsOf ==
  [p \in Trees |->
     [n \in MCId |-> CASE n = 1 -> <<10>> [] n = 2 -> <<3, 4>>
                       [] n \in 4..8 -> ChildrenOf(p, n) [] OTHER -> <<>>]]

\* Whether g is in the main file, and the statements clang reports a line of.
Lines == {<<TRUE, {}>>, <<FALSE, {4}>>, <<TRUE, 4..8>>}

MCDump(p, k, r, main, lines) ==
  [unit |-> TRUE, tops |-> <<1, 2, 9>>,
   kind |-> [n \in MCId |-> CASE n \in {1, 2, 9} -> "FunctionDecl" [] n = 3 -> "ParmVarDecl"
                              [] n = 4 -> "CompoundStmt" [] n = 10 -> "other" [] OTHER -> k[n]],
   kids |-> KidsOf[p],
   name |-> [n \in MCId |-> CASE n \in {1, 9} -> "g" [] n = 2 -> "f" [] n = 3 -> "x" [] OTHER -> ""],
   inMain |-> [n \in MCId |-> n # 1 \/ main],
   span |-> [n \in MCId |-> IF n \in lines THEN n ELSE 0],
   ref |-> [n \in MCId |-> IF n \in Inner THEN r[n] ELSE 1]]

\* return (g)(), return (f)(), return (x)(), and return x->run().
CalleeDumps ==
  {MCDump([n \in Inner |-> n - 1],
          [n \in Inner |-> <<"ReturnStmt", "CallExpr", callee[1], "DeclRefExpr">>[n - 4]],
          [n \in Inner |-> callee[2]], TRUE, 4..8) :
     callee \in {<<"cast", 1>>, <<"cast", 2>>, <<"cast", 3>>, <<"other", 3>>}}
\* A dump of something else than a translation unit.
Refused == {[d EXCEPT !.unit = FALSE] : d \in CalleeDumps}

MCDumps ==
  {MCDump(t[1][1], t[1][2], t[2], t[3][1], t[3][2]) :
     t \in UNION {{b} \X Refs(b[2]) \X Lines : b \in Bodied}}
  \cup CalleeDumps \cup Refused
=============================================================================
