---------------------------- MODULE MCAstTensor -----------------------------
(***************************************************************************)
(* Manifests for AstTensor: every tree of five nodes and every choice of   *)
(* the nodes that survive the filter, before a second dump of the same or  *)
(* another source, which may be no AST or no file to walk; one that cannot *)
(* be read comes before the tree, so that the walk goes on.                *)
(***************************************************************************)
EXTENDS AstTensor

\* The parent of nodes 2 to 5; junk: an entry of "inner" that is no object.
Shapes == {<<0, 1, a, b, c>> : a \in 1..2, b \in 1..3, c \in 1..4}
InnerOf(up, junk) ==
  [n \in 1..5 |-> (IF n = junk THEN <<0>> ELSE <<>>) \o
                  SelectSeq(<<2, 3, 4, 5>>, LAMBDA c : up[c] = n)]
TreeOf(up, junk, main) ==
  [inner |-> InnerOf(up, junk), main |-> main,
   kind |-> <<"TranslationUnitDecl", "FunctionDecl", "<unknown>", "VarDecl", "FunctionDecl">>,
   name |-> <<"", "f", "", "g", "">>, ref |-> <<"", "", "g", "f", "h">>]
DumpOf(source, tree) ==
  [source |-> source, hasAst |-> TRUE, file |-> "object", tree |-> tree]

Firsts == {DumpOf("a.c", TreeOf(up, 1, main)) : up \in Shapes, main \in SUBSET (1..5)}
Plain == DumpOf("b.c", TreeOf(<<0, 1, 2, 2, 1>>, 2, 1..5))
Seconds ==
  {Plain, [Plain EXCEPT !.source = "a.c"], [Plain EXCEPT !.hasAst = FALSE],
   [Plain EXCEPT !.tree.kind[4] = "EnumDecl"]} \cup
  {[Plain EXCEPT !.file = f] : f \in Files \ {"object"}}
Pairs == {IF e.file = "unreadable" THEN <<e, d>> ELSE <<d, e>> :
            d \in Firsts, e \in Seconds}
=============================================================================
