------------------------- MODULE MCBindingsPipeline -------------------------
(***************************************************************************)
(* Pairs of small functions with the overrides of a cluster, and C         *)
(* bindings handed to the policy directly.                                 *)
(*                                                                         *)
(* In a corpus nodes 1-4 and 5-8 are the two functions, each with three    *)
(* nodes below it in one of two shapes; the names of the last two range    *)
(* over nothing, a, b and c, their kinds over two.                         *)
(***************************************************************************)
EXTENDS BindingsPipeline, TLC

Shifted(kids) == [n \in 1..4 |-> [i \in DOMAIN kids[n] |-> kids[n][i] + 4]]

\* A node of the third position may be a parameter without a name.
Kinds == {"ParmVarDecl", "CallExpr"}
NodeIdents == {"", "a", "b"}
\* A function of four nodes: its shape and what varies in nodes 3 and 4.
Functions == [kids : {<<<<2, 3>>, <<4>>, <<>>, <<>>>>, <<<<2>>, <<3, 4>>, <<>>, <<>>>>},
              kind : Kinds, third : NodeIdents,
              fourth : {"a", "b", "c"}]
KindsOf(f) ==
  <<"FunctionDecl", "CompoundStmt", f.kind, IF f.third = "" THEN "CallExpr" ELSE "DeclRefExpr">>
IdentsOf(name, f) == <<name, "", f.third, f.fourth>>
TypesOf(f) == <<"int ()", "", "int", IF f.third = f.fourth THEN "long" ELSE "int">>

CorpusOf(f, g) ==
  [kind |-> KindsOf(f) \o KindsOf(g),
   name |-> [ident |-> IdentsOf("sha256_init", f) \o IdentsOf("sha384_init", g),
             type |-> TypesOf(f) \o TypesOf(g)],
   kids |-> f.kids \o Shifted(g.kids)]
TwoFunctions == {CorpusOf(f, g) : f, g \in Functions}

\* One of the functions is absent.
OneFunction ==
  {[k EXCEPT !.kind[5] = "VarDecl"] : k \in {CorpusOf(f, f) : f \in Functions}}
AllCorpora == TwoFunctions \cup OneFunction

-----------------------------------------------------------------------------
\* hash_init, which becomes HASH_INIT; HASH_INIT itself; a Postgres function.
Idents == {<<"lower_snake", "hash_init">>, <<"UPPER_SNAKE", "hash_init">>, <<"pg_lower", "pg_sha">>}
\* uint8 and char both become u8, pg_sha_ctx and pg__sha_ctx both ShaCtx.
Bases == {<<"prim", "uint8">>, <<"prim", "char">>, <<"pg", "sha_ctx">>, <<"pg", "_sha_ctx">>, NoType}
PrimitiveRenames == [uint8 |-> <<"other", "u8">>, char |-> <<"other", "u8">>,
                     uint32 |-> <<"other", "u32">>]
PascalNames == [w \in {"sha_ctx", "_sha_ctx"} |-> <<"other", "ShaCtx">>]

UpTo2(S) == {<<>>} \cup {<<a>> : a \in S} \cup {<<a, b>> : a, b \in S}
UpTo1(S) == {<<>>} \cup {<<a>> : a \in S}
IdentPairs == Idents \X Idents
Plain(b) == [base |-> b, deco |-> "", fn |-> FALSE]
Types == {Plain(b) : b \in Bases}
         \cup {[Plain(<<"prim", "uint8">>) EXCEPT !.deco = "*"],
               [Plain(<<"prim", "uint32">>) EXCEPT !.fn = TRUE]}

NoLoose == [canonical |-> <<>>, sibling |-> <<>>]
NoC == [idents |-> <<>>, types |-> <<>>, looseIdents |-> NoLoose, looseTypes |-> NoLoose]
NoO == [types |-> <<>>, idents |-> <<>>, pairs |-> <<>>, typePairs |-> <<>>, extra |-> <<>>]

\* Paired names, with an override that sends one of them elsewhere.
ByName ==
  {<<[NoC EXCEPT !.idents = ps],
     [NoO EXCEPT !.idents = ov, !.extra = ex]>> :
     ps \in UpTo2(IdentPairs),
     ov \in {<<>>, <<"lower_snake", "hash_init">> :> <<"other", "h0">>},
     ex \in UpTo1({<<<<"UPPER_SNAKE", "hash_init">>, <<"other", "h1">>>>})}
ByType ==
  {<<[NoC EXCEPT !.types = ps],
     [NoO EXCEPT !.types = ov]>> :
     ps \in UpTo2(Types \X Types),
     ov \in {<<>>, <<"prim", "char">> :> <<"other", "i8">>}}
\* A type of the name HASH_INIT stays, and an identifier becomes that.
Meeting ==
  {<<[NoC EXCEPT !.idents = <<p>>, !.types = <<<<Plain(<<"UPPER_SNAKE", "hash_init">>), q>>>>], NoO>> :
     p \in IdentPairs, q \in Types \cup {Plain(<<"UPPER_SNAKE", "hash_init">>)}}
\* Names in holes, and pairs for them; the second sibling name is not listed.
Holes ==
  {<<[NoC EXCEPT !.idents = ps,
        !.looseIdents = [canonical |-> <<<<"lower_snake", "hash_init">>, <<"pg_lower", "pg_sha">>>>,
                         sibling |-> <<<<"pg_lower", "pg_sha">>>>],
        !.looseTypes = [canonical |-> <<Plain(<<"prim", "char">>)>>,
                        sibling |-> <<[Plain(<<"pg", "sha_ctx">>) EXCEPT !.fn = TRUE]>>]],
     [NoO EXCEPT !.pairs = pairs, !.typePairs = typePairs]>> :
     ps \in UpTo1(IdentPairs), pairs \in UpTo2(IdentPairs),
     typePairs \in UpTo1({Plain(<<"prim", "char">>), Plain(NoType)}
                         \X {[Plain(<<"pg", "sha_ctx">>) EXCEPT !.fn = TRUE]})}
MCInputs == ByName \cup ByType \cup Meeting \cup Holes
-----------------------------------------------------------------------------
\* a is hash_init, b pg_sha and c HASH_INIT, which the policy makes of a too, an
\* override of b, and the type long becomes if no override has it.
MCIdentOf ==
  [a |-> <<"lower_snake", "hash_init">>, b |-> <<"pg_lower", "pg_sha">>,
   c |-> <<"UPPER_SNAKE", "hash_init">>,
   sha256_init |-> <<"lower_snake", "sha256_init">>, sha384_init |-> <<"lower_snake", "sha384_init">>]
MCTypeOf ==
  [int |-> Plain(<<"prim", "uint8">>), long |-> Plain(<<"UPPER_SNAKE", "hash_init">>)]
    @@ ("int ()" :> [Plain(<<"prim", "uint8">>) EXCEPT !.fn = TRUE])
A == MCIdentOf["a"]
B == MCIdentOf["b"]
MCOverrides ==
  {[NoO EXCEPT !.types = ty, !.idents = id, !.pairs = ps] :
     ty \in {<<>>, <<"UPPER_SNAKE", "hash_init">> :> <<"other", "i8">>},
     id \in {<<>>, B :> <<"UPPER_SNAKE", "hash_init">>},
     ps \in {<<>>, <<<<A, B>>>>, <<<<B, A>>>>}}
  \cup {[NoO EXCEPT !.typePairs = <<<<MCTypeOf["int"], MCTypeOf["long"]>>>>, !.extra = ex] :
          ex \in {<<>>, <<<<<<"UPPER_SNAKE", "hash_init">>, <<"other", "h1">>>>>>}}
=============================================================================
