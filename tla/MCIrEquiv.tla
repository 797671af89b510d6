------------------------------ MODULE MCIrEquiv -------------------------------
(* Small pairs of IR files for IrEquiv. *)
EXTENDS IrEquiv

Symbols == {"f", "g", "pg_f"}
Words == {"i32", "{", "i64,", "i8,", "i1", "}", "ptr", "%struct.A", "%struct.B",
          "", "noundef", "nofpclass"}
Known == {"", "noundef", "%struct.A", "%struct.B"}

L(is) == [is |-> is, symbol |-> "f", ret |-> <<>>, args |-> <<>>]
Define(name, ret, args) == [is |-> "define", symbol |-> name, ret |-> ret, args |-> args]
Fn(name, ret, args, body) == <<Define(name, ret, args)>> \o body \o <<L("close")>>

\* Nothing; an unlabelled entry; a labelled one with comments; three blocks; one
\* long block.
Bodies == {<<>>,
           <<L("text")>>,
           <<L("label"), L("blank"), L("text")>>,
           <<L("text"), L("label"), L("text"), L("label"), L("text")>>,
           <<L("text"), L("text"), L("text"), L("text")>>}
Rets == {<<"i32">>, <<"{", "i64,", "i1", "}">>, <<"{", "i8,", "i1", "}">>, <<"%struct.A">>}
Args == {<<>>, <<<<"ptr", "noundef">>>>, <<<<"ptr", "">>, <<"i32", "nofpclass">>>>,
         <<<<"%struct.A", "">>>>, <<<<"%struct.B", "noundef">>>>}

\* Declarations and attributes stand between the functions.
CFile(ret, args, body) ==
  <<L("text")>> \o Fn("f", ret, args, body) \o Fn("g", <<"i32">>, <<>>, <<L("text")>>)
\* A Rust file with two functions, under any two names.
RustFile(one, two, ret, args, body) ==
  Fn(one, ret, args, body) \o <<L("blank")>> \o Fn(two, <<"i32">>, <<>>, <<L("label"), L("text")>>)
Pairs == [rust : Symbols, c : Symbols, wellFormed : {TRUE}]
SomePairs == {<<>>} \cup {<<p>> : p \in Pairs} \cup {<<p, q>> : p, q \in {r \in Pairs : r.rust # r.c}}
BadPair == [rust |-> "g", c |-> "f", wellFormed |-> FALSE]

\* Every comparison of one function with one, the names being in place: of their
\* signatures, and of their sizes.
Pitted(r, a, b, rr, ra, rb) ==
  [c |-> CFile(r, a, b), rust |-> RustFile("f", "g", rr, ra, rb),
   renames |-> <<>>, symbols |-> <<"f", "g">>]
Compared ==
  {Pitted(r, a, <<L("text")>>, rr, ra, <<L("text")>>) : r, rr \in Rets, a, ra \in Args}
    \cup {Pitted(<<"i32">>, <<>>, b, rr, <<>>, rb) : rr \in Rets, b, rb \in Bodies}
\* Every way to rename two functions by up to two pairs, and to ask for two.
Renamed ==
  {[c |-> CFile(<<"i32">>, <<>>, b), rust |-> RustFile(n[1], n[2], <<"i32">>, <<>>, <<L("text")>>),
    renames |-> ps, symbols |-> ss] :
     b \in {<<L("text")>>, <<L("text"), L("text"), L("text")>>},
     n \in {m \in Symbols \X Symbols : m[1] # m[2]},
     ps \in SomePairs \cup {<<BadPair>>}, ss \in {<<"f">>, <<"g", "f">>, <<"pg_f", "f">>}}
\* The Rust file ends inside the function "g", or the C file has "f" twice.
Plain == [c |-> CFile(<<"i32">>, <<>>, <<L("text")>>),
          rust |-> RustFile("f", "g", <<"i32">>, <<>>, <<L("text")>>), renames |-> <<>>, symbols |-> <<"f">>]
Cut == {[Plain EXCEPT !.rust = SubSeq(@, 1, Len(@) - 1), !.symbols = ss] : ss \in {<<"f">>, <<"f", "g">>}}
Repeated == {[Plain EXCEPT !.c = @ \o Fn("f", <<"i32">>, a, <<L("text")>>)] : a \in Args}
AllInputs == Compared \cup Renamed \cup Cut \cup Repeated
=============================================================================
