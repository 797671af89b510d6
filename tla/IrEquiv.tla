------------------------------- MODULE IrEquiv --------------------------------
(***************************************************************************)
(* rules/c/cli/llvm_ir_equiv.py: two LLVM IR files read line by line into  *)
(* maps of functions, the Rust map renamed pair by pair, and one report    *)
(* per symbol asked for.                                                   *)
(*                                                                         *)
(* A line is what the parser tells apart: "define" (with the symbol, the   *)
(* tokens of its return type and its arguments), "close" (a leading "}"),  *)
(* "label" (ends in ":" before any comment), "blank" (nothing but a        *)
(* comment) or "text".  An argument is its type and what stands beside it, *)
(* an attribute or the name of the value.                                  *)
(***************************************************************************)
EXTENDS Integers, Sequences, FiniteSets

CONSTANTS
  Symbol,      \* the names of functions
  Word,        \* what signatures are written in
  Removed,     \* the words _normalize_type removes: the attributes it knows, and
               \* whatever has a %: the names of values, and those of types
  Inputs,      \* the invocations, see Invocation
  BlockTol,    \* --bb-tolerance
  InstrTol     \* --instruction-tolerance

ASSUME IrAssumption ==
  /\ "" \in Removed /\ Removed \subseteq Word   \* "" is no word at all
  /\ BlockTol \in Nat /\ InstrTol \in Nat

Sides == {"c", "rust"}
Argument == Word \X Word
Line == [is : {"define", "close", "label", "blank", "text"},
         symbol : Symbol, ret : Seq(Word), args : Seq(Argument)]
\* A pair without "=" is not well-formed.
Pair == [rust : Symbol, c : Symbol, wellFormed : BOOLEAN]
Invocation == [c : Seq(Line), rust : Seq(Line), renames : Seq(Pair), symbols : Seq(Symbol)]

\* A function has a return type.
ASSUME InputsAssumption ==
  \A i \in Inputs :
    /\ i \in Invocation
    /\ \A side \in Sides : \A n \in DOMAIN i[side] :
         i[side][n].is = "define" => i[side][n].ret # <<>>

\* at stands for raw_signature: the line that defines the function.
FnInfo == [at : Nat \ {0}, ret : Word, args : Seq(Argument), blocks : Nat, instrs : Nat]
NoFn == [at |-> 0, ret |-> "", args |-> <<>>, blocks |-> 0, instrs |-> 0]   \* None

VARIABLES
  input,    \* the command line and the two files it names
  phase,    \* "c" and "rust": a file is read; then "rename", "compare", "done"
  pos,      \* the next line, pair or symbol
  current,  \* the function being read, or NoFn
  fns,      \* fns[side][name]: the function found under that name, or NoFn
  failing,  \* the symbols whose report has an issue
  status    \* the exit status, or -1 before the exit

vars == <<input, phase, pos, current, fns, failing, status>>
-----------------------------------------------------------------------------
Init ==
  /\ input \in Inputs
  /\ phase = "c" /\ pos = 1 /\ current = NoFn
  /\ fns = [side \in Sides |-> [name \in Symbol |-> NoFn]]
  /\ failing = {} /\ status = -1

Reading == phase \in Sides /\ pos <= Len(input[phase])
Here == input[phase][pos]

\* _normalize_type, which keeps an attribute it does not know, and nothing of a
\* type that has a name.
Erased(word) == IF word \in Removed THEN "" ELSE word
Normal(arg) == <<Erased(arg[1]), Erased(arg[2])>>
\* _DEFINE_PREFIX_RE captures one word before the symbol: the last of the type.
Captured(ret) == Erased(ret[Len(ret)])

\* Mutated form: an entry block is counted when its label is seen.
OpenUncounted ==
  /\ Reading /\ current = NoFn /\ Here.is = "define"
  /\ current' = [at |-> pos, ret |-> Captured(Here.ret),
                 args |-> [i \in DOMAIN Here.args |-> Normal(Here.args[i])],
                 blocks |-> 0, instrs |-> 0]
  /\ pos' = pos + 1
  /\ UNCHANGED <<input, phase, fns, failing, status>>

Open ==
  /\ Reading /\ current = NoFn /\ Here.is = "define"
  /\ current' = [at |-> pos, ret |-> Captured(Here.ret),
                 args |-> [i \in DOMAIN Here.args |-> Normal(Here.args[i])],
                 blocks |-> 1, instrs |-> 0]
  /\ pos' = pos + 1
  /\ UNCHANGED <<input, phase, fns, failing, status>>

SkipOutside ==
  /\ Reading /\ current = NoFn /\ Here.is # "define"
  /\ pos' = pos + 1
  /\ UNCHANGED <<input, phase, current, fns, failing, status>>

Close ==
  /\ Reading /\ current # NoFn /\ Here.is = "close"
  /\ fns' = [fns EXCEPT ![phase][input[phase][current.at].symbol] = current]
  /\ current' = NoFn
  /\ pos' = pos + 1
  /\ UNCHANGED <<input, phase, failing, status>>

\* Every line of a body that is neither blank nor a label is an instruction.
Count ==
  /\ Reading /\ current # NoFn /\ Here.is # "close"
  /\ current' = CASE Here.is = "blank" -> current
                  [] Here.is = "label" -> [current EXCEPT !.blocks = @ + 1]
                  [] OTHER             -> [current EXCEPT !.instrs = @ + 1]
  /\ pos' = pos + 1
  /\ UNCHANGED <<input, phase, fns, failing, status>>

\* A function that is not closed is dropped.
EndOfFile ==
  /\ phase \in Sides /\ pos > Len(input[phase])
  /\ phase' = IF phase = "c" THEN "rust" ELSE "rename"
  /\ pos' = 1 /\ current' = NoFn
  /\ UNCHANGED <<input, fns, failing, status>>
-----------------------------------------------------------------------------
Renaming == phase = "rename" /\ pos <= Len(input.renames)
Asked == input.renames[pos]

\* Mutated form: the Rust function stays under its own name too.
RenameAliasing ==
  /\ Renaming /\ Asked.wellFormed
  /\ fns' = IF fns["rust"][Asked.rust] = NoFn THEN fns
            ELSE [fns EXCEPT !["rust"][Asked.c] = fns["rust"][Asked.rust]]
  /\ pos' = pos + 1
  /\ UNCHANGED <<input, phase, current, failing, status>>

\* rust_fns[c_name] = rust_fns.pop(rust_name), if there is such a function.
Rename ==
  /\ Renaming /\ Asked.wellFormed
  /\ fns' = IF fns["rust"][Asked.rust] = NoFn THEN fns
            ELSE [fns EXCEPT !["rust"] =
                   [name \in Symbol |-> IF name = Asked.c THEN fns["rust"][Asked.rust]
                                        ELSE IF name = Asked.rust THEN NoFn
                                        ELSE fns["rust"][name]]]
  /\ pos' = pos + 1
  /\ UNCHANGED <<input, phase, current, failing, status>>

RenameMalformed ==
  /\ Renaming /\ ~Asked.wellFormed
  /\ phase' = "done" /\ status' = 1
  /\ UNCHANGED <<input, pos, current, fns, failing>>

EndOfRenames ==
  /\ phase = "rename" /\ pos > Len(input.renames)
  /\ phase' = "compare" /\ pos' = 1
  /\ UNCHANGED <<input, current, fns, failing, status>>

\* Mutated form: only a Rust side that is the larger one is out of envelope.
WithinAbove(a, b, tol) == (a = 0 <=> b = 0) /\ b <= tol * a

\* within_envelope; the division of the code, multiplied out.
Within(a, b, tol) == (a = 0 <=> b = 0) /\ b <= tol * a /\ a <= tol * b

SameSignature(f, g) == f.args = g.args /\ f.ret = g.ret

\* compare_symbol finds no issue.
Passing(symbol) ==
  LET f == fns["c"][symbol]
      g == fns["rust"][symbol]
  IN /\ f # NoFn /\ g # NoFn
     /\ SameSignature(f, g)
     /\ Within(f.blocks, g.blocks, BlockTol)
     /\ Within(f.instrs, g.instrs, InstrTol)

\* Mutated form: the status is that of the symbol compared last.
CompareLast ==
  /\ phase = "compare" /\ pos <= Len(input.symbols)
  /\ failing' = IF Passing(input.symbols[pos]) THEN {} ELSE {input.symbols[pos]}
  /\ pos' = pos + 1
  /\ UNCHANGED <<input, phase, current, fns, status>>

Compare ==
  /\ phase = "compare" /\ pos <= Len(input.symbols)
  /\ failing' = IF Passing(input.symbols[pos]) THEN failing
                ELSE failing \cup {input.symbols[pos]}
  /\ pos' = pos + 1
  /\ UNCHANGED <<input, phase, current, fns, status>>

\* Mutated form: the exit status is the number of failures.
VerdictCounting ==
  /\ phase = "compare" /\ pos > Len(input.symbols)
  /\ phase' = "done"
  /\ status' = Cardinality(failing)
  /\ UNCHANGED <<input, pos, current, fns, failing>>

Verdict ==
  /\ phase = "compare" /\ pos > Len(input.symbols)
  /\ phase' = "done"
  /\ status' = IF failing = {} THEN 0 ELSE 1
  /\ UNCHANGED <<input, pos, current, fns, failing>>

Ended == phase = "done" /\ UNCHANGED vars

Next ==
  \/ Open \/ SkipOutside \/ Close \/ Count \/ EndOfFile
  \/ Rename \/ RenameMalformed \/ EndOfRenames
  \/ Compare \/ Verdict \/ Ended
Spec == Init /\ [][Next]_vars
-----------------------------------------------------------------------------
TypeOK ==
  /\ input \in Inputs
  /\ phase \in Sides \cup {"rename", "compare", "done"}
  /\ pos \in Nat \ {0}
  /\ current \in FnInfo \cup {NoFn}
  /\ fns \in [Sides -> [Symbol -> FnInfo \cup {NoFn}]]
  /\ failing \subseteq Symbol
  /\ status \in {-1, 0, 1}

(* What the files say, read without the parser. *)

\* The lines of the function defined at line at: up to the first "}".
Body(side, at) ==
  {i \in (at + 1)..Len(input[side]) : \A j \in (at + 1)..i : input[side][j].is # "close"}
Labels(side, at) == {i \in Body(side, at) : input[side][i].is = "label"}
Texts(side, at) == {i \in Body(side, at) : input[side][i].is \in {"text", "define"}}

\* Whatever the files hold, the sizes of a function are those of its own lines:
\* nothing of the lines before it, of its comments or of the function after it
\* is counted, and a rename moves the sizes with the function.
SizesAreOfTheBody ==
  \A side \in Sides, name \in Symbol :
    fns[side][name] # NoFn =>
      LET f == fns[side][name]
      IN /\ f.blocks = 1 + Cardinality(Labels(side, f.at))
         /\ f.instrs = Cardinality(Texts(side, f.at))

\* No Rust function answers for two symbols: however the renames chain, each
\* function read from a file is found under at most one name.
NotSharedBySymbols ==
  \A side \in Sides, m, n \in Symbol :
    m # n /\ fns[side][m] # NoFn => fns[side][m].at # fns[side][n].at

(* The verdict by reference: which function of a file a symbol stands for,    *)
(* when the renames do not touch one another, and whether the two agree.      *)

Closed(side, i, n) == \E k \in (i + 1)..n : input[side][k].is = "close"
\* No function that starts before line i is still open there.
Outside(side, i) == \A j \in 1..(i - 1) : input[side][j].is = "define" => Closed(side, j, i - 1)
IsFunction(side, i) ==
  /\ i \in DOMAIN input[side] /\ input[side][i].is = "define"
  /\ Outside(side, i) /\ Closed(side, i, Len(input[side]))
Functions(side, name) == {i \in DOMAIN input[side] : IsFunction(side, i) /\ input[side][i].symbol = name}
\* The function of that name, if there is one; of several, the last.
Defined(side, name) == {i \in Functions(side, name) : \A j \in Functions(side, name) : j <= i}
Renames == {input.renames[i] : i \in DOMAIN input.renames}
Apart ==
  \A i, j \in DOMAIN input.renames : i # j =>
    {input.renames[i].rust, input.renames[i].c} \cap {input.renames[j].rust, input.renames[j].c} = {}
Effective == {p \in Renames : Defined("rust", p.rust) # {}}
Stands(symbol) ==
  LET from == {p \in Effective : p.c = symbol}
      away == {p \in Effective : p.rust = symbol /\ p.c # symbol}
  IN IF from # {} THEN UNION {Defined("rust", p.rust) : p \in from}
     ELSE IF away # {} THEN {} ELSE Defined("rust", symbol)

\* Neither size is more than tol times the other.
Comparable(sizes, tol) == \A x, y \in sizes : x <= tol * y

\* One word, or two that do not count: no difference is seen between the types
\* %struct.A and %struct.B.
Alike(v, w) == v = w \/ {v, w} \subseteq Removed

\* As many arguments, of types alike, a return type that ends alike, sizes in the
\* envelope.
Agree(i, j) ==
  LET f == input["c"][i]
      g == input["rust"][j]
  IN /\ Len(f.args) = Len(g.args)
     /\ \A a \in DOMAIN f.args, n \in 1..2 : Alike(f.args[a][n], g.args[a][n])
     /\ Alike(f.ret[Len(f.ret)], g.ret[Len(g.ret)])
     /\ Comparable({1 + Cardinality(Labels("c", i)), 1 + Cardinality(Labels("rust", j))}, BlockTol)
     /\ Comparable({Cardinality(Texts("c", i)), Cardinality(Texts("rust", j))}, InstrTol)

\* However the renames chain or collide, an exit status of 0 is backed by the text
\* of the files for every symbol asked for, not just the last one: the C file
\* defines it, a function of the Rust file answers for it, and the two definitions,
\* read from their own lines, agree, but for the names of types, which the tool
\* does not compare.
PassesOnlyTheAlike ==
  status = 0 =>
    \A k \in DOMAIN input.symbols :
      LET s == input.symbols[k]
          i == fns["c"][s].at
          j == fns["rust"][s].at
      IN i \in Defined("c", s) /\ IsFunction("rust", j) /\ Agree(i, j)

\* The gate says of the two files what they say themselves: with renames that do
\* not touch one another, the exit status is 0 exactly when every symbol asked
\* for has, in both files, a definition, and the definitions agree, but for the
\* names of types.
VerdictIsExact ==
  status # -1 /\ Apart =>
    (status = 0 <=>
       /\ \A p \in Renames : p.wellFormed
       /\ \A k \in DOMAIN input.symbols :
            LET s == input.symbols[k]
            IN /\ Defined("c", s) # {} /\ Stands(s) # {}
               /\ \A i \in Defined("c", s), j \in Stands(s) : Agree(i, j))

\* "function exists in both, with the same argument count and (normalized)
\* argument/return types" (module docstring, Tier 1): a symbol that passes has
\* one return type, not just one last word of it.
ReturnTypesAgree ==
  status = 0 =>
    \A k \in DOMAIN input.symbols :
      LET s == input.symbols[k]
      IN input["c"][fns["c"][s].at].ret = input["rust"][fns["rust"][s].at].ret
=============================================================================
