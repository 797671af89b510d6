---------------------------- MODULE IrEquivProofs -----------------------------
(***************************************************************************)
(* What holds of IrEquiv for every pair of files and every list of renames *)
(* and symbols.                                                            *)
(***************************************************************************)
EXTENDS IrEquiv, FiniteSetTheorems, TLAPS

(* The lines between two others, and those of one sort among them. *)
Between(at, p) == (at + 1)..(p - 1)
Sort(side, S, at, p) == {i \in Between(at, p) : input[side][i].is \in S}

\* The function being read lies between its first line and pos, and its
\* counters are those of the lines read so far.
Reads ==
  current # NoFn =>
    /\ phase \in Sides
    /\ current.at < pos
    /\ current.at \in DOMAIN input[phase]
    /\ input[phase][current.at].is = "define"
    /\ \A j \in Between(current.at, pos) : input[phase][j].is # "close"
    /\ current.blocks = 1 + Cardinality(Sort(phase, {"label"}, current.at, pos))
    /\ current.instrs = Cardinality(Sort(phase, {"text", "define"}, current.at, pos))

\* The reader is in its file.
InFile == phase \in Sides => pos <= Len(input[phase]) + 1

\* Functions found in a file lie before what is being read of it.
Order ==
  /\ phase = "c" => \A name \in Symbol : fns["rust"][name] = NoFn
  /\ phase \in Sides =>
       \A name \in Symbol :
         fns[phase][name] # NoFn =>
           /\ fns[phase][name].at < pos
           /\ current # NoFn => fns[phase][name].at < current.at

IInv == TypeOK /\ Reads /\ InFile /\ Order /\ SizesAreOfTheBody /\ NotSharedBySymbols
-----------------------------------------------------------------------------
LEMMA InputType ==
  ASSUME NEW i \in Inputs
  PROVE  /\ i \in Invocation
         /\ i["c"] = i.c /\ i["rust"] = i.rust
         /\ \A side \in Sides :
              /\ i[side] \in Seq(Line)
              /\ \A n \in DOMAIN i[side] :
                   i[side][n].is = "define" => i[side][n].ret # <<>>
<1>1. i \in Invocation BY InputsAssumption
<1>2. \A side \in Sides : \A n \in DOMAIN i[side] :
        i[side][n].is = "define" => i[side][n].ret # <<>>
  BY InputsAssumption
<1>3. i.c \in Seq(Line) /\ i.rust \in Seq(Line) BY <1>1 DEF Invocation
<1>4. \A side \in Sides : i[side] \in Seq(Line) BY <1>3 DEF Sides
<1> QED BY <1>1, <1>2, <1>4

\* Erasing keeps what two words are alike in.
LEMMA ErasedIs ==
  ASSUME NEW v \in Word, NEW w \in Word
  PROVE  Erased(v) \in Word /\ (Erased(v) = Erased(w) <=> Alike(v, w))
<1>1. "" \in Removed /\ "" \in Word BY IrAssumption
<1> QED BY <1>1 DEF Erased, Alike

\* A function just opened has the type of one.
LEMMA OpenType ==
  ASSUME TypeOK, Open
  PROVE  current' \in FnInfo
<1>1. input \in Inputs /\ phase \in Sides /\ pos \in Nat \ {0} /\ pos <= Len(input[phase])
  BY DEF TypeOK, Open, Reading
<1>2. input[phase] \in Seq(Line) BY <1>1, InputType
<1>3. Here \in Line BY <1>1, <1>2 DEF Here
<1>4. Here.is = "define" BY DEF Open
<1>5. Here.ret # <<>> BY <1>1, <1>2, <1>4, InputType DEF Here
<1>6. Here.ret \in Seq(Word) /\ Here.args \in Seq(Argument) BY <1>3 DEF Line
<1>7. Len(Here.ret) \in 1..Len(Here.ret) BY <1>5, <1>6
<1>8. Captured(Here.ret) \in Word
  <2>1. Here.ret[Len(Here.ret)] \in Word BY <1>6, <1>7
  <2> QED BY <2>1, ErasedIs DEF Captured
<1>9. [i \in DOMAIN Here.args |-> Normal(Here.args[i])] \in Seq(Argument)
  <2>1. ASSUME NEW i \in DOMAIN Here.args PROVE Normal(Here.args[i]) \in Argument
    <3>1. Here.args[i] \in Word \X Word BY <1>6, <2>1 DEF Argument
    <3>2. Erased(Here.args[i][1]) \in Word /\ Erased(Here.args[i][2]) \in Word
      BY <3>1, ErasedIs
    <3> QED BY <3>2 DEF Normal, Argument
  <2>2. DOMAIN Here.args = 1..Len(Here.args) /\ Len(Here.args) \in Nat BY <1>6
  <2> QED BY <2>1, <2>2
<1> QED BY <1>1, <1>8, <1>9 DEF Open, FnInfo

LEMMA NoFnAt == NoFn.at = 0
BY DEF NoFn

LEMMA NoFnOut == ASSUME NEW f \in FnInfo PROVE f # NoFn
<1>1. f.at # 0 BY DEF FnInfo
<1> QED BY <1>1, NoFnAt

LEMMA Counted ==
  ASSUME NEW f \in FnInfo
  PROVE  /\ [f EXCEPT !.blocks = @ + 1] \in FnInfo
         /\ [f EXCEPT !.instrs = @ + 1] \in FnInfo
<1>1. f.blocks + 1 \in Nat /\ f.instrs + 1 \in Nat BY DEF FnInfo
<1> QED BY <1>1 DEF FnInfo

\* The kind of state each step leaves.
LEMMA TypeStep == TypeOK /\ Reads /\ [Next]_vars => TypeOK'
<1> SUFFICES ASSUME TypeOK, Reads, [Next]_vars PROVE TypeOK'
  OBVIOUS
<1> USE DEF TypeOK
<1>1. CASE Open
  <2>1. current' \in FnInfo BY <1>1, OpenType
  <2> QED BY <1>1, <2>1 DEF Open
<1>2. CASE SkipOutside BY <1>2 DEF SkipOutside
<1>3. CASE Close
  <2>1. phase \in Sides /\ current \in FnInfo BY <1>3, NoFnOut DEF Close, Reading
  <2>2. current.at \in DOMAIN input[phase] BY <1>3 DEF Close, Reads
  <2>3. input[phase][current.at].symbol \in Symbol
    <3>1. input[phase] \in Seq(Line) BY <2>1, InputType
    <3>2. input[phase][current.at] \in Line BY <2>2, <3>1
    <3> QED BY <3>2 DEF Line
  <2>4. fns' \in [Sides -> [Symbol -> FnInfo \cup {NoFn}]]
    BY <1>3, <2>1, <2>3 DEF Close
  <2> QED BY <1>3, <2>4 DEF Close
<1>4. CASE Count
  <2>1. current \in FnInfo BY <1>4 DEF Count
  <2>2. current' \in FnInfo
    <3>1. CASE Here.is = "blank" BY <1>4, <2>1, <3>1 DEF Count
    <3>2. CASE Here.is = "label"
      <4>1. current' = [current EXCEPT !.blocks = @ + 1] BY <1>4, <3>2 DEF Count
      <4> QED BY <2>1, <4>1, Counted
    <3>3. CASE Here.is \notin {"blank", "label"}
      <4>1. current' = [current EXCEPT !.instrs = @ + 1] BY <1>4, <3>3 DEF Count
      <4> QED BY <2>1, <4>1, Counted
    <3> QED BY <3>1, <3>2, <3>3
  <2> QED BY <1>4, <2>2 DEF Count
<1>5. CASE EndOfFile BY <1>5 DEF EndOfFile, Sides
<1>6. CASE Rename
  <2>1. CASE fns["rust"][Asked.rust] = NoFn BY <1>6, <2>1 DEF Rename
  <2>2. CASE fns["rust"][Asked.rust] # NoFn
    <3> DEFINE g == [name \in Symbol |-> IF name = Asked.c THEN fns["rust"][Asked.rust]
                                        ELSE IF name = Asked.rust THEN NoFn
                                        ELSE fns["rust"][name]]
    <3>1. input.renames \in Seq(Pair) BY InputType DEF Invocation
    <3>2. Asked \in Pair BY <1>6, <3>1 DEF Asked, Rename, Renaming
    <3>3. Asked.rust \in Symbol BY <3>2 DEF Pair
    <3>4. "rust" \in Sides BY DEF Sides
    <3>5. g \in [Symbol -> FnInfo \cup {NoFn}] BY <3>3, <3>4
    <3>6. fns' = [fns EXCEPT !["rust"] = g] BY <1>6, <2>2 DEF Rename
    <3>7. fns' \in [Sides -> [Symbol -> FnInfo \cup {NoFn}]] BY <3>5, <3>6
    <3> QED BY <1>6, <3>7 DEF Rename
  <2> QED BY <2>1, <2>2
<1>7. CASE RenameMalformed BY <1>7 DEF RenameMalformed
<1>8. CASE EndOfRenames BY <1>8 DEF EndOfRenames
<1>9. CASE Compare
  <2>1. input.symbols \in Seq(Symbol) BY InputType DEF Invocation
  <2>2. input.symbols[pos] \in Symbol BY <1>9, <2>1 DEF Compare
  <2> QED BY <1>9, <2>2 DEF Compare
<1>10. CASE Verdict BY <1>10 DEF Verdict
<1>11. CASE Ended \/ UNCHANGED vars BY <1>11 DEF Ended, vars
<1> QED BY <1>1, <1>2, <1>3, <1>4, <1>5, <1>6, <1>7, <1>8, <1>9, <1>10, <1>11 DEF Next
-----------------------------------------------------------------------------
\* What one more line adds to the lines of a sort.
LEMMA SortFinite ==
  ASSUME NEW side, NEW S, NEW at \in Nat, NEW p \in Nat
  PROVE  /\ IsFiniteSet(Sort(side, S, at, p))
         /\ Cardinality(Sort(side, S, at, p)) \in Nat
         /\ Cardinality(Sort(side, S, at, at + 1)) = 0
<1>1. IsFiniteSet(Between(at, p)) BY FS_Interval DEF Between
<1>2. Sort(side, S, at, p) \subseteq Between(at, p) BY DEF Sort
<1>3. IsFiniteSet(Sort(side, S, at, p)) BY <1>1, <1>2, FS_Subset
<1>4. Sort(side, S, at, at + 1) = {} BY DEF Sort, Between
<1> QED BY <1>3, <1>4, FS_EmptySet, FS_CardinalityType

LEMMA SortGrows ==
  ASSUME NEW side, NEW S, NEW at \in Nat, NEW p \in Nat, at < p, input[side][p].is \in S
  PROVE  Cardinality(Sort(side, S, at, p + 1)) = Cardinality(Sort(side, S, at, p)) + 1
<1>1. Between(at, p + 1) = Between(at, p) \cup {p} BY DEF Between
<1>2. p \notin Sort(side, S, at, p) BY DEF Sort, Between
<1>3. Sort(side, S, at, p + 1) = Sort(side, S, at, p) \cup {p} BY <1>1 DEF Sort
<1> QED BY <1>2, <1>3, SortFinite, FS_AddElement

LEMMA SortStays ==
  ASSUME NEW side, NEW S, NEW at \in Nat, NEW p \in Nat, at < p, input[side][p].is \notin S
  PROVE  Sort(side, S, at, p + 1) = Sort(side, S, at, p)
<1>1. Between(at, p + 1) = Between(at, p) \cup {p} BY DEF Between
<1> QED BY <1>1 DEF Sort

\* A body ends at the first "}".
LEMMA BodyEnds ==
  ASSUME NEW side \in Sides, NEW at \in Nat, NEW p \in Nat, at < p,
         p <= Len(input[side]), Len(input[side]) \in Nat,
         input[side][p].is = "close",
         \A j \in Between(at, p) : input[side][j].is # "close"
  PROVE  /\ Labels(side, at) = Sort(side, {"label"}, at, p)
         /\ Texts(side, at) = Sort(side, {"text", "define"}, at, p)
<1>1. Body(side, at) = Between(at, p)
  <2>1. ASSUME NEW i \in Body(side, at) PROVE i \in Between(at, p)
    <3>1. i \in (at + 1)..Len(input[side]) /\ \A j \in (at + 1)..i : input[side][j].is # "close"
      BY <2>1 DEF Body
    <3>2. p \notin (at + 1)..i BY <3>1
    <3> QED BY <3>1, <3>2 DEF Between
  <2>2. ASSUME NEW i \in Between(at, p) PROVE i \in Body(side, at)
    BY <2>2 DEF Body, Between
  <2> QED BY <2>1, <2>2
<1> QED BY <1>1 DEF Labels, Texts, Sort

\* The steps that read a line outside of any function, or no line.
LEMMA ReadsStep == TypeOK /\ Reads /\ InFile /\ [Next]_vars => Reads'
<1> SUFFICES ASSUME TypeOK, Reads, InFile, [Next]_vars PROVE Reads'
  OBVIOUS
<1>0. pos \in Nat \ {0} /\ input \in Inputs BY DEF TypeOK
<1>a. input' = input BY DEF Next, vars, Open, SkipOutside, Close, Count, EndOfFile, Rename,
                           RenameMalformed, EndOfRenames, Compare, Verdict, Ended
<1>1. CASE Open
  <2>1. phase' = phase /\ phase \in Sides /\ pos' = pos + 1 /\ current'.at = pos
        /\ current'.blocks = 1 /\ current'.instrs = 0 /\ input[phase][pos].is = "define"
        /\ pos <= Len(input[phase])
    BY <1>1 DEF Open, Reading, Here
  <2>2. input[phase] \in Seq(Line) BY <1>0, <2>1, InputType
  <2>3. Cardinality(Sort(phase, {"label"}, pos, pos + 1)) = 0
        /\ Cardinality(Sort(phase, {"text", "define"}, pos, pos + 1)) = 0
    BY <1>0, SortFinite
  <2>4. Between(pos, pos + 1) = {} BY <1>0 DEF Between
  <2>5. pos \in DOMAIN input[phase] BY <1>0, <2>1, <2>2
  <2>6. Cardinality(Sort(phase, {"label"}, current.at, pos)') = 0
        /\ Cardinality(Sort(phase, {"text", "define"}, current.at, pos)') = 0
    BY <1>a, <2>1, <2>3 DEF Sort, Between
  <2>7. Between(current.at, pos)' = {} BY <2>1, <2>4 DEF Between
  <2> QED BY <1>0, <1>a, <2>1, <2>5, <2>6, <2>7 DEF Reads
<1>2. CASE Count
  <2>1. phase' = phase /\ phase \in Sides /\ pos' = pos + 1 /\ current # NoFn
        /\ input[phase][pos].is # "close" /\ pos <= Len(input[phase])
    BY <1>2 DEF Count, Reading, Here
  <2>2. current \in FnInfo BY <2>1 DEF TypeOK
  <2>3. current.at \in Nat /\ current.blocks \in Nat /\ current.instrs \in Nat BY <2>2 DEF FnInfo
  <2>4. input[phase][pos] \in Line
    BY <1>0, <2>1, InputType
  <2>5. current.at < pos BY <2>1 DEF Reads
  <2>6. current'.at = current.at
        /\ current'.blocks = current.blocks + (IF input[phase][pos].is = "label" THEN 1 ELSE 0)
        /\ current'.instrs = current.instrs + (IF input[phase][pos].is \in {"text", "define"} THEN 1 ELSE 0)
    BY <1>2, <2>1, <2>2, <2>3, <2>4 DEF Count, Here, FnInfo, Line
  <2> DEFINE Grown(S) ==
        Cardinality(Sort(phase, S, current.at, pos + 1))
          = Cardinality(Sort(phase, S, current.at, pos)) + (IF input[phase][pos].is \in S THEN 1 ELSE 0)
  <2>7. ASSUME NEW S PROVE Grown(S) /\ Cardinality(Sort(phase, S, current.at, pos)) \in Nat
    <3>1. pos \in Nat BY <1>0
    <3>2. Cardinality(Sort(phase, S, current.at, pos)) \in Nat
      BY <2>3, <3>1, SortFinite
    <3>3. CASE input[phase][pos].is \in S
      <4>1. Cardinality(Sort(phase, S, current.at, pos + 1))
              = Cardinality(Sort(phase, S, current.at, pos)) + 1
        BY <2>3, <2>5, <3>1, <3>3, SortGrows
      <4> QED BY <3>2, <3>3, <4>1
    <3>4. CASE input[phase][pos].is \notin S BY <2>3, <2>5, <3>1, <3>2, <3>4, SortStays
    <3> QED BY <3>2, <3>3, <3>4
  <2>8. Grown({"label"}) /\ Grown({"text", "define"})
    BY <2>7
  <2>9. Sort(phase, {"label"}, current.at, pos)' = Sort(phase, {"label"}, current.at, pos + 1)
        /\ Sort(phase, {"text", "define"}, current.at, pos)'
             = Sort(phase, {"text", "define"}, current.at, pos + 1)
    BY <1>a, <2>1, <2>6 DEF Sort, Between
  <2>10. \A j \in Between(current.at, pos + 1) : input[phase][j].is # "close"
    BY <1>0, <2>1, <2>3 DEF Reads, Between
  <2>11. Cardinality(Sort(phase, {"label"}, current.at, pos)) \in Nat
         /\ Cardinality(Sort(phase, {"text", "define"}, current.at, pos)) \in Nat
    BY <2>7
  <2>12. current.blocks = 1 + Cardinality(Sort(phase, {"label"}, current.at, pos))
         /\ current.instrs = Cardinality(Sort(phase, {"text", "define"}, current.at, pos))
         /\ current.at \in DOMAIN input[phase] /\ input[phase][current.at].is = "define"
    BY <2>1 DEF Reads
  <2>13. (\A j \in Between(current.at, pos) : input[phase][j].is # "close")'
    BY <1>a, <2>1, <2>6, <2>10 DEF Between
  <2>14. current'.blocks = 1 + Cardinality(Sort(phase, {"label"}, current.at, pos)')
         /\ current'.instrs = Cardinality(Sort(phase, {"text", "define"}, current.at, pos)')
    BY <2>3, <2>6, <2>8, <2>9, <2>11, <2>12
  <2> QED BY <1>0, <1>a, <2>1, <2>3, <2>5, <2>6, <2>12, <2>13, <2>14 DEF Reads
<1>3. CASE SkipOutside \/ Close \/ EndOfFile
  <2>1. current' = NoFn BY <1>3 DEF SkipOutside, Close, EndOfFile
  <2> QED BY <2>1 DEF Reads
<1>4. CASE Rename \/ RenameMalformed \/ EndOfRenames \/ Compare \/ Verdict
  <2>1. phase \notin Sides BY <1>4 DEF Rename, Renaming, RenameMalformed, EndOfRenames, Compare, Verdict, Sides
  <2>2. current = NoFn BY <2>1 DEF Reads
  <2>3. current' = current BY <1>4 DEF Rename, RenameMalformed, EndOfRenames, Compare, Verdict
  <2> QED BY <2>2, <2>3 DEF Reads
<1>5. CASE Ended \/ UNCHANGED vars
  <2>1. UNCHANGED vars BY <1>5 DEF Ended
  <2> QED BY <2>1 DEF Reads, vars, Sort, Between
<1> QED BY <1>1, <1>2, <1>3, <1>4, <1>5 DEF Next

LEMMA InFileStep == TypeOK /\ InFile /\ [Next]_vars => InFile'
<1> SUFFICES ASSUME TypeOK, InFile, [Next]_vars PROVE InFile'
  OBVIOUS
<1>0. pos \in Nat \ {0} /\ input \in Inputs BY DEF TypeOK
<1>1. CASE Open \/ SkipOutside \/ Close \/ Count
  <2>1. phase' = phase /\ phase \in Sides /\ pos' = pos + 1 /\ pos <= Len(input[phase]) /\ input' = input
    BY <1>1 DEF Open, SkipOutside, Close, Count, Reading
  <2>2. input[phase] \in Seq(Line) BY <1>0, <2>1, InputType
  <2>3. Len(input[phase]) \in Nat BY <2>2
  <2> QED BY <1>0, <2>1, <2>3 DEF InFile
<1>2. CASE EndOfFile
  <2>1. pos' = 1 /\ input' = input /\ phase' \in Sides \cup {"rename"}
    BY <1>2 DEF EndOfFile, Sides
  <2>2. ASSUME phase' \in Sides PROVE Len(input[phase']) \in Nat
    <3>1. input[phase'] \in Seq(Line) BY <1>0, <2>2, InputType
    <3> QED BY <3>1
  <2> QED BY <2>1, <2>2 DEF InFile
<1>3. CASE Rename \/ RenameMalformed \/ EndOfRenames \/ Compare \/ Verdict
  <2>1. phase' \notin Sides
    BY <1>3 DEF Rename, Renaming, RenameMalformed, EndOfRenames, Compare, Verdict, Sides
  <2> QED BY <2>1 DEF InFile
<1>4. CASE Ended \/ UNCHANGED vars
  BY <1>4 DEF Ended, vars, InFile
<1> QED BY <1>1, <1>2, <1>3, <1>4 DEF Next

\* Only Close and Rename touch the maps.
LEMMA Untouched ==
  ASSUME [Next]_vars, ~Close, ~Rename
  PROVE  fns' = fns /\ input' = input
BY DEF Next, vars, Open, SkipOutside, Count, EndOfFile, RenameMalformed, EndOfRenames,
       Compare, Verdict, Ended

\* What closing a function puts where.
LEMMA Closes ==
  ASSUME TypeOK, Reads, InFile, Close
  PROVE  /\ phase \in Sides /\ current \in FnInfo /\ current # NoFn
         /\ input' = input /\ phase' = phase /\ pos' = pos + 1 /\ current' = NoFn
         /\ current.at \in Nat /\ current.at < pos
         /\ \E n \in Symbol : \A side \in Sides, name \in Symbol :
              fns'[side][name] = IF side = phase /\ name = n THEN current ELSE fns[side][name]
         /\ current.blocks = 1 + Cardinality(Labels(phase, current.at))
         /\ current.instrs = Cardinality(Texts(phase, current.at))
<1>1. phase \in Sides /\ current \in FnInfo /\ current # NoFn /\ pos \in Nat /\ pos <= Len(input[phase])
      /\ input' = input /\ phase' = phase /\ pos' = pos + 1 /\ current' = NoFn
      /\ input \in Inputs /\ input[phase][pos].is = "close"
  BY DEF Close, Reading, Here, TypeOK
<1>2. current.at \in Nat BY <1>1 DEF FnInfo
<1>3. input[phase] \in Seq(Line) BY <1>1, InputType
<1>4. /\ current.at < pos /\ current.at \in DOMAIN input[phase]
      /\ \A j \in Between(current.at, pos) : input[phase][j].is # "close"
      /\ current.blocks = 1 + Cardinality(Sort(phase, {"label"}, current.at, pos))
      /\ current.instrs = Cardinality(Sort(phase, {"text", "define"}, current.at, pos))
  BY <1>1 DEF Reads
<1>5. input[phase][current.at].symbol \in Symbol
  <2>1. input[phase][current.at] \in Line BY <1>3, <1>4
  <2> QED BY <2>1 DEF Line
<1>6. \A side \in Sides, name \in Symbol :
        fns'[side][name] = IF side = phase /\ name = input[phase][current.at].symbol
                           THEN current ELSE fns[side][name]
  BY <1>1, <1>5 DEF Close, TypeOK
<1>7. Len(input[phase]) \in Nat BY <1>3
<1>8. /\ Labels(phase, current.at) = Sort(phase, {"label"}, current.at, pos)
      /\ Texts(phase, current.at) = Sort(phase, {"text", "define"}, current.at, pos)
  BY <1>1, <1>2, <1>4, <1>7, BodyEnds
<1>9. \E n \in Symbol : \A side \in Sides, name \in Symbol :
        fns'[side][name] = IF side = phase /\ name = n THEN current ELSE fns[side][name]
  BY <1>5, <1>6, Zenon
<1>10. /\ current.blocks = 1 + Cardinality(Labels(phase, current.at))
       /\ current.instrs = Cardinality(Texts(phase, current.at))
  BY <1>4, <1>8
<1> QED BY <1>1, <1>2, <1>4, <1>9, <1>10

\* What renaming puts where.
LEMMA RenamesMove ==
  ASSUME TypeOK, Rename
  PROVE  /\ input' = input /\ phase' = phase /\ phase = "rename"
         /\ \A name \in Symbol : fns'["c"][name] = fns["c"][name]
         /\ \A m \in Symbol : fns'["rust"][m] # NoFn =>
              \E n \in Symbol : fns'["rust"][m] = fns["rust"][n]
         /\ \A m, n \in Symbol :
              m # n /\ fns'["rust"][m] # NoFn /\ fns'["rust"][n] # NoFn =>
                \E m1, n1 \in Symbol : /\ m1 # n1
                                       /\ fns'["rust"][m] = fns["rust"][m1]
                                       /\ fns'["rust"][n] = fns["rust"][n1]
<1>1. input' = input /\ phase' = phase /\ phase = "rename" /\ input.renames \in Seq(Pair)
  BY InputType DEF Rename, Renaming, TypeOK, Invocation
<1>2. Asked.rust \in Symbol
  <2>1. Asked \in Pair BY <1>1 DEF Asked, Rename, Renaming, TypeOK
  <2> QED BY <2>1 DEF Pair
<1>3. "c" \in Sides /\ "rust" \in Sides /\ "c" # "rust" BY DEF Sides
<1>4. CASE fns["rust"][Asked.rust] = NoFn
  <2>1. fns' = fns BY <1>4 DEF Rename
  <2> QED BY <1>1, <2>1
<1>5. CASE fns["rust"][Asked.rust] # NoFn
  <2> DEFINE g == [name \in Symbol |-> IF name = Asked.c THEN fns["rust"][Asked.rust]
                                      ELSE IF name = Asked.rust THEN NoFn
                                      ELSE fns["rust"][name]]
  <2>1. fns' = [fns EXCEPT !["rust"] = g] BY <1>5 DEF Rename
  <2> HIDE DEF g
  <2>2. fns'["rust"] = g /\ fns'["c"] = fns["c"] BY <1>3, <2>1 DEF TypeOK
  <2>3. \A m \in Symbol : g[m] = IF m = Asked.c THEN fns["rust"][Asked.rust]
                                      ELSE IF m = Asked.rust THEN NoFn
                                      ELSE fns["rust"][m]
    BY DEF g
  <2>4. \A m \in Symbol : g[m] # NoFn => \E n \in Symbol : g[m] = fns["rust"][n]
    BY <1>2, <2>3
  <2>5. \A m, n \in Symbol :
          m # n /\ g[m] # NoFn /\ g[n] # NoFn =>
            \E m1, n1 \in Symbol : m1 # n1 /\ g[m] = fns["rust"][m1] /\ g[n] = fns["rust"][n1]
    BY <1>2, <2>3
  <2> QED BY <1>1, <2>2, <2>4, <2>5
<1> QED BY <1>4, <1>5

LEMMA OrderStep == TypeOK /\ Reads /\ InFile /\ Order /\ [Next]_vars => Order'
<1> SUFFICES ASSUME TypeOK, Reads, InFile, Order, [Next]_vars PROVE Order'
  OBVIOUS
<1>0. pos \in Nat /\ "c" \in Sides /\ "rust" \in Sides /\ "c" # "rust"
      /\ current \in FnInfo \cup {NoFn}
      /\ \A side \in Sides, name \in Symbol : fns[side][name] \in FnInfo \cup {NoFn}
  BY DEF TypeOK, Sides
<1>n. \A f \in FnInfo \cup {NoFn} : f.at \in Nat
  <2>1. \A f \in FnInfo : f.at \in Nat BY DEF FnInfo
  <2> QED BY <2>1, NoFnAt
<1>1. CASE Close
  <2>1. PICK n \in Symbol : \A side \in Sides, name \in Symbol :
          fns'[side][name] = IF side = phase /\ name = n THEN current ELSE fns[side][name]
    BY <1>1, Closes
  <2>2. phase' = phase /\ phase \in Sides /\ pos' = pos + 1 /\ current' = NoFn /\ current.at < pos
    BY <1>1, Closes
  <2>3. \A name \in Symbol : fns[phase][name] # NoFn => fns[phase][name].at < pos
    BY <2>2 DEF Order
  <2>4. ASSUME NEW name \in Symbol, fns'[phase][name] # NoFn PROVE fns'[phase][name].at < pos + 1
    <3>1. CASE name = n BY <1>0, <1>n, <2>1, <2>2, <3>1
    <3>2. CASE name # n
      <4>1. fns'[phase][name] = fns[phase][name] BY <2>1, <2>2, <3>2
      <4>2. fns[phase][name].at < pos BY <2>3, <2>4, <4>1
      <4>3. fns[phase][name].at \in Nat BY <1>0, <1>n, <2>2
      <4> QED BY <1>0, <4>1, <4>2, <4>3
    <3> QED BY <3>1, <3>2
  <2>5. phase = "c" => \A name \in Symbol : fns'["rust"][name] = NoFn
    BY <1>0, <2>1 DEF Order
  <2> QED BY <2>2, <2>4, <2>5 DEF Order
<1>2. CASE Rename
  <2>1. phase' \notin Sides /\ phase' # "c" BY <1>2, RenamesMove DEF Sides
  <2> QED BY <2>1 DEF Order
<1>3. CASE EndOfFile
  <2>1. phase' # "c" /\ fns' = fns /\ current' = NoFn /\ (phase' \in Sides => phase = "c" /\ phase' = "rust")
    BY <1>3 DEF EndOfFile, Sides
  <2> QED BY <2>1 DEF Order
<1>4. CASE Open
  <2>1. phase' = phase /\ phase \in Sides /\ fns' = fns /\ pos' = pos + 1 /\ current'.at = pos
    BY <1>4 DEF Open, Reading
  <2>2. \A name \in Symbol : fns[phase][name] # NoFn =>
           fns[phase][name].at < pos /\ fns[phase][name].at \in Nat
    BY <1>0, <1>n, <2>1 DEF Order
  <2> QED BY <1>0, <2>1, <2>2 DEF Order
<1>5. CASE SkipOutside \/ Count
  <2>1. phase' = phase /\ phase \in Sides /\ fns' = fns /\ pos' = pos + 1
    BY <1>5 DEF SkipOutside, Count, Reading
  <2>2. current' # NoFn => current # NoFn /\ current'.at = current.at
    <3>1. CASE SkipOutside BY <3>1 DEF SkipOutside
    <3>2. CASE Count BY <1>0, <3>2 DEF Count, FnInfo
    <3> QED BY <1>5, <3>1, <3>2
  <2>3. \A name \in Symbol : fns[phase][name] # NoFn =>
           /\ fns[phase][name].at < pos /\ fns[phase][name].at \in Nat
           /\ current # NoFn => fns[phase][name].at < current.at
    BY <1>0, <1>n, <2>1 DEF Order
  <2> QED BY <1>0, <2>1, <2>2, <2>3 DEF Order
<1>6. CASE RenameMalformed \/ EndOfRenames \/ Compare \/ Verdict
  <2>1. phase' \notin Sides /\ phase' # "c"
    BY <1>6 DEF RenameMalformed, EndOfRenames, Compare, Verdict, Sides
  <2> QED BY <2>1 DEF Order
<1>7. CASE Ended \/ UNCHANGED vars BY <1>7 DEF Ended, vars, Order
<1> QED BY <1>1, <1>2, <1>3, <1>4, <1>5, <1>6, <1>7 DEF Next

LEMMA SizesStep ==
  TypeOK /\ Reads /\ InFile /\ SizesAreOfTheBody /\ [Next]_vars => SizesAreOfTheBody'
<1> SUFFICES ASSUME TypeOK, Reads, InFile, SizesAreOfTheBody, [Next]_vars
             PROVE  SizesAreOfTheBody'
  OBVIOUS
<1> DEFINE Fits(side, f) == /\ f.blocks = 1 + Cardinality(Labels(side, f.at))
                            /\ f.instrs = Cardinality(Texts(side, f.at))
<1>1. \A side \in Sides, n \in Symbol : fns[side][n] # NoFn => Fits(side, fns[side][n])
  BY DEF SizesAreOfTheBody
<1>2. input' = input
  BY Untouched DEF Close, Rename
<1>3. ASSUME NEW side \in Sides, NEW name \in Symbol, fns'[side][name] # NoFn
      PROVE  Fits(side, fns'[side][name])
  <2>1. CASE Close
    <3>1. PICK n \in Symbol : \A s \in Sides, m \in Symbol :
            fns'[s][m] = IF s = phase /\ m = n THEN current ELSE fns[s][m]
      BY <2>1, Closes
    <3>2. CASE side = phase /\ name = n
      <4>1. fns'[side][name] = current BY <3>1, <3>2
      <4>2. Fits(side, current) BY <2>1, <3>2, Closes
      <4> QED BY <4>1, <4>2
    <3>3. CASE ~(side = phase /\ name = n)
      <4>1. fns'[side][name] = fns[side][name] BY <3>1, <3>3
      <4> QED BY <1>1, <1>3, <4>1
    <3> QED BY <3>2, <3>3
  <2>2. CASE Rename
    <3>1. \E n \in Symbol : fns'[side][name] = fns[side][n]
      <4>1. CASE side = "c" BY <2>2, <4>1, RenamesMove
      <4>2. CASE side = "rust" BY <1>3, <2>2, <4>2, RenamesMove
      <4> QED BY <4>1, <4>2 DEF Sides
    <3> QED BY <1>1, <1>3, <3>1
  <2>3. CASE ~Close /\ ~Rename BY <1>1, <1>3, <2>3, Untouched
  <2> QED BY <2>1, <2>2, <2>3
<1>4. \A side, at : Labels(side, at)' = Labels(side, at) /\ Texts(side, at)' = Texts(side, at)
  BY <1>2 DEF Labels, Texts, Body
<1> QED BY <1>3, <1>4 DEF SizesAreOfTheBody

LEMMA SharedStep ==
  TypeOK /\ Reads /\ InFile /\ Order /\ NotSharedBySymbols /\ [Next]_vars => NotSharedBySymbols'
<1> SUFFICES ASSUME TypeOK, Reads, InFile, Order, NotSharedBySymbols, [Next]_vars,
                    NEW side \in Sides, NEW m \in Symbol, NEW n \in Symbol,
                    m # n, fns'[side][m] # NoFn
             PROVE  fns'[side][m].at # fns'[side][n].at
  BY DEF NotSharedBySymbols
<1>0. \A s \in Sides, name \in Symbol : fns[s][name] \in FnInfo \cup {NoFn} BY DEF TypeOK
<1>n. \A f \in FnInfo : f.at \in Nat /\ f.at # 0 BY DEF FnInfo
<1>1. \A a, b \in Symbol : a # b /\ fns[side][a] # NoFn => fns[side][a].at # fns[side][b].at
  BY DEF NotSharedBySymbols
<1>2. CASE Close
  <2>1. PICK k \in Symbol : \A s \in Sides, a \in Symbol :
          fns'[s][a] = IF s = phase /\ a = k THEN current ELSE fns[s][a]
    BY <1>2, Closes
  <2>2. phase \in Sides /\ current \in FnInfo /\ current # NoFn BY <1>2, Closes
  <2>3. \A a \in Symbol : fns[phase][a].at < current.at \/ fns[phase][a] = NoFn
    BY <2>2 DEF Order
  <2>4. \A a \in Symbol : fns[phase][a].at # current.at
    <3> TAKE a \in Symbol
    <3>1. fns[phase][a] \in FnInfo \cup {NoFn} /\ current.at \in Nat \ {0}
      BY <1>0, <1>n, <2>2
    <3>2. CASE fns[phase][a] = NoFn BY <3>1, <3>2, NoFnAt
    <3>3. CASE fns[phase][a] # NoFn
      <4>1. fns[phase][a].at < current.at /\ fns[phase][a].at \in Nat BY <1>n, <2>3, <3>1, <3>3
      <4> QED BY <3>1, <4>1
    <3> QED BY <3>2, <3>3
  <2>5. CASE side = phase /\ (m = k \/ n = k) BY <2>1, <2>4, <2>5
  <2>6. CASE ~(side = phase /\ (m = k \/ n = k))
    <3>1. fns'[side][m] = fns[side][m] /\ fns'[side][n] = fns[side][n] BY <2>1, <2>6
    <3> QED BY <1>1, <3>1
  <2> QED BY <2>5, <2>6
<1>3. CASE Rename
  <2>1. CASE side = "c" BY <1>1, <1>3, <2>1, RenamesMove
  <2>2. CASE side = "rust" /\ fns'["rust"][n] # NoFn
    <3>1. PICK m1, n1 \in Symbol : m1 # n1 /\ fns'["rust"][m] = fns["rust"][m1]
                                   /\ fns'["rust"][n] = fns["rust"][n1]
      BY <1>3, <2>2, RenamesMove
    <3> QED BY <1>1, <2>2, <3>1
  <2>3. CASE side = "rust" /\ fns'["rust"][n] = NoFn
    <3>1. PICK m1 \in Symbol : fns'["rust"][m] = fns["rust"][m1] BY <1>3, <2>3, RenamesMove
    <3>2. fns'["rust"][m] \in FnInfo BY <1>0, <2>3, <3>1
    <3> QED BY <1>n, <2>3, <3>2, NoFnAt
  <2> QED BY <2>1, <2>2, <2>3 DEF Sides
<1>4. CASE ~Close /\ ~Rename BY <1>1, <1>4, Untouched
<1> QED BY <1>2, <1>3, <1>4
-----------------------------------------------------------------------------
LEMMA Start == Init => IInv
<1> SUFFICES ASSUME Init PROVE IInv
  OBVIOUS
<1>1. \A side \in Sides, name \in Symbol : fns[side][name] = NoFn BY DEF Init
<1>2. TypeOK BY DEF Init, TypeOK, Sides
<1>3. input["c"] \in Seq(Line) BY InputType DEF Init, Sides
<1>4. InFile
  <2>1. Len(input["c"]) \in Nat BY <1>3
  <2> QED BY <2>1 DEF Init, InFile
<1>5. Reads /\ Order BY <1>1 DEF Init, Reads, Order, Sides
<1>6. SizesAreOfTheBody /\ NotSharedBySymbols
  BY <1>1 DEF SizesAreOfTheBody, NotSharedBySymbols
<1> QED BY <1>2, <1>4, <1>5, <1>6 DEF IInv

LEMMA Step == IInv /\ [Next]_vars => IInv'
<1> SUFFICES ASSUME IInv, [Next]_vars PROVE IInv'
  OBVIOUS
<1> QED BY TypeStep, ReadsStep, InFileStep, OrderStep, SizesStep, SharedStep DEF IInv

LEMMA Always == Spec => []IInv
BY Start, Step, PTL DEF Spec

\* The state of the check stays in its types, for any two files.
THEOREM Typing == Spec => []TypeOK
<1>1. IInv => TypeOK BY DEF IInv
<1> QED BY <1>1, Always, PTL

\* Whatever the files and the renames, a function's sizes are counted from the
\* lines of its own body and from nothing else.
THEOREM OwnSizes == Spec => []SizesAreOfTheBody
<1>1. IInv => SizesAreOfTheBody BY DEF IInv
<1> QED BY <1>1, Always, PTL

\* However the renames chain or collide, no function of a file is ever compared
\* under two names.
THEOREM OneName == Spec => []NotSharedBySymbols
<1>1. IInv => NotSharedBySymbols BY DEF IInv
<1> QED BY <1>1, Always, PTL
-----------------------------------------------------------------------------
\* The signature of a function is that of its line.
Signed(side, f) ==
  /\ f.at \in DOMAIN input[side] /\ input[side][f.at].is = "define"
  /\ f.ret = Captured(input[side][f.at].ret)
  /\ f.args = [i \in DOMAIN input[side][f.at].args |-> Normal(input[side][f.at].args[i])]
Signatures ==
  /\ current # NoFn => phase \in Sides /\ Signed(phase, current)
  /\ \A side \in Sides, name \in Symbol : fns[side][name] # NoFn => Signed(side, fns[side][name])
\* The C map is not renamed.
Named ==
  \A name \in Symbol : fns["c"][name] # NoFn => input["c"][fns["c"][name].at].symbol = name
\* A symbol compared before that is not among the failing ones passes.
Judged ==
  /\ phase = "compare" =>
       \A k \in 1..(pos - 1) : k \in DOMAIN input.symbols =>
         input.symbols[k] \in failing \/ Passing(input.symbols[k])
  /\ status = 0 => phase = "done" /\ \A k \in DOMAIN input.symbols : Passing(input.symbols[k])
  /\ phase # "done" => status = -1

LEMMA InputKept == [Next]_vars => input' = input
BY DEF Next, vars, Open, SkipOutside, Close, Count, EndOfFile, Rename,
       RenameMalformed, EndOfRenames, Compare, Verdict, Ended

LEMMA SignaturesStep == IInv /\ Signatures /\ Named /\ [Next]_vars => Signatures' /\ Named'
<1> SUFFICES ASSUME IInv, Signatures, Named, [Next]_vars PROVE Signatures' /\ Named'
  OBVIOUS
<1>1. TypeOK /\ Reads /\ input \in Inputs /\ pos \in Nat \ {0}
      /\ fns \in [Sides -> [Symbol -> FnInfo \cup {NoFn}]]
  BY DEF IInv, TypeOK
<1>2. input' = input BY InputKept
<1>3. "c" \in Sides /\ "rust" \in Sides BY DEF Sides
<1>3a. ASSUME fns' = fns
      PROVE  /\ \A side \in Sides, name \in Symbol : fns[side][name]' # NoFn => Signed(side, fns[side][name])'
             /\ Named'
  <2>1. \A side \in Sides, name \in Symbol : fns[side][name]' # NoFn => Signed(side, fns[side][name])'
    BY <1>3a, <1>2 DEF Signatures, Signed
  <2>2. Named' BY <1>3a, <1>2 DEF Named
  <2> QED BY <2>1, <2>2
<1>4. CASE Open
  <2>1. /\ fns' = fns /\ phase' = phase /\ phase \in Sides /\ pos <= Len(input[phase])
        /\ Here.is = "define" /\ current'.at = pos /\ current'.ret = Captured(Here.ret)
        /\ current'.args = [i \in DOMAIN Here.args |-> Normal(Here.args[i])]
    BY <1>4 DEF Open, Reading
  <2>2. input[phase] \in Seq(Line) BY <1>1, <2>1, InputType
  <2>3. pos \in DOMAIN input[phase] BY <1>1, <2>1, <2>2
  <2>4. Signed(phase, current)' BY <1>2, <2>1, <2>3 DEF Signed, Here
  <2>5. (current # NoFn => phase \in Sides /\ Signed(phase, current))' BY <2>1, <2>4
  <2> QED BY <1>3a, <2>1, <2>5 DEF Signatures
<1>5. CASE Count
  <2>1. fns' = fns /\ phase' = phase /\ current # NoFn BY <1>5 DEF Count
  <2>2. current \in FnInfo BY <1>1, <2>1 DEF TypeOK
  <2>3. current'.at = current.at /\ current'.ret = current.ret /\ current'.args = current.args
    <3>1. \/ current' = current \/ current' = [current EXCEPT !.blocks = @ + 1]
          \/ current' = [current EXCEPT !.instrs = @ + 1]
      BY <1>5 DEF Count
    <3> QED BY <2>2, <3>1 DEF FnInfo
  <2>4. (current # NoFn => phase \in Sides /\ Signed(phase, current))'
    BY <1>2, <2>1, <2>3 DEF Signatures, Signed
  <2> QED BY <1>3a, <2>1, <2>4 DEF Signatures
<1>6. CASE Close
  <2>1. /\ current' = NoFn /\ current # NoFn /\ phase \in Sides
        /\ fns' = [fns EXCEPT ![phase][input[phase][current.at].symbol] = current]
    BY <1>6 DEF Close, Reading
  <2>2. current.at \in DOMAIN input[phase] BY <1>1, <2>1 DEF Reads
  <2>3. PICK k : k = input[phase][current.at].symbol
    OBVIOUS
  <2>4. k \in Symbol
    <3>1. input[phase] \in Seq(Line) BY <1>1, <2>1, InputType
    <3>2. input[phase][current.at] \in Line BY <2>2, <3>1
    <3> QED BY <2>3, <3>2 DEF Line
  <2>5. \A side \in Sides, name \in Symbol :
          fns'[side][name] = IF side = phase /\ name = k THEN current ELSE fns[side][name]
    BY <1>1, <2>1, <2>3, <2>4
  <2>6. Signed(phase, current) BY <2>1 DEF Signatures
  <2>7. Signatures'
    <3>1. \A side \in Sides, name \in Symbol : fns'[side][name] # NoFn => Signed(side, fns'[side][name])
      BY <2>5, <2>6 DEF Signatures
    <3>2. current' = NoFn BY <2>1
    <3> QED BY <1>2, <3>1, <3>2 DEF Signatures, Signed
  <2>8. Named' BY <1>2, <1>3, <2>3, <2>5 DEF Named
  <2> QED BY <2>7, <2>8
<1>7. CASE Rename
  <2>1. current' = current /\ phase' = phase /\ phase = "rename" BY <1>7 DEF Rename, Renaming
  <2>2. current = NoFn BY <2>1 DEF Signatures, Sides
  <2>3. fns'["c"] = fns["c"] BY <1>1, <1>3, <1>7 DEF Rename
  <2>4. \A name \in Symbol : fns'["rust"][name] = NoFn
                             \/ \E m \in Symbol : fns'["rust"][name] = fns["rust"][m]
    <3>1. CASE fns["rust"][Asked.rust] = NoFn BY <1>7, <3>1 DEF Rename
    <3>2. CASE fns["rust"][Asked.rust] # NoFn
      <4>1. Asked.rust \in Symbol
        <5>1. input.renames \in Seq(Pair) BY <1>1, InputType DEF Invocation
        <5>2. Asked \in Pair BY <1>1, <1>7, <5>1 DEF Asked, Rename, Renaming
        <5> QED BY <5>2 DEF Pair
      <4>2. \A name \in Symbol :
              fns'["rust"][name] = IF name = Asked.c THEN fns["rust"][Asked.rust]
                                   ELSE IF name = Asked.rust THEN NoFn ELSE fns["rust"][name]
        BY <1>1, <1>3, <1>7, <3>2 DEF Rename
      <4> QED BY <4>1, <4>2
    <3> QED BY <3>1, <3>2
  <2>5. Signatures'
    <3>1. \A name \in Symbol : fns'["c"][name] # NoFn => Signed("c", fns'["c"][name])
      BY <1>3, <2>3 DEF Signatures
    <3>2. \A name \in Symbol : fns'["rust"][name] # NoFn => Signed("rust", fns'["rust"][name])
      BY <1>3, <2>4 DEF Signatures
    <3>3. \A side \in Sides, name \in Symbol : fns'[side][name] # NoFn => Signed(side, fns'[side][name])
      BY <3>1, <3>2 DEF Sides
    <3> QED BY <1>2, <2>1, <2>2, <3>3 DEF Signatures, Signed
  <2>6. Named' BY <1>2, <2>3 DEF Named
  <2> QED BY <2>5, <2>6
<1>8. CASE fns' = fns /\ current' \in {current, NoFn} /\ (current' # NoFn => phase' = phase)
  BY <1>2, <1>8 DEF Signatures, Signed, Named
<1>9. CASE SkipOutside \/ EndOfFile BY <1>8, <1>9 DEF SkipOutside, EndOfFile
<1>10. CASE RenameMalformed \/ EndOfRenames \/ Compare \/ Verdict
  <2>1. fns' = fns /\ current' = current /\ phase \notin Sides
    BY <1>10 DEF RenameMalformed, EndOfRenames, Compare, Verdict, Renaming, Sides
  <2>2. current' = NoFn BY <2>1 DEF Signatures
  <2> QED BY <1>8, <2>1, <2>2
<1>11. CASE Ended \/ UNCHANGED vars BY <1>8, <1>11 DEF Ended, vars
<1> QED BY <1>4, <1>5, <1>6, <1>7, <1>9, <1>10, <1>11 DEF Next

LEMMA JudgedStep == TypeOK /\ Judged /\ [Next]_vars => Judged'
<1> SUFFICES ASSUME TypeOK, Judged, [Next]_vars PROVE Judged'
  OBVIOUS
<1>1. input' = input /\ pos \in Nat \ {0} /\ input \in Inputs BY InputKept DEF TypeOK
<1>2. input.symbols \in Seq(Symbol) BY <1>1, InputType DEF Invocation
<1>3. CASE Compare
  <2>1. /\ phase = "compare" /\ phase' = phase /\ pos' = pos + 1 /\ fns' = fns /\ status' = status
        /\ failing' = IF Passing(input.symbols[pos]) THEN failing ELSE failing \cup {input.symbols[pos]}
    BY <1>3 DEF Compare
  <2>2. \A x : Passing(x)' = Passing(x) BY <2>1 DEF Passing, SameSignature
  <2>3. \A k \in 1..((pos + 1) - 1) : k \in DOMAIN input.symbols =>
          input.symbols[k] \in failing' \/ Passing(input.symbols[k])
    <3> SUFFICES ASSUME NEW k \in 1..((pos + 1) - 1), k \in DOMAIN input.symbols
        PROVE input.symbols[k] \in failing' \/ Passing(input.symbols[k])
      OBVIOUS
    <3>1. k \in 1..(pos - 1) \/ k = pos BY <1>1
    <3>2. failing \subseteq failing' BY <2>1
    <3>3. k = pos => input.symbols[k] \in failing' \/ Passing(input.symbols[k]) BY <2>1
    <3> QED BY <2>1, <3>1, <3>2, <3>3 DEF Judged
  <2>4. status = -1 /\ status # 0 BY <2>1 DEF Judged
  <2> QED BY <1>1, <2>1, <2>2, <2>3, <2>4 DEF Judged
<1>4. CASE Verdict
  <2>1. /\ phase = "compare" /\ phase' = "done" /\ pos > Len(input.symbols) /\ fns' = fns
        /\ status' = IF failing = {} THEN 0 ELSE 1
    BY <1>4 DEF Verdict
  <2>2. \A x : Passing(x)' = Passing(x) BY <2>1 DEF Passing, SameSignature
  <2>3. \A k \in DOMAIN input.symbols : k \in 1..(pos - 1) BY <1>1, <1>2, <2>1
  <2>4. status' = 0 => \A k \in DOMAIN input.symbols : Passing(input.symbols[k])
    BY <2>1, <2>3 DEF Judged
  <2> QED BY <1>1, <2>1, <2>2, <2>4 DEF Judged
<1>5. CASE RenameMalformed BY <1>5 DEF RenameMalformed, Judged
<1>6. CASE EndOfRenames
  <2>1. phase = "rename" /\ phase' = "compare" /\ pos' = 1 /\ status' = status /\ status = -1
    BY <1>6 DEF EndOfRenames, Judged
  <2>2. 1..(pos' - 1) = {} BY <2>1
  <2> QED BY <2>1, <2>2 DEF Judged
<1>7. CASE Open \/ SkipOutside \/ Close \/ Count \/ EndOfFile \/ Rename
  <2>1. phase \in Sides \cup {"rename"} /\ phase' \in Sides \cup {"rename"} /\ status' = status
    BY <1>7 DEF Open, SkipOutside, Close, Count, EndOfFile, Rename, Reading, Renaming, Sides
  <2>2. status = -1 BY <2>1 DEF Judged, Sides
  <2> QED BY <2>1, <2>2 DEF Judged, Sides
<1>8. CASE Ended \/ UNCHANGED vars
  <2>1. UNCHANGED vars BY <1>8 DEF Ended
  <2>2. \A x : Passing(x)' = Passing(x) BY <2>1 DEF Passing, SameSignature, vars
  <2> QED BY <2>1, <2>2 DEF Judged, vars
<1> QED BY <1>3, <1>4, <1>5, <1>6, <1>7, <1>8 DEF Next

\* Sizes within a tolerance are comparable, each with itself too.
LEMMA Envelope ==
  ASSUME NEW a \in Nat, NEW b \in Nat, NEW tol \in Nat, Within(a, b, tol)
  PROVE  Comparable({a, b}, tol)
<1>1. (a = 0 <=> b = 0) /\ b <= tol * a /\ a <= tol * b BY DEF Within
<1>2. ASSUME NEW x \in Nat, tol >= 1 PROVE x <= tol * x
  <2>1. PICK u \in Nat : tol = u + 1
    <3>1. tol - 1 \in Nat /\ tol = (tol - 1) + 1 BY <1>2
    <3> QED BY <3>1
  <2>2. tol * x = u * x + x BY <2>1
  <2>3. u * x \in Nat
    OBVIOUS
  <2> QED BY <2>2, <2>3
<1>3. a <= tol * a /\ b <= tol * b
  <2>1. CASE tol = 0
    <3>1. tol * a = 0 /\ tol * b = 0 BY <2>1
    <3>2. a = 0 /\ b = 0 BY <1>1, <3>1
    <3> QED BY <3>1, <3>2
  <2>2. CASE tol >= 1 BY <1>2, <2>2
  <2> QED BY <2>1, <2>2
<1> QED BY <1>1, <1>3 DEF Comparable

-----------------------------------------------------------------------------
(* What the parser finds is what the file holds. *)

At(side, name) == IF fns[side][name] = NoFn THEN {} ELSE {fns[side][name].at}
\* The function at line i is found under its name, or a later one is.
Filed(side, i) ==
  /\ fns[side][input[side][i].symbol] # NoFn
  /\ i <= fns[side][input[side][i].symbol].at
\* The reader is outside of every function, or in one that starts outside of the
\* others; what it has found are functions.
Placed ==
  /\ phase \in Sides =>
       IF current = NoFn THEN Outside(phase, pos) ELSE Outside(phase, current.at)
  /\ \A side \in Sides, name \in Symbol :
       fns[side][name] # NoFn => IsFunction(side, fns[side][name].at)
\* Every function read is filed, but for the one being read.
AllFiled ==
  phase \in Sides =>
    \A i \in DOMAIN input[phase] :
      /\ i < pos /\ input[phase][i].is = "define" /\ Outside(phase, i)
      /\ current # NoFn => i # current.at
      => Filed(phase, i)
\* Until the renames start, a function is found under its own name.
OwnNames ==
  phase \in Sides =>
    \A name \in Symbol : fns["rust"][name] # NoFn =>
      input["rust"][fns["rust"][name].at].symbol = name
\* The C map is that of the C file.
ReadC == phase # "c" => \A name \in Symbol : At("c", name) = Defined("c", name)

(* What the first renames leave in the Rust map. *)
Touches(k, name) == name \in {input.renames[k].rust, input.renames[k].c}
Untouching(n) ==
  \A name \in Symbol :
    (\A k \in DOMAIN input.renames : k < n => ~Touches(k, name))
      => At("rust", name) = Defined("rust", name)
Applied(k) ==
  LET p == input.renames[k]
  IN IF Defined("rust", p.rust) = {}
     THEN At("rust", p.rust) = {} /\ At("rust", p.c) = Defined("rust", p.c)
     ELSE /\ At("rust", p.c) = Defined("rust", p.rust)
          /\ p.rust # p.c => At("rust", p.rust) = {}
Through(n) == Untouching(n) /\ \A k \in DOMAIN input.renames : k < n => Applied(k)
AllWellFormed == \A k \in DOMAIN input.renames : input.renames[k].wellFormed
Standing ==
  Apart =>
    /\ phase = "rename" => Through(pos)
    /\ phase \in {"compare", "done"} /\ AllWellFormed => Through(Len(input.renames) + 1)
\* Why a run fails.
Sentenced ==
  /\ phase = "rename" => \A k \in DOMAIN input.renames : k < pos => input.renames[k].wellFormed
  /\ phase = "compare" \/ status = 0 => AllWellFormed
  /\ phase \in Sides \cup {"rename"} => failing = {}
  /\ \A x \in failing : ~Passing(x) /\ \E k \in DOMAIN input.symbols : input.symbols[k] = x
  /\ status = 1 => ~AllWellFormed \/ failing # {}
  /\ status # -1 => phase = "done"

\* What is said of the files alone does not change.
LEMMA FilesStay ==
  ASSUME input' = input
  PROVE  /\ \A side, i, n : Closed(side, i, n)' = Closed(side, i, n)
         /\ \A side, i : Outside(side, i)' = Outside(side, i)
         /\ \A side, i : IsFunction(side, i)' = IsFunction(side, i)
         /\ \A side, name : Defined(side, name)' = Defined(side, name)
<1>1. \A side, i, n : Closed(side, i, n)' = Closed(side, i, n) BY DEF Closed
<1>2. \A side, i : Outside(side, i)' = Outside(side, i) BY <1>1 DEF Outside
<1>3. \A side, i : IsFunction(side, i)' = IsFunction(side, i) BY <1>1, <1>2 DEF IsFunction
<1>4. \A side, name : Functions(side, name)' = Functions(side, name) BY <1>3 DEF Functions
<1>5. \A side, name : Defined(side, name)' = Defined(side, name) BY <1>4 DEF Defined
<1> QED BY <1>1, <1>2, <1>3, <1>5

LEMMA ClosedLater ==
  ASSUME NEW side, NEW i \in Nat, NEW n \in Int, NEW m \in Int, n <= m, Closed(side, i, n)
  PROVE  Closed(side, i, m)
BY DEF Closed

\* The next line is outside too, unless a function starts at this one.
LEMMA OutsideNext ==
  ASSUME NEW side, NEW p \in Nat \ {0}, Outside(side, p), input[side][p].is # "define"
  PROVE  Outside(side, p + 1)
<1> SUFFICES ASSUME NEW j \in 1..p, input[side][j].is = "define" PROVE Closed(side, j, p)
  BY DEF Outside
<1>1. j \in 1..(p - 1) BY DEF Outside
<1>2. Closed(side, j, p - 1) BY <1>1 DEF Outside
<1> QED BY <1>2, ClosedLater

\* A "}" closes whatever is open.
LEMMA OutsideAfter ==
  ASSUME NEW side, NEW p \in Nat \ {0}, input[side][p].is = "close"
  PROVE  Outside(side, p + 1)
<1> SUFFICES ASSUME NEW j \in 1..p, input[side][j].is = "define" PROVE Closed(side, j, p)
  BY DEF Outside
<1>1. j # p
  OBVIOUS
<1> QED BY <1>1 DEF Closed

LEMMA InsideIsNotOutside ==
  ASSUME NEW side, NEW at \in Nat \ {0}, NEW p \in Nat, at < p, input[side][at].is = "define",
         \A j \in Between(at, p) : input[side][j].is # "close"
  PROVE  ~Outside(side, p)
BY DEF Outside, Closed, Between

\* The function being closed, and what closing it changes.
LEMMA ClosesHere ==
  ASSUME TypeOK, Reads, InFile, Close
  PROVE  /\ phase \in Sides /\ current # NoFn /\ current.at \in Nat \ {0} /\ current.at < pos
         /\ pos \in DOMAIN input[phase] /\ input[phase][pos].is = "close"
         /\ current.at \in DOMAIN input[phase] /\ input[phase][current.at].is = "define"
         /\ input' = input /\ phase' = phase /\ pos' = pos + 1 /\ current' = NoFn
         /\ input[phase][current.at].symbol \in Symbol
         /\ \A side \in Sides, name \in Symbol :
              fns'[side][name] = IF side = phase /\ name = input[phase][current.at].symbol
                                 THEN current ELSE fns[side][name]
<1>1. phase \in Sides /\ current \in FnInfo /\ current # NoFn /\ pos \in Nat \ {0} /\ pos <= Len(input[phase])
      /\ input' = input /\ phase' = phase /\ pos' = pos + 1 /\ current' = NoFn
      /\ input \in Inputs /\ input[phase][pos].is = "close"
  BY DEF Close, Reading, Here, TypeOK
<1>2. input[phase] \in Seq(Line) BY <1>1, InputType
<1>3. current.at < pos /\ current.at \in DOMAIN input[phase] /\ input[phase][current.at].is = "define"
  BY <1>1 DEF Reads
<1>4. input[phase][current.at].symbol \in Symbol
  <2>1. input[phase][current.at] \in Line BY <1>2, <1>3
  <2> QED BY <2>1 DEF Line
<1>5. \A side \in Sides, name \in Symbol :
        fns'[side][name] = IF side = phase /\ name = input[phase][current.at].symbol
                           THEN current ELSE fns[side][name]
  BY <1>1, <1>4 DEF Close, TypeOK
<1>6. current.at \in Nat \ {0} BY <1>1 DEF FnInfo
<1>7. pos \in DOMAIN input[phase] BY <1>1, <1>2
<1> QED BY <1>1, <1>3, <1>4, <1>5, <1>6, <1>7

LEMMA PlacedStep == IInv /\ Placed /\ [Next]_vars => Placed'
<1> SUFFICES ASSUME IInv, Placed, [Next]_vars PROVE Placed'
  OBVIOUS
<1>1. TypeOK /\ Reads /\ InFile /\ Order /\ pos \in Nat \ {0} /\ input \in Inputs
  BY DEF IInv, TypeOK
<1>2. input' = input BY InputKept
<1> DEFINE Reader == phase \in Sides =>
                       IF current = NoFn THEN Outside(phase, pos) ELSE Outside(phase, current.at)
           Found == \A side \in Sides, name \in Symbol :
                      fns[side][name] # NoFn => IsFunction(side, fns[side][name].at)
<1>3. Reader /\ Found BY DEF Placed
<1>4. (Reader /\ Found)' => Placed' BY DEF Placed
<1>5. CASE Open
  <2>1. phase' = phase /\ fns' = fns /\ phase \in Sides /\ current = NoFn /\ current'.at = pos
        /\ current' \in FnInfo
    BY <1>1, <1>5, OpenType DEF Open, Reading
  <2>2. current' # NoFn BY <2>1, NoFnOut
  <2>3. Outside(phase, pos) BY <1>3, <2>1
  <2> QED BY <1>2, <1>3, <1>4, <2>1, <2>2, <2>3, FilesStay
<1>6. CASE SkipOutside
  <2>1. phase' = phase /\ fns' = fns /\ phase \in Sides /\ current = NoFn /\ current' = NoFn
        /\ pos' = pos + 1 /\ input[phase][pos].is # "define"
    BY <1>6 DEF SkipOutside, Reading, Here
  <2>2. Outside(phase, pos + 1) BY <1>1, <1>3, <2>1, OutsideNext
  <2> QED BY <1>2, <1>3, <1>4, <2>1, <2>2, FilesStay
<1>7. CASE Count
  <2>1. phase' = phase /\ fns' = fns /\ current # NoFn BY <1>7 DEF Count
  <2>2. current \in FnInfo BY <1>1, <2>1 DEF TypeOK
  <2>3. current'.at = current.at /\ current' \in FnInfo
    <3>1. \/ current' = current \/ current' = [current EXCEPT !.blocks = @ + 1]
          \/ current' = [current EXCEPT !.instrs = @ + 1]
      BY <1>7 DEF Count
    <3>2. current' \in FnInfo BY <2>2, <3>1, Counted
    <3> QED BY <2>2, <3>1, <3>2 DEF FnInfo
  <2>4. current' # NoFn BY <2>3, NoFnOut
  <2> QED BY <1>2, <1>3, <1>4, <2>1, <2>3, <2>4, FilesStay
<1>8. CASE Close
  <2>1. PICK k : k = input[phase][current.at].symbol
    OBVIOUS
  <2>2. /\ phase \in Sides /\ current # NoFn /\ current.at \in Nat \ {0} /\ current.at < pos
        /\ pos \in DOMAIN input[phase] /\ input[phase][pos].is = "close"
        /\ current.at \in DOMAIN input[phase] /\ input[phase][current.at].is = "define"
        /\ phase' = phase /\ pos' = pos + 1 /\ current' = NoFn
        /\ \A side \in Sides, name \in Symbol :
             fns'[side][name] = IF side = phase /\ name = k THEN current ELSE fns[side][name]
    BY <1>1, <1>8, <2>1, ClosesHere
  <2>3. Outside(phase, pos + 1) BY <1>1, <2>2, OutsideAfter
  <2>4. IsFunction(phase, current.at)
    <3>1. Outside(phase, current.at) BY <1>3, <2>2
    <3>2. input[phase] \in Seq(Line) BY <1>1, <2>2, InputType
    <3>3. pos \in (current.at + 1)..Len(input[phase]) BY <1>1, <2>2, <3>2
    <3>4. Closed(phase, current.at, Len(input[phase])) BY <2>2, <3>3 DEF Closed
    <3> QED BY <2>2, <3>1, <3>4 DEF IsFunction
  <2>5. \A side \in Sides, name \in Symbol :
          fns'[side][name] # NoFn => IsFunction(side, fns'[side][name].at)
    BY <1>3, <2>2, <2>4
  <2> QED BY <1>2, <1>4, <2>2, <2>3, <2>5, FilesStay
<1>9. CASE EndOfFile
  <2>1. fns' = fns /\ pos' = 1 /\ current' = NoFn BY <1>9 DEF EndOfFile
  <2>2. \A side : Outside(side, 1) BY DEF Outside
  <2> QED BY <1>2, <1>3, <1>4, <2>1, <2>2, FilesStay
<1>10. CASE Rename
  <2>1. phase' \notin Sides /\ \A side \in Sides, m \in Symbol : fns'[side][m] # NoFn =>
          \E n \in Symbol : fns'[side][m] = fns[side][n]
    BY <1>1, <1>10, RenamesMove DEF Sides
  <2> QED BY <1>2, <1>3, <1>4, <2>1, FilesStay
<1>11. CASE RenameMalformed \/ EndOfRenames \/ Compare \/ Verdict
  <2>1. fns' = fns /\ phase' \notin Sides
    BY <1>11 DEF RenameMalformed, EndOfRenames, Compare, Verdict, Renaming, Sides
  <2> QED BY <1>2, <1>3, <1>4, <2>1, FilesStay
<1>12. CASE Ended \/ UNCHANGED vars
  <2>1. UNCHANGED vars BY <1>12 DEF Ended
  <2>2. fns' = fns /\ phase' = phase /\ pos' = pos /\ current' = current BY <2>1 DEF vars
  <2> QED BY <1>2, <1>3, <1>4, <2>2, FilesStay
<1> QED BY <1>5, <1>6, <1>7, <1>8, <1>9, <1>10, <1>11, <1>12 DEF Next

LEMMA AllFiledStep == IInv /\ Placed /\ AllFiled /\ [Next]_vars => AllFiled'
<1> SUFFICES ASSUME IInv, Placed, AllFiled, [Next]_vars PROVE AllFiled'
  OBVIOUS
<1>1. TypeOK /\ Reads /\ InFile /\ Order /\ pos \in Nat \ {0} /\ input \in Inputs
  BY DEF IInv, TypeOK
<1>2. input' = input BY InputKept
<1>3. CASE phase' \notin Sides BY <1>3 DEF AllFiled
<1>4. CASE phase' \in Sides /\ phase' # phase
  <2>1. pos' = 1
    BY <1>4 DEF Next, vars, Open, SkipOutside, Close, Count, EndOfFile, Rename, RenameMalformed,
                EndOfRenames, Compare, Verdict, Ended, Sides
  <2>2. \A i \in DOMAIN input[phase'] : i \in Nat \ {0}
    <3>1. input[phase'] \in Seq(Line) BY <1>1, <1>4, InputType
    <3> QED BY <3>1
  <2> QED BY <1>2, <2>1, <2>2 DEF AllFiled
<1>5. CASE phase' \in Sides /\ phase' = phase
  <2> SUFFICES ASSUME NEW i \in DOMAIN input[phase], i < pos', input[phase][i].is = "define",
                      Outside(phase, i), current' # NoFn => i # current'.at
               PROVE  /\ fns'[phase][input[phase][i].symbol] # NoFn
                      /\ i <= fns'[phase][input[phase][i].symbol].at
    BY <1>2, <1>5, FilesStay DEF AllFiled, Filed
  <2>1. i \in Nat \ {0} /\ input[phase][i].symbol \in Symbol
    <3>1. input[phase] \in Seq(Line) BY <1>1, <1>5, InputType
    <3>2. input[phase][i] \in Line BY <3>1
    <3> QED BY <3>1, <3>2 DEF Line
  <2>2. i < pos /\ (current # NoFn => i # current.at)
          => /\ fns[phase][input[phase][i].symbol] # NoFn
             /\ i <= fns[phase][input[phase][i].symbol].at
    BY <1>5 DEF AllFiled, Filed
  <2>3. CASE Open
    <3>1. fns' = fns /\ pos' = pos + 1 /\ current = NoFn /\ current'.at = pos /\ current' \in FnInfo
      BY <1>1, <2>3, OpenType DEF Open
    <3>2. i # pos BY <3>1, NoFnOut
    <3> QED BY <1>1, <2>1, <2>2, <3>1, <3>2
  <2>4. CASE SkipOutside
    <3>1. fns' = fns /\ pos' = pos + 1 /\ current = NoFn /\ input[phase][pos].is # "define"
      BY <2>4 DEF SkipOutside, Here
    <3> QED BY <1>1, <2>1, <2>2, <3>1
  <2>5. CASE Count
    <3>1. fns' = fns /\ pos' = pos + 1 /\ current # NoFn BY <2>5 DEF Count
    <3>2. current \in FnInfo BY <1>1, <3>1 DEF TypeOK
    <3>3. current'.at = current.at /\ current' \in FnInfo
      <4>1. \/ current' = current \/ current' = [current EXCEPT !.blocks = @ + 1]
            \/ current' = [current EXCEPT !.instrs = @ + 1]
        BY <2>5 DEF Count
      <4>2. current' \in FnInfo BY <3>2, <4>1, Counted
      <4> QED BY <3>2, <4>1, <4>2 DEF FnInfo
    <3>4. i # current.at BY <3>3, NoFnOut
    <3>5. ~Outside(phase, pos)
      <4>1. current.at \in Nat \ {0} BY <3>2 DEF FnInfo
      <4>2. current.at < pos /\ input[phase][current.at].is = "define"
            /\ \A j \in Between(current.at, pos) : input[phase][j].is # "close"
        BY <1>1, <3>1 DEF Reads
      <4> QED BY <1>1, <4>1, <4>2, InsideIsNotOutside
    <3>6. i # pos BY <3>5
    <3> QED BY <1>1, <2>1, <2>2, <3>1, <3>4, <3>6
  <2>6. CASE Close
    <3>1. PICK k : k = input[phase][current.at].symbol
      OBVIOUS
    <3>2. /\ current # NoFn /\ current.at \in Nat \ {0} /\ input[phase][pos].is = "close"
          /\ pos' = pos + 1
          /\ \A side \in Sides, name \in Symbol :
               fns'[side][name] = IF side = phase /\ name = k THEN current ELSE fns[side][name]
      BY <1>1, <2>6, <3>1, ClosesHere
    <3>3. i < pos BY <1>1, <2>1, <3>2
    <3>4. CASE i = current.at
      <4>1. fns'[phase][input[phase][i].symbol] = current BY <1>5, <2>1, <3>1, <3>2, <3>4
      <4> QED BY <2>1, <3>2, <3>4, <4>1
    <3>5. CASE i # current.at
      <4> DEFINE n == input[phase][i].symbol
      <4>1. fns[phase][n] # NoFn /\ i <= fns[phase][n].at BY <2>2, <3>3, <3>5
      <4>2. fns[phase][n].at < current.at BY <1>1, <1>5, <2>1, <3>2, <4>1 DEF Order
      <4>3. fns[phase][n].at \in Nat BY <1>1, <1>5, <2>1, <4>1 DEF TypeOK, FnInfo
      <4>4. i <= current.at BY <2>1, <3>2, <4>1, <4>2, <4>3
      <4>5. CASE n = k
        <5>1. fns'[phase][n] = current BY <1>5, <2>1, <3>2, <4>5
        <5> QED BY <3>2, <4>4, <5>1
      <4>6. CASE n # k
        <5>1. fns'[phase][n] = fns[phase][n] BY <1>5, <2>1, <3>2, <4>6
        <5> QED BY <4>1, <5>1
      <4> QED BY <4>5, <4>6
    <3> QED BY <3>4, <3>5
  <2>7. CASE EndOfFile \/ Rename \/ RenameMalformed \/ EndOfRenames \/ Compare \/ Verdict
    <3>1. phase' \notin Sides \/ phase' # phase
      BY <2>7 DEF EndOfFile, Rename, Renaming, RenameMalformed, EndOfRenames, Compare, Verdict, Sides
    <3> QED BY <1>5, <3>1
  <2>8. CASE Ended \/ UNCHANGED vars
    <3>1. UNCHANGED vars BY <2>8 DEF Ended
    <3>2. fns' = fns /\ pos' = pos /\ current' = current BY <3>1 DEF vars
    <3> QED BY <2>2, <3>2
  <2> QED BY <2>3, <2>4, <2>5, <2>6, <2>7, <2>8 DEF Next
<1> QED BY <1>3, <1>4, <1>5

LEMMA OwnNamesStep == IInv /\ OwnNames /\ [Next]_vars => OwnNames'
<1> SUFFICES ASSUME IInv, OwnNames, [Next]_vars, phase' \in Sides,
                    NEW name \in Symbol, fns'["rust"][name] # NoFn
             PROVE  input'["rust"][fns'["rust"][name].at].symbol = name
  BY DEF OwnNames
<1>1. TypeOK /\ Reads /\ InFile /\ "rust" \in Sides BY DEF IInv, Sides
<1>2. input' = input BY InputKept
<1>3. phase \in Sides
  BY DEF Next, vars, Open, SkipOutside, Close, Count, EndOfFile, Rename, Renaming,
         RenameMalformed, EndOfRenames, Compare, Verdict, Ended, Reading, Sides
<1>4. CASE Close
  <2>1. fns'["rust"][name] = IF "rust" = phase /\ name = input[phase][current.at].symbol
                             THEN current ELSE fns["rust"][name]
    BY <1>1, <1>4, ClosesHere
  <2> QED BY <1>2, <1>3, <2>1 DEF OwnNames
<1>5. CASE Rename BY <1>3, <1>5 DEF Rename, Renaming, Sides
<1>6. CASE ~Close /\ ~Rename
  <2>1. fns' = fns BY <1>6, Untouched
  <2> QED BY <1>2, <1>3, <2>1 DEF OwnNames
<1> QED BY <1>4, <1>5, <1>6

\* At the end of a file the map holds what the file defines.
LEMMA ReadWhole ==
  ASSUME IInv, Placed, AllFiled, phase \in Sides, pos > Len(input[phase]),
         \A name \in Symbol : fns[phase][name] # NoFn =>
           input[phase][fns[phase][name].at].symbol = name,
         NEW name \in Symbol
  PROVE  At(phase, name) = Defined(phase, name)
<1>1. input[phase] \in Seq(Line) BY InputType DEF IInv, TypeOK
<1>2. \A i \in DOMAIN input[phase] : i \in Nat \ {0} /\ i <= Len(input[phase]) BY <1>1
<1>3. pos \in Nat /\ Len(input[phase]) \in Nat BY <1>1 DEF IInv, TypeOK
<1>4. ASSUME NEW i \in Functions(phase, name)
      PROVE  fns[phase][name] # NoFn /\ i <= fns[phase][name].at
  <2>1. /\ i \in DOMAIN input[phase] /\ input[phase][i].is = "define" /\ input[phase][i].symbol = name
        /\ Outside(phase, i) /\ Closed(phase, i, Len(input[phase]))
    BY <1>4 DEF Functions, IsFunction
  <2>2. current # NoFn => i # current.at
    <3> SUFFICES ASSUME current # NoFn, i = current.at PROVE FALSE
      OBVIOUS
    <3>1. \A j \in Between(i, pos) : input[phase][j].is # "close" BY DEF IInv, Reads
    <3> QED BY <1>3, <2>1, <3>1 DEF Closed, Between
  <2>3. i < pos BY <1>2, <1>3, <2>1
  <2> QED BY <2>1, <2>2, <2>3 DEF AllFiled, Filed
<1>5. CASE fns[phase][name] = NoFn
  <2>1. Functions(phase, name) = {} BY <1>4, <1>5
  <2> QED BY <1>5, <2>1 DEF At, Defined
<1>6. CASE fns[phase][name] # NoFn
  <2>1. PICK at : at = fns[phase][name].at
    OBVIOUS
  <2>2. at \in Functions(phase, name)
    <3>1. IsFunction(phase, at) BY <1>6, <2>1 DEF Placed
    <3> QED BY <1>6, <2>1, <3>1 DEF Functions, IsFunction
  <2>3. \A i \in Functions(phase, name) : i <= at BY <1>4, <2>1
  <2>4. \A i \in Functions(phase, name) : i \in Nat BY <1>2 DEF Functions
  <2>5. Defined(phase, name) = {at} BY <2>2, <2>3, <2>4 DEF Defined
  <2> QED BY <1>6, <2>1, <2>5 DEF At
<1> QED BY <1>5, <1>6

LEMMA ReadCStep == IInv /\ Placed /\ AllFiled /\ Named /\ ReadC /\ [Next]_vars => ReadC'
<1> SUFFICES ASSUME IInv, Placed, AllFiled, Named, ReadC, [Next]_vars, phase' # "c",
                    NEW name \in Symbol
             PROVE  At("c", name)' = Defined("c", name)'
  BY DEF ReadC
<1>1. TypeOK /\ Reads /\ InFile /\ "c" \in Sides BY DEF IInv, Sides
<1>2. input' = input BY InputKept
<1>3. CASE phase = "c"
  <2>1. EndOfFile
    BY <1>3 DEF Next, vars, Open, SkipOutside, Close, Count, EndOfFile, Rename, Renaming,
                RenameMalformed, EndOfRenames, Compare, Verdict, Ended
  <2>2. fns' = fns /\ pos > Len(input[phase]) BY <2>1 DEF EndOfFile
  <2>3. At("c", name) = Defined("c", name)
    <3>1. \A n \in Symbol : fns["c"][n] # NoFn => input["c"][fns["c"][n].at].symbol = n BY DEF Named
    <3> QED BY <1>1, <1>3, <2>2, <3>1, ReadWhole
  <2> QED BY <1>2, <2>2, <2>3, FilesStay DEF At
<1>4. CASE phase # "c"
  <2>1. fns'["c"][name] = fns["c"][name]
    <3>1. CASE Close
      <4>1. fns'["c"][name] = IF "c" = phase /\ name = input[phase][current.at].symbol
                              THEN current ELSE fns["c"][name]
        BY <1>1, <3>1, ClosesHere
      <4> QED BY <1>4, <4>1
    <3>2. CASE Rename BY <1>1, <3>2, RenamesMove
    <3>3. CASE ~Close /\ ~Rename BY <3>3, Untouched
    <3> QED BY <3>1, <3>2, <3>3
  <2>2. At("c", name) = Defined("c", name) BY <1>4 DEF ReadC
  <2> QED BY <1>2, <2>1, <2>2, FilesStay DEF At
<1> QED BY <1>3, <1>4

LEMMA RenamesType ==
  ASSUME TypeOK
  PROVE  /\ input.renames \in Seq(Pair)
         /\ \A k \in DOMAIN input.renames :
              /\ input.renames[k].rust \in Symbol /\ input.renames[k].c \in Symbol
              /\ k \in Nat \ {0} /\ k <= Len(input.renames)
<1>1. input.renames \in Seq(Pair) BY InputType DEF TypeOK, Invocation
<1>2. \A k \in DOMAIN input.renames : input.renames[k] \in Pair /\ k \in Nat \ {0} /\ k <= Len(input.renames)
  BY <1>1
<1> QED BY <1>1, <1>2 DEF Pair

\* What is said of the renames so far follows the Rust map and nothing else.
LEMMA ThroughStays ==
  ASSUME input' = input, \A name \in Symbol : fns'["rust"][name] = fns["rust"][name], TypeOK
  PROVE  \A n : Through(n) => Through(n)'
<1> SUFFICES ASSUME NEW n, Through(n) PROVE Through(n)'
  OBVIOUS
<1>1. \A name \in Symbol : At("rust", name)' = At("rust", name) BY DEF At
<1>2. \A name : Defined("rust", name)' = Defined("rust", name) BY FilesStay
<1>3. \A k \in DOMAIN input.renames : input.renames[k].rust \in Symbol /\ input.renames[k].c \in Symbol
  BY RenamesType
<1>4. Untouching(n)' BY <1>1, <1>2 DEF Through, Untouching, Touches
<1>5. ASSUME NEW k \in DOMAIN input.renames, k < n PROVE Applied(k)'
  <2>1. PICK r, c : r = input.renames[k].rust /\ c = input.renames[k].c
    OBVIOUS
  <2>2. r \in Symbol /\ c \in Symbol BY <1>3, <2>1
  <2>3. IF Defined("rust", r) = {}
        THEN At("rust", r) = {} /\ At("rust", c) = Defined("rust", c)
        ELSE At("rust", c) = Defined("rust", r) /\ (r # c => At("rust", r) = {})
    BY <1>5, <2>1 DEF Through, Applied
  <2>4. IF Defined("rust", r)' = {}
        THEN At("rust", r)' = {} /\ At("rust", c)' = Defined("rust", c)'
        ELSE At("rust", c)' = Defined("rust", r)' /\ (r # c => At("rust", r)' = {})
    BY <1>1, <1>2, <2>2, <2>3
  <2>5. input'.renames[k].rust = r /\ input'.renames[k].c = c BY <2>1
  <2> QED BY <2>4, <2>5 DEF Applied
<1> QED BY <1>4, <1>5 DEF Through

\* One more rename, which touches no function of the earlier ones.
LEMMA OneMoreApplied ==
  ASSUME TypeOK, Apart, Rename, NEW n \in Nat, n = pos, Through(n)
  PROVE  Through(n + 1)'
<1>1. /\ input' = input /\ n \in Nat \ {0} /\ n \in DOMAIN input.renames
      /\ "rust" \in Sides /\ fns \in [Sides -> [Symbol -> FnInfo \cup {NoFn}]]
  BY RenamesType, InputKept DEF Rename, Renaming, TypeOK, Sides
<1>2. PICK r, c : r = Asked.rust /\ c = Asked.c
  OBVIOUS
<1>3. r = input.renames[n].rust /\ c = input.renames[n].c /\ r \in Symbol /\ c \in Symbol
  BY <1>1, <1>2, RenamesType DEF Asked
<1>4. \A k \in DOMAIN input.renames : k < n => k # n /\ k \in Nat BY <1>1, RenamesType
<1>5. ASSUME NEW k \in DOMAIN input.renames, k < n
      PROVE  ~Touches(k, r) /\ ~Touches(k, c)
  <2>1. {input.renames[k].rust, input.renames[k].c} \cap {r, c} = {}
    BY <1>1, <1>3, <1>4, <1>5 DEF Apart
  <2> QED BY <2>1 DEF Touches
<1>6. At("rust", r) = Defined("rust", r) /\ At("rust", c) = Defined("rust", c)
  BY <1>3, <1>5 DEF Through, Untouching
<1>7. \A name \in Symbol :
        fns'["rust"][name] = IF fns["rust"][r] = NoFn THEN fns["rust"][name]
                             ELSE IF name = c THEN fns["rust"][r]
                             ELSE IF name = r THEN NoFn ELSE fns["rust"][name]
  <2>1. CASE fns["rust"][r] = NoFn
    <3>1. fns' = fns BY <1>2, <2>1 DEF Rename
    <3> QED BY <2>1, <3>1
  <2>2. CASE fns["rust"][r] # NoFn
    <3> DEFINE g == [name \in Symbol |-> IF name = c THEN fns["rust"][r]
                                        ELSE IF name = r THEN NoFn ELSE fns["rust"][name]]
    <3>1. fns' = [fns EXCEPT !["rust"] = g] BY <1>2, <2>2 DEF Rename
    <3>2. fns'["rust"] = g BY <1>1, <3>1
    <3> QED BY <2>2, <3>2
  <2> QED BY <2>1, <2>2
<1> DEFINE A(name) == At("rust", name)
           D(name) == Defined("rust", name)
<1>8. \A name \in Symbol :
        A(name)' = IF A(r) = {} THEN A(name)
                   ELSE IF name = c THEN A(r) ELSE IF name = r THEN {} ELSE A(name)
  BY <1>7 DEF At
<1>9. \A name : D(name)' = D(name) BY <1>1, FilesStay
<1> HIDE DEF A, D
<1>10. \A name \in Symbol : name \notin {r, c} => A(name)' = A(name) BY <1>8
<1>11. Applied(n)'
  <2>1. A(r) = D(r) /\ A(c) = D(c) BY <1>6 DEF A, D
  <2>2. IF D(r)' = {} THEN A(r)' = {} /\ A(c)' = D(c)'
        ELSE A(c)' = D(r)' /\ (r # c => A(r)' = {})
    <3>1. CASE D(r) = {} BY <1>3, <1>8, <1>9, <2>1, <3>1
    <3>2. CASE D(r) # {} BY <1>3, <1>8, <1>9, <2>1, <3>2
    <3> QED BY <3>1, <3>2
  <2>3. input'.renames[n].rust = r /\ input'.renames[n].c = c BY <1>1, <1>3
  <2> QED BY <2>2, <2>3 DEF Applied, A, D
<1>12. ASSUME NEW k \in DOMAIN input.renames, k < n PROVE Applied(k)'
  <2>1. PICK rk, ck : rk = input.renames[k].rust /\ ck = input.renames[k].c
    OBVIOUS
  <2>2. rk \in Symbol /\ ck \in Symbol BY <2>1, RenamesType
  <2>3. rk \notin {r, c} /\ ck \notin {r, c} BY <1>5, <1>12, <2>1 DEF Touches
  <2>4. IF D(rk) = {} THEN A(rk) = {} /\ A(ck) = D(ck)
        ELSE A(ck) = D(rk) /\ (rk # ck => A(rk) = {})
    BY <1>12, <2>1 DEF Through, Applied, A, D
  <2>5. A(rk)' = A(rk) /\ A(ck)' = A(ck) BY <1>10, <2>2, <2>3
  <2>6. IF D(rk)' = {} THEN A(rk)' = {} /\ A(ck)' = D(ck)'
        ELSE A(ck)' = D(rk)' /\ (rk # ck => A(rk)' = {})
    BY <1>9, <2>4, <2>5
  <2>7. input'.renames[k].rust = rk /\ input'.renames[k].c = ck BY <1>1, <2>1
  <2> QED BY <2>6, <2>7 DEF Applied, A, D
<1>13. Untouching(n + 1)'
  <2> SUFFICES ASSUME NEW name \in Symbol,
                      \A k \in DOMAIN input.renames : k < n + 1 => ~Touches(k, name)
               PROVE  A(name)' = D(name)'
    BY <1>1 DEF Untouching, Touches, A, D
  <2>1. \A k \in DOMAIN input.renames : k < n => k < n + 1 BY <1>4
  <2>2. A(name) = D(name) BY <2>1 DEF Through, Untouching, A, D
  <2>3. name \notin {r, c}
    <3>1. ~Touches(n, name) BY <1>1
    <3> QED BY <1>3, <3>1 DEF Touches
  <2> QED BY <1>9, <1>10, <2>2, <2>3
<1>14. \A k \in DOMAIN input.renames : k < n + 1 => k < n \/ k = n BY <1>4, RenamesType
<1>15. \A k \in DOMAIN input.renames : k < n + 1 => Applied(k)' BY <1>11, <1>12, <1>14
<1> QED BY <1>1, <1>13, <1>15 DEF Through

\* Nothing renamed yet: what the Rust map holds is what the file defines.
LEMMA NoneApplied ==
  ASSUME TypeOK, \A name \in Symbol : At("rust", name) = Defined("rust", name)
  PROVE  Through(1)
BY RenamesType DEF Through, Untouching

\* All renames done.
LEMMA AllApplied ==
  ASSUME TypeOK, NEW n \in Nat, n > Len(input.renames), Through(n)
  PROVE  Through(Len(input.renames) + 1)
<1>1. Len(input.renames) \in Nat BY RenamesType
<1>2. \A k \in DOMAIN input.renames : k < n /\ k < Len(input.renames) + 1 BY <1>1, RenamesType
<1> QED BY <1>2 DEF Through, Untouching

LEMMA StandingStep ==
  IInv /\ Placed /\ AllFiled /\ OwnNames /\ Standing /\ [Next]_vars => Standing'
<1> SUFFICES ASSUME IInv, Placed, AllFiled, OwnNames, Standing, [Next]_vars, Apart
             PROVE  Standing'
  BY InputKept DEF Standing, Apart
<1>1. TypeOK /\ pos \in Nat \ {0} /\ input \in Inputs BY DEF IInv, TypeOK
<1>2. input' = input BY InputKept
<1>3. PICK m : m = Len(input.renames) + 1
  OBVIOUS
<1>4. m = Len(input'.renames) + 1 BY <1>2, <1>3
<1> DEFINE Goal == /\ phase = "rename" => \A n : n = pos => Through(n)
                   /\ phase \in {"compare", "done"} /\ AllWellFormed => Through(m)
<1>5. Goal' => Standing'
  <2> SUFFICES ASSUME Goal' PROVE Standing'
    OBVIOUS
  <2>1. phase' = "rename" => Through(pos)'
    <3>1. PICK n : n = pos'
      OBVIOUS
    <3>2. phase' = "rename" => Through(n)' BY <3>1
    <3> QED BY <3>1, <3>2
  <2>2. phase' \in {"compare", "done"} /\ AllWellFormed' => Through(Len(input.renames) + 1)' BY <1>4
  <2> QED BY <2>1, <2>2 DEF Standing
<1>6. /\ phase = "rename" => Through(pos)
      /\ phase \in {"compare", "done"} /\ AllWellFormed => Through(m)
  BY <1>3 DEF Standing
<1>7. AllWellFormed' <=> AllWellFormed BY <1>2 DEF AllWellFormed
<1>8. CASE phase' \notin {"rename", "compare", "done"} BY <1>5, <1>8
<1>9. CASE EndOfFile /\ phase' = "rename"
  <2>1. phase = "rust" /\ pos > Len(input[phase]) /\ pos' = 1 /\ fns' = fns /\ phase \in Sides
    BY <1>9 DEF EndOfFile, Sides
  <2>2. \A name \in Symbol : At("rust", name) = Defined("rust", name)
    <3>1. \A name \in Symbol : fns["rust"][name] # NoFn =>
            input["rust"][fns["rust"][name].at].symbol = name
      BY <2>1 DEF OwnNames
    <3> QED BY <2>1, <3>1, ReadWhole
  <2>3. Through(1) BY <1>1, <2>2, NoneApplied
  <2>4. Through(1)' BY <1>1, <1>2, <2>1, <2>3, ThroughStays
  <2> QED BY <1>5, <1>9, <2>1, <2>4
<1>10. CASE Rename
  <2>1. phase = "rename" /\ phase' = phase /\ pos' = pos + 1 BY <1>10 DEF Rename, Renaming
  <2>2. PICK n : n = pos
    OBVIOUS
  <2>3. n \in Nat /\ Through(n) BY <1>1, <1>6, <2>1, <2>2
  <2>4. Through(n + 1)' BY <1>1, <1>10, <2>2, <2>3, OneMoreApplied
  <2> QED BY <1>5, <2>1, <2>2, <2>4
<1>11. CASE RenameMalformed
  <2>1. ~AllWellFormed
    <3>1. pos \in DOMAIN input.renames /\ ~input.renames[pos].wellFormed
      BY <1>1, <1>11, RenamesType DEF RenameMalformed, Renaming, Asked
    <3> QED BY <3>1 DEF AllWellFormed
  <2>2. phase' = "done" BY <1>11 DEF RenameMalformed
  <2> QED BY <1>5, <1>7, <2>1, <2>2
<1>12. CASE EndOfRenames
  <2>1. phase = "rename" /\ phase' = "compare" /\ fns' = fns /\ pos > Len(input.renames)
    BY <1>12 DEF EndOfRenames
  <2>2. Through(m)
    <3>1. PICK n : n = pos
      OBVIOUS
    <3> QED BY <1>1, <1>3, <1>6, <2>1, <3>1, AllApplied
  <2>3. Through(m)' BY <1>1, <1>2, <2>1, <2>2, ThroughStays
  <2> QED BY <1>5, <2>1, <2>3
<1>13. CASE Compare \/ Verdict
  <2>1. fns' = fns /\ phase = "compare" /\ phase' \in {"compare", "done"} BY <1>13 DEF Compare, Verdict
  <2>2. AllWellFormed => Through(m)' BY <1>1, <1>2, <1>6, <2>1, ThroughStays
  <2> QED BY <1>5, <1>7, <2>1, <2>2
<1>14. CASE Ended \/ UNCHANGED vars
  <2>1. UNCHANGED vars BY <1>14 DEF Ended
  <2>2. fns' = fns /\ phase' = phase /\ pos' = pos BY <2>1 DEF vars
  <2>3. \A n : Through(n) => Through(n)' BY <1>1, <1>2, <2>2, ThroughStays
  <2>4. phase' = "rename" => \A n : n = pos' => Through(n)' BY <1>6, <2>2, <2>3
  <2>5. phase' \in {"compare", "done"} /\ AllWellFormed' => Through(m)' BY <1>6, <1>7, <2>2, <2>3
  <2> QED BY <1>5, <2>4, <2>5
<1>15. CASE Open \/ SkipOutside \/ Close \/ Count \/ (EndOfFile /\ phase' # "rename")
  <2>1. phase' \notin {"rename", "compare", "done"}
    BY <1>15 DEF Open, SkipOutside, Close, Count, EndOfFile, Reading, Sides
  <2> QED BY <1>8, <2>1
<1> QED BY <1>9, <1>10, <1>11, <1>12, <1>13, <1>14, <1>15 DEF Next

LEMMA SentencedStep == IInv /\ Judged /\ Sentenced /\ [Next]_vars => Sentenced'
<1> SUFFICES ASSUME IInv, Judged, Sentenced, [Next]_vars PROVE Sentenced'
  OBVIOUS
<1>1. TypeOK /\ pos \in Nat \ {0} /\ input \in Inputs BY DEF IInv, TypeOK
<1>2. input' = input BY InputKept
<1>3. AllWellFormed' <=> AllWellFormed BY <1>2 DEF AllWellFormed
<1>4. CASE fns' = fns /\ failing' = failing /\ status' = status
           /\ phase \in Sides /\ phase' \in Sides \cup {"rename"} /\ (phase' = "rename" => pos' = 1)
  <2>1. failing = {} /\ status = -1 BY <1>4 DEF Sentenced, Judged, Sides
  <2>2. \A k \in DOMAIN input.renames : ~(k < 1) BY <1>1, RenamesType
  <2> QED BY <1>2, <1>4, <2>1, <2>2 DEF Sentenced, Sides
<1>5. CASE Open \/ SkipOutside \/ Count \/ EndOfFile
  <2>1. fns' = fns /\ failing' = failing /\ status' = status
        /\ phase \in Sides /\ phase' \in Sides \cup {"rename"} /\ (phase' = "rename" => pos' = 1)
    BY <1>5 DEF Open, SkipOutside, Count, EndOfFile, Reading, Sides
  <2> QED BY <1>4, <2>1
<1>6. CASE Close
  <2>1. failing' = failing /\ status' = status /\ phase \in Sides /\ phase' = phase
    BY <1>6 DEF Close, Reading
  <2>2. failing = {} /\ status = -1 BY <2>1 DEF Sentenced, Judged, Sides
  <2> QED BY <1>2, <2>1, <2>2 DEF Sentenced, Sides
<1>7. CASE Rename
  <2>1. /\ phase = "rename" /\ phase' = phase /\ pos' = pos + 1 /\ failing' = failing /\ status' = status
        /\ Asked.wellFormed
    BY <1>7 DEF Rename, Renaming
  <2>2. failing = {} /\ status = -1 BY <2>1 DEF Sentenced, Judged
  <2>3. \A k \in DOMAIN input.renames : k < pos + 1 => input.renames[k].wellFormed
    <3>1. \A k \in DOMAIN input.renames : k < pos + 1 => k < pos \/ k = pos BY <1>1, RenamesType
    <3> QED BY <2>1, <3>1 DEF Sentenced, Asked
  <2> QED BY <1>2, <2>1, <2>2, <2>3 DEF Sentenced
<1>8. CASE RenameMalformed
  <2>1. phase = "rename" /\ phase' = "done" /\ failing' = failing /\ status' = 1 BY <1>8 DEF RenameMalformed, Renaming
  <2>2. failing = {} BY <2>1 DEF Sentenced
  <2>3. ~AllWellFormed
    <3>1. pos \in DOMAIN input.renames /\ ~input.renames[pos].wellFormed
      BY <1>1, <1>8, RenamesType DEF RenameMalformed, Renaming, Asked
    <3> QED BY <3>1 DEF AllWellFormed
  <2> QED BY <1>3, <2>1, <2>2, <2>3 DEF Sentenced, Sides
<1>9. CASE EndOfRenames
  <2>1. phase = "rename" /\ phase' = "compare" /\ failing' = failing /\ status' = status
        /\ pos > Len(input.renames)
    BY <1>9 DEF EndOfRenames
  <2>2. failing = {} /\ status = -1 BY <2>1 DEF Sentenced, Judged
  <2>3. AllWellFormed
    <3>1. \A k \in DOMAIN input.renames : k < pos BY <1>1, <2>1, RenamesType
    <3> QED BY <2>1, <3>1 DEF Sentenced, AllWellFormed
  <2> QED BY <1>3, <2>1, <2>2, <2>3 DEF Sentenced, Sides
<1>10. CASE Compare
  <2>1. /\ phase = "compare" /\ phase' = phase /\ fns' = fns /\ status' = status
        /\ failing' = IF Passing(input.symbols[pos]) THEN failing ELSE failing \cup {input.symbols[pos]}
        /\ pos <= Len(input.symbols)
    BY <1>10 DEF Compare
  <2>2. \A x : Passing(x)' = Passing(x) BY <2>1 DEF Passing, SameSignature
  <2>3. pos \in DOMAIN input.symbols
    <3>1. input.symbols \in Seq(Symbol) BY <1>1, InputType DEF Invocation
    <3> QED BY <1>1, <2>1, <3>1
  <2>4. \A x \in failing' : ~Passing(x) /\ \E k \in DOMAIN input.symbols : input.symbols[k] = x
    BY <2>1, <2>3 DEF Sentenced
  <2>5. status = -1 /\ AllWellFormed BY <2>1 DEF Sentenced, Judged
  <2> QED BY <1>2, <1>3, <2>1, <2>2, <2>4, <2>5 DEF Sentenced, Sides
<1>11. CASE Verdict
  <2>1. /\ phase = "compare" /\ phase' = "done" /\ fns' = fns /\ failing' = failing
        /\ status' = IF failing = {} THEN 0 ELSE 1
    BY <1>11 DEF Verdict
  <2>2. \A x : Passing(x)' = Passing(x) BY <2>1 DEF Passing, SameSignature
  <2>3. AllWellFormed /\ \A x \in failing : ~Passing(x) /\ \E k \in DOMAIN input.symbols : input.symbols[k] = x
    BY <2>1 DEF Sentenced
  <2> QED BY <1>2, <1>3, <2>1, <2>2, <2>3 DEF Sentenced, Sides
<1>12. CASE Ended \/ UNCHANGED vars
  <2>1. UNCHANGED vars BY <1>12 DEF Ended
  <2>2. fns' = fns /\ phase' = phase /\ pos' = pos /\ failing' = failing /\ status' = status BY <2>1 DEF vars
  <2>3. \A x : Passing(x)' = Passing(x) BY <2>2 DEF Passing, SameSignature
  <2> QED BY <1>2, <1>3, <2>2, <2>3 DEF Sentenced
<1> QED BY <1>5, <1>6, <1>7, <1>8, <1>9, <1>10, <1>11, <1>12 DEF Next

\* Under the tolerances, sizes are within the envelope exactly when comparable.
LEMMA EnvelopeIs ==
  ASSUME NEW a \in Nat, NEW b \in Nat, NEW tol \in Nat
  PROVE  Within(a, b, tol) <=> Comparable({a, b}, tol)
<1>1. ASSUME Comparable({a, b}, tol) PROVE Within(a, b, tol)
  <2>1. a <= tol * b /\ b <= tol * a BY <1>1 DEF Comparable
  <2>2. (a = 0 => tol * a = 0) /\ (b = 0 => tol * b = 0)
    OBVIOUS
  <2>3. a = 0 <=> b = 0 BY <2>1, <2>2
  <2> QED BY <2>1, <2>3 DEF Within
<1> QED BY <1>1, Envelope

\* The report of a symbol says of the two functions found what their lines say.
LEMMA PassingIs ==
  ASSUME IInv, Signatures, NEW s \in Symbol, fns["c"][s] # NoFn, fns["rust"][s] # NoFn
  PROVE  Passing(s) <=> Agree(fns["c"][s].at, fns["rust"][s].at)
<1>1. "c" \in Sides /\ "rust" \in Sides BY DEF Sides
<1>2. PICK f, g : f = fns["c"][s] /\ g = fns["rust"][s]
  OBVIOUS
<1>3. f # NoFn /\ g # NoFn BY <1>2
<1>4. f \in FnInfo /\ g \in FnInfo BY <1>1, <1>2, <1>3 DEF IInv, TypeOK
<1>5. Signed("c", f) /\ Signed("rust", g) BY <1>1, <1>2, <1>3 DEF Signatures
<1>6. /\ f.blocks = 1 + Cardinality(Labels("c", f.at)) /\ f.instrs = Cardinality(Texts("c", f.at))
      /\ g.blocks = 1 + Cardinality(Labels("rust", g.at)) /\ g.instrs = Cardinality(Texts("rust", g.at))
  BY <1>1, <1>2, <1>3 DEF IInv, SizesAreOfTheBody
<1>7. f.blocks \in Nat /\ g.blocks \in Nat /\ f.instrs \in Nat /\ g.instrs \in Nat
  BY <1>4 DEF FnInfo
<1>8. /\ Within(f.blocks, g.blocks, BlockTol) <=> Comparable({f.blocks, g.blocks}, BlockTol)
      /\ Within(f.instrs, g.instrs, InstrTol) <=> Comparable({f.instrs, g.instrs}, InstrTol)
  BY <1>7, EnvelopeIs, IrAssumption
<1>9. PICK x, y : x = input["c"][f.at] /\ y = input["rust"][g.at]
  OBVIOUS
<1>10. x.args \in Seq(Argument) /\ y.args \in Seq(Argument)
  <2>1. input["c"] \in Seq(Line) /\ input["rust"] \in Seq(Line) BY <1>1, InputType DEF IInv, TypeOK
  <2>2. x \in Line /\ y \in Line BY <1>5, <1>9, <2>1 DEF Signed
  <2> QED BY <2>2 DEF Line
<1>10a. x.ret[Len(x.ret)] \in Word /\ y.ret[Len(y.ret)] \in Word
  <2>1. input["c"] \in Seq(Line) /\ input["rust"] \in Seq(Line) BY <1>1, InputType DEF IInv, TypeOK
  <2>2. x \in Line /\ y \in Line BY <1>5, <1>9, <2>1 DEF Signed
  <2>3. x.ret \in Seq(Word) /\ y.ret \in Seq(Word) BY <2>2 DEF Line
  <2>4. x.ret # <<>> /\ y.ret # <<>> BY <1>1, <1>5, <1>9, InputType DEF Signed, IInv, TypeOK
  <2> QED BY <2>3, <2>4
<1>11. /\ f.args = [i \in DOMAIN x.args |-> Normal(x.args[i])] /\ f.ret = Captured(x.ret)
       /\ g.args = [i \in DOMAIN y.args |-> Normal(y.args[i])] /\ g.ret = Captured(y.ret)
  BY <1>5, <1>9 DEF Signed
<1>12. f.args = g.args <=> /\ Len(x.args) = Len(y.args)
                           /\ \A i \in DOMAIN x.args : Normal(x.args[i]) = Normal(y.args[i])
  <2>1. PICK h, l, u, v : h = f.args /\ l = g.args /\ u = x.args /\ v = y.args
    OBVIOUS
  <2>2. h = [i \in DOMAIN u |-> Normal(u[i])] /\ l = [i \in DOMAIN v |-> Normal(v[i])]
        /\ u \in Seq(Argument) /\ v \in Seq(Argument)
    BY <1>10, <1>11, <2>1
  <2>3. /\ DOMAIN h = DOMAIN u /\ DOMAIN l = DOMAIN v
        /\ \A i \in DOMAIN u : h[i] = Normal(u[i])
        /\ \A i \in DOMAIN v : l[i] = Normal(v[i])
    BY <2>2
  <2>4. Len(u) = Len(v) <=> DOMAIN u = DOMAIN v BY <2>2
  <2>5. ASSUME h = l PROVE Len(u) = Len(v) /\ \A i \in DOMAIN u : Normal(u[i]) = Normal(v[i])
    <3>1. DOMAIN u = DOMAIN v BY <2>3, <2>5
    <3> QED BY <2>3, <2>4, <2>5, <3>1
  <2>6. ASSUME Len(u) = Len(v), \A i \in DOMAIN u : Normal(u[i]) = Normal(v[i]) PROVE h = l
    <3>1. DOMAIN u = DOMAIN v BY <2>4, <2>6
    <3>2. [i \in DOMAIN u |-> Normal(u[i])] = [i \in DOMAIN v |-> Normal(v[i])] BY <2>6, <3>1
    <3> QED BY <2>2, <3>2
  <2> QED BY <2>1, <2>5, <2>6
<1>13. f.ret = g.ret <=> Alike(x.ret[Len(x.ret)], y.ret[Len(y.ret)])
  <2>1. x.ret[Len(x.ret)] \in Word /\ y.ret[Len(y.ret)] \in Word
    BY <1>10a
  <2> QED BY <1>11, <2>1, ErasedIs DEF Captured
<1>13a. ASSUME Len(x.args) = Len(y.args)
        PROVE  (\A i \in DOMAIN x.args : Normal(x.args[i]) = Normal(y.args[i]))
                 <=> \A i \in DOMAIN x.args, n \in 1..2 : Alike(x.args[i][n], y.args[i][n])
  <2>1. ASSUME NEW i \in DOMAIN x.args
        PROVE  Normal(x.args[i]) = Normal(y.args[i])
                 <=> \A n \in 1..2 : Alike(x.args[i][n], y.args[i][n])
    <3>1. x.args[i] \in Word \X Word /\ y.args[i] \in Word \X Word
      BY <1>10, <1>13a, <2>1 DEF Argument
    <3>2. PICK a, b : a = x.args[i] /\ b = y.args[i]
      OBVIOUS
    <3>3. /\ Erased(a[1]) = Erased(b[1]) <=> Alike(a[1], b[1])
          /\ Erased(a[2]) = Erased(b[2]) <=> Alike(a[2], b[2])
      BY <3>1, <3>2, ErasedIs
    <3>4. Normal(a) = Normal(b) <=> Erased(a[1]) = Erased(b[1]) /\ Erased(a[2]) = Erased(b[2])
      BY DEF Normal
    <3>5. (\A n \in 1..2 : Alike(a[n], b[n])) <=> Alike(a[1], b[1]) /\ Alike(a[2], b[2])
      <4>1. 1..2 = {1, 2} OBVIOUS
      <4> QED BY <4>1, Zenon
    <3> QED BY <3>2, <3>3, <3>4, <3>5
  <2> QED BY <2>1
<1>14. Passing(s) <=> /\ f.args = g.args /\ f.ret = g.ret
                      /\ Within(f.blocks, g.blocks, BlockTol)
                      /\ Within(f.instrs, g.instrs, InstrTol)
  BY <1>2, <1>3 DEF Passing, SameSignature
<1>15. Agree(f.at, g.at) <=> /\ f.args = g.args /\ f.ret = g.ret
                             /\ Comparable({f.blocks, g.blocks}, BlockTol)
                             /\ Comparable({f.instrs, g.instrs}, InstrTol)
  BY <1>6, <1>9, <1>12, <1>13, <1>13a, Zenon DEF Agree
<1> QED BY <1>2, <1>8, <1>14, <1>15
-----------------------------------------------------------------------------
\* With renames that do not touch one another, the Rust map ends up as the
\* reference says.
LEMMA StandsFor ==
  ASSUME TypeOK, Apart, Through(Len(input.renames) + 1), NEW s \in Symbol
  PROVE  At("rust", s) = Stands(s)
<1> DEFINE from == {p \in Effective : p.c = s}
           away == {p \in Effective : p.rust = s /\ p.c # s}
           K == DOMAIN input.renames
           D(name) == Defined("rust", name)
<1>1. Stands(s) = IF from # {} THEN UNION {D(p.rust) : p \in from} ELSE IF away # {} THEN {} ELSE D(s)
  BY DEF Stands
<1>2. \A k \in K : k < Len(input.renames) + 1
  <2>1. Len(input.renames) \in Nat BY RenamesType
  <2> QED BY <2>1, RenamesType
<1>3. \A p : p \in Effective <=> \E k \in K : p = input.renames[k] /\ D(p.rust) # {}
  BY DEF Effective, Renames
<1>4. \A k \in K : Applied(k) BY <1>2 DEF Through
<1>5. CASE \A k \in K : ~Touches(k, s)
  <2>1. At("rust", s) = D(s) BY <1>5 DEF Through, Untouching
  <2>2. from = {} /\ away = {} BY <1>3, <1>5 DEF Touches
  <2> QED BY <1>1, <2>1, <2>2
<1>6. ASSUME NEW k \in K, Touches(k, s) PROVE At("rust", s) = Stands(s)
  <2>1. PICK p : p = input.renames[k]
    OBVIOUS
  <2>2. \A q \in Effective : q.c = s \/ q.rust = s => q = p
    <3> SUFFICES ASSUME NEW q \in Effective, q.c = s \/ q.rust = s PROVE q = p
      OBVIOUS
    <3>1. PICK j \in K : q = input.renames[j] BY <1>3
    <3>2. s \in {input.renames[j].rust, input.renames[j].c} \cap {input.renames[k].rust, input.renames[k].c}
      BY <1>6, <3>1 DEF Touches
    <3>3. j = k BY <3>2 DEF Apart
    <3> QED BY <2>1, <3>1, <3>3
  <2>3. p \in Effective <=> D(p.rust) # {} BY <1>3, <2>1, <2>2, <1>6 DEF Touches
  <2>4. s = p.rust \/ s = p.c BY <1>6, <2>1 DEF Touches
  <2>5. IF D(p.rust) = {} THEN At("rust", p.rust) = {} /\ At("rust", p.c) = D(p.c)
        ELSE At("rust", p.c) = D(p.rust) /\ (p.rust # p.c => At("rust", p.rust) = {})
    BY <1>4, <2>1 DEF Applied
  <2>6. CASE D(p.rust) = {}
    <3>1. p \notin Effective BY <2>3, <2>6
    <3>2. from = {} /\ away = {} BY <2>2, <3>1
    <3>3. Stands(s) = D(s) BY <1>1, <3>2
    <3>4. CASE s = p.rust BY <2>5, <2>6, <3>3, <3>4
    <3>5. CASE s = p.c BY <2>5, <2>6, <3>3, <3>5
    <3> QED BY <2>4, <3>4, <3>5
  <2>7. CASE D(p.rust) # {}
    <3>1. p \in Effective BY <2>3, <2>7
    <3>2. CASE s = p.c
      <4>1. from = {p} BY <2>2, <3>1, <3>2
      <4>2. UNION {D(q.rust) : q \in from} = D(p.rust) BY <4>1
      <4>3. Stands(s) = D(p.rust) BY <1>1, <4>1, <4>2
      <4> QED BY <2>5, <2>7, <3>2, <4>3
    <3>3. CASE s = p.rust /\ s # p.c
      <4>1. from = {} BY <2>2, <3>3
      <4>2. p \in away BY <3>1, <3>3
      <4>3. Stands(s) = {} BY <1>1, <4>1, <4>2
      <4> QED BY <2>5, <2>7, <3>3, <4>3
    <3> QED BY <2>4, <3>2, <3>3
  <2> QED BY <2>6, <2>7
<1> QED BY <1>5, <1>6

(* The whole of what holds, step by step. *)
Kept ==
  /\ IInv /\ Signatures /\ Named /\ Judged
  /\ Placed /\ AllFiled /\ OwnNames /\ ReadC /\ Standing /\ Sentenced

LEMMA KeptAlways == Spec => []Kept
<1>1. Init => Kept
  <2> SUFFICES ASSUME Init PROVE Kept
    OBVIOUS
  <2>1. \A side \in Sides, name \in Symbol : fns[side][name] = NoFn BY DEF Init
  <2>2. current = NoFn /\ status = -1 /\ phase = "c" /\ pos = 1 /\ failing = {} /\ input \in Inputs
    BY DEF Init
  <2>3. IInv BY Start
  <2>4. Signatures /\ Named /\ OwnNames /\ Judged /\ Standing /\ ReadC
    BY <2>1, <2>2 DEF Signatures, Named, OwnNames, Judged, Standing, ReadC, Sides
  <2>5. Placed BY <2>1, <2>2 DEF Placed, Outside
  <2>6. AllFiled
    <3>1. input["c"] \in Seq(Line) BY <2>2, InputType DEF Sides
    <3>2. \A i \in DOMAIN input["c"] : ~(i < 1) BY <3>1
    <3> QED BY <2>2, <3>2 DEF AllFiled
  <2>7. Sentenced BY <2>2 DEF Sentenced
  <2> QED BY <2>3, <2>4, <2>5, <2>6, <2>7 DEF Kept
<1>2. Kept /\ [Next]_vars => Kept'
  <2> SUFFICES ASSUME Kept, [Next]_vars PROVE Kept'
    OBVIOUS
  <2>1. IInv' /\ Signatures' /\ Named' BY Step, SignaturesStep DEF Kept
  <2>2. Judged' BY JudgedStep DEF Kept, IInv
  <2>3. Placed' /\ AllFiled' /\ OwnNames' /\ ReadC'
    BY PlacedStep, AllFiledStep, OwnNamesStep, ReadCStep DEF Kept
  <2>4. Standing' BY StandingStep DEF Kept
  <2>5. Sentenced' BY SentencedStep DEF Kept
  <2> QED BY <2>1, <2>2, <2>3, <2>4, <2>5 DEF Kept
<1> QED BY <1>1, <1>2, PTL DEF Spec

LEMMA SymbolsType ==
  ASSUME TypeOK, NEW k \in DOMAIN input.symbols
  PROVE  input.symbols[k] \in Symbol
<1>1. input.symbols \in Seq(Symbol) BY InputType DEF TypeOK, Invocation
<1> QED BY <1>1

\* For any files and any renames, an exit status of 0 of llvm_ir_equiv.py is backed
\* by the files' own text for every symbol.
THEOREM Backed == Spec => []PassesOnlyTheAlike
<1>1. Kept => PassesOnlyTheAlike
  <2> SUFFICES ASSUME Kept, status = 0, NEW k \in DOMAIN input.symbols
      PROVE  LET s == input.symbols[k]
                 i == fns["c"][s].at
                 j == fns["rust"][s].at
             IN i \in Defined("c", s) /\ IsFunction("rust", j) /\ Agree(i, j)
    BY DEF PassesOnlyTheAlike
  <2>1. PICK s : s = input.symbols[k]
    OBVIOUS
  <2>2. s \in Symbol BY <2>1, SymbolsType DEF Kept, IInv
  <2>3. Passing(s) /\ phase = "done" BY <2>1 DEF Kept, Judged
  <2>4. fns["c"][s] # NoFn /\ fns["rust"][s] # NoFn BY <2>3 DEF Passing
  <2>5. fns["c"][s].at \in Defined("c", s)
    <3>1. At("c", s) = Defined("c", s) BY <2>2, <2>3 DEF Kept, ReadC
    <3> QED BY <2>4, <3>1 DEF At
  <2>6. IsFunction("rust", fns["rust"][s].at) BY <2>2, <2>4 DEF Kept, Placed, Sides
  <2>7. Agree(fns["c"][s].at, fns["rust"][s].at) BY <2>2, <2>3, <2>4, PassingIs DEF Kept
  <2> QED BY <2>1, <2>5, <2>6, <2>7
<1> QED BY <1>1, KeptAlways, PTL

\* For any files, and any renames that do not touch one another, the exit status of
\* llvm_ir_equiv.py is 0 exactly when the text of the two files says so.
THEOREM Exact == Spec => []VerdictIsExact
<1>1. Kept => VerdictIsExact
  <2> SUFFICES ASSUME Kept, status # -1, Apart
      PROVE  status = 0 <=>
               /\ \A p \in Renames : p.wellFormed
               /\ \A k \in DOMAIN input.symbols :
                    LET s == input.symbols[k]
                    IN /\ Defined("c", s) # {} /\ Stands(s) # {}
                       /\ \A i \in Defined("c", s), j \in Stands(s) : Agree(i, j)
    BY DEF VerdictIsExact
  <2> DEFINE Holds(s) == /\ Defined("c", s) # {} /\ Stands(s) # {}
                         /\ \A i \in Defined("c", s), j \in Stands(s) : Agree(i, j)
  <2>1. TypeOK /\ phase = "done" BY DEF Kept, IInv, Sentenced
  <2>2. AllWellFormed <=> \A p \in Renames : p.wellFormed BY DEF AllWellFormed, Renames
  <2>3. ASSUME AllWellFormed, NEW s \in Symbol PROVE Passing(s) <=> Holds(s)
    <3>1. At("c", s) = Defined("c", s) BY <2>1 DEF Kept, ReadC
    <3>2. At("rust", s) = Stands(s)
      <4>1. Through(Len(input.renames) + 1) BY <2>1, <2>3 DEF Kept, Standing
      <4> QED BY <2>1, <4>1, StandsFor
    <3>3. CASE fns["c"][s] = NoFn \/ fns["rust"][s] = NoFn
      <4>1. ~Passing(s) BY <3>3 DEF Passing
      <4>2. Defined("c", s) = {} \/ Stands(s) = {} BY <3>1, <3>2, <3>3 DEF At
      <4> QED BY <4>1, <4>2
    <3>4. CASE fns["c"][s] # NoFn /\ fns["rust"][s] # NoFn
      <4>1. PICK i, j : i = fns["c"][s].at /\ j = fns["rust"][s].at
        OBVIOUS
      <4>2. Defined("c", s) = {i} /\ Stands(s) = {j} BY <3>1, <3>2, <3>4, <4>1 DEF At
      <4>3. Passing(s) <=> Agree(i, j) BY <3>4, <4>1, PassingIs DEF Kept
      <4> QED BY <4>2, <4>3
    <3> QED BY <3>3, <3>4
  <2> HIDE DEF Holds
  <2>4. ASSUME status = 0
        PROVE  AllWellFormed /\ \A k \in DOMAIN input.symbols : Holds(input.symbols[k])
    <3>1. AllWellFormed /\ \A k \in DOMAIN input.symbols : Passing(input.symbols[k])
      BY <2>4 DEF Kept, Judged, Sentenced
    <3> QED BY <2>1, <2>3, <3>1, SymbolsType
  <2>5. ASSUME status # 0
        PROVE  ~(AllWellFormed /\ \A k \in DOMAIN input.symbols : Holds(input.symbols[k]))
    <3>1. status = 1 BY <2>1, <2>5 DEF TypeOK
    <3>2. ~AllWellFormed \/ \E k \in DOMAIN input.symbols : ~Passing(input.symbols[k])
      BY <3>1 DEF Kept, Sentenced
    <3> QED BY <2>1, <2>3, <3>2, SymbolsType
  <2> QED BY <2>2, <2>4, <2>5 DEF Holds
<1> QED BY <1>1, KeptAlways, PTL
=============================================================================
