------------------------- MODULE RustBindingsProofs -------------------------
(***************************************************************************)
(* What the policy guarantees for every pair of C bindings and overrides:  *)
(* the table it writes is the one asked for, and it fails on exactly the   *)
(* inputs that ask for two.                                                *)
(***************************************************************************)
EXTENDS RustBindings, TLAPS

\* What the places the loops have passed ask for.
Before(place) == {p \in Places : p[1] < place[1] \/ (p[1] = place[1] /\ p[2] < place[2])}
Passed(place) == RenamesAt(Before(place))
Graph(f) == {<<k, f[k]>> : k \in DOMAIN f}

WellFormed == \A n \in 1..5 : Len(Tables[n]) \in Nat /\ DOMAIN Tables[n] = 1..Len(Tables[n])

\* Within the loops the bindings are what the places passed ask for, and as they
\* are a function, these do not contradict one another.
Loops ==
  /\ at \in Nat \X Nat /\ at[1] \in 1..6 /\ at[2] >= 1
  /\ at[1] <= 5 => at[2] <= Len(Tables[at[1]]) + 1
  /\ bindPhase = "parse" => at = <<1, 1>> /\ out = <<>>
  /\ bindPhase = "derive" => Graph(out) = Passed(at) /\ ~HasRepeatedKey

IInv ==
  /\ WellFormed
  /\ bindPhase \in {"parse", "derive", "done", "exit"}
  /\ Loops
  /\ Graph(out) \subseteq Renames
  /\ TableIsExact
  /\ FailsOnlyWhenAmbiguous
-----------------------------------------------------------------------------
LEMMA FiveTables == Len(Tables) = 5 /\ DOMAIN Tables = 1..5
BY DEF Tables

LEMMA InRenamesAt ==
  ASSUME NEW places, NEW r
  PROVE  r \in RenamesAt(places) <=>
           \E p \in places : Used(p[1], Pair(p[1], p[2])) /\ r = Rename(p[1], Pair(p[1], p[2]))
BY DEF RenamesAt

LEMMA InPlaces ==
  ASSUME WellFormed, NEW n, NEW i
  PROVE  <<n, i>> \in Places <=> n \in 1..5 /\ i \in 1..Len(Tables[n])
<1>1. Places = UNION {{<<m, j>> : j \in 1..Len(Tables[m])} : m \in 1..5}
  BY FiveTables DEF Places, WellFormed
<1> QED BY <1>1

LEMMA PlacesArePairs ==
  ASSUME WellFormed, NEW p \in Places
  PROVE  p = <<p[1], p[2]>> /\ p[1] \in 1..5 /\ p[2] \in 1..Len(Tables[p[1]]) /\ p[2] \in Nat
BY FiveTables DEF Places, WellFormed

\* A rename is a pair.
LEMMA RenameIsPair ==
  ASSUME NEW n, NEW p
  PROVE  Rename(n, p) = <<Rename(n, p)[1], Rename(n, p)[2]>>
BY DEF Rename

\* The inputs do not change, nor does what is said of them alone.
LEMMA InputsFixed ==
  ASSUME UNCHANGED <<c, o>>
  PROVE  /\ Tables' = Tables /\ WellFormed' = WellFormed /\ HasRepeatedKey' = HasRepeatedKey
         /\ Renames' = Renames /\ Ambiguous' = Ambiguous
         /\ \A place : Passed(place)' = Passed(place)
<1>1. Tables' = Tables
  BY DEF Tables
<1>2. WellFormed' = WellFormed /\ HasRepeatedKey' = HasRepeatedKey /\ Places' = Places
  BY <1>1 DEF WellFormed, HasRepeatedKey, Places
<1>3. \A n, p : Used(n, p)' = Used(n, p)
  BY DEF Used, Listed
<1>4. \A n, p : Rename(n, p)' = Rename(n, p)
  BY DEF Rename, RustIdent, TypeToRust
<1>5. \A n, i : Pair(n, i)' = Pair(n, i)
  BY <1>1 DEF Pair
<1>6. \A places : RenamesAt(places)' = RenamesAt(places)
  BY <1>3, <1>4, <1>5 DEF RenamesAt
<1>7. Renames' = Renames
  BY <1>2, <1>6 DEF Renames
<1>8. \A place : Before(place)' = Before(place)
  BY <1>2 DEF Before
<1>9. \A place : Passed(place)' = Passed(place)
  BY <1>6, <1>8 DEF Passed
<1> QED BY <1>1, <1>2, <1>7, <1>9 DEF Ambiguous
-----------------------------------------------------------------------------
LEMMA NothingPassed == WellFormed => Passed(<<1, 1>>) = {}
<1> SUFFICES ASSUME WellFormed PROVE Before(<<1, 1>>) = {}
  BY DEF Passed, RenamesAt
<1> QED BY PlacesArePairs DEF Before

LEMMA AllPassed ==
  ASSUME WellFormed, NEW place \in Nat \X Nat, place[1] > 5
  PROVE  Passed(place) = Renames
<1>1. Before(place) = Places
  BY PlacesArePairs DEF Before
<1> QED BY <1>1 DEF Passed, Renames

LEMMA TablePassed ==
  ASSUME WellFormed, NEW place \in Nat \X Nat, place[1] \in 1..5,
         place[2] > Len(Tables[place[1]])
  PROVE  Passed(<<place[1] + 1, 1>>) = Passed(place)
<1>1. ASSUME NEW p \in Places
      PROVE  p \in Before(<<place[1] + 1, 1>>) <=> p \in Before(place)
  BY <1>1, PlacesArePairs DEF Before, WellFormed
<1>2. Before(<<place[1] + 1, 1>>) = Before(place)
  BY <1>1 DEF Before
<1> QED BY <1>2 DEF Passed

LEMMA PairPassed ==
  ASSUME WellFormed, NEW place \in Nat \X Nat, place[1] \in 1..5,
         place[2] \in 1..Len(Tables[place[1]])
  PROVE  LET p == Pair(place[1], place[2])
         IN /\ Used(place[1], p) =>
                 /\ Passed(<<place[1], place[2] + 1>>) = Passed(place) \cup {Rename(place[1], p)}
                 /\ Rename(place[1], p) \in Renames
            /\ ~Used(place[1], p) => Passed(<<place[1], place[2] + 1>>) = Passed(place)
<1>1. place = <<place[1], place[2]>> /\ place \in Places
  BY InPlaces
<1>2. ASSUME NEW q \in Places
      PROVE  q \in Before(<<place[1], place[2] + 1>>) <=> q \in Before(place) \/ q = place
  BY <1>1, <1>2, PlacesArePairs DEF Before
<1>3. Before(<<place[1], place[2] + 1>>) = Before(place) \cup {place}
  BY <1>1, <1>2 DEF Before
<1>4. Passed(<<place[1], place[2] + 1>>) = Passed(place) \cup RenamesAt({place})
  BY <1>3, InRenamesAt DEF Passed
<1>5. RenamesAt({place}) =
        IF Used(place[1], Pair(place[1], place[2])) THEN {Rename(place[1], Pair(place[1], place[2]))} ELSE {}
  <2>1. {q \in {place} : Used(q[1], Pair(q[1], q[2]))} =
          IF Used(place[1], Pair(place[1], place[2])) THEN {place} ELSE {}
    OBVIOUS
  <2> QED BY <2>1 DEF RenamesAt
<1>6. Used(place[1], Pair(place[1], place[2])) => Rename(place[1], Pair(place[1], place[2])) \in Renames
  BY <1>1, InRenamesAt DEF Renames
<1> QED BY <1>4, <1>5, <1>6

\* set_binding, when the name is free or has that value, adds one pair.
LEMMA BindAdds ==
  ASSUME NEW k, NEW v, ~(k \in DOMAIN out /\ out[k] # v)
  PROVE  Graph(Bind(k, v)) = Graph(out) \cup {<<k, v>>}
BY DEF Graph, Bind
-----------------------------------------------------------------------------
LEMMA InitInv == PolicyInit => IInv
<1> SUFFICES ASSUME PolicyInit PROVE IInv
  OBVIOUS
<1>1. WellFormed
  <2>1. \A n \in 1..5 : Tables[n] \in Seq(Range(Tables[n]))
    BY FiveTables DEF PolicyInit
  <2> QED BY <2>1 DEF WellFormed
<1>2. Graph(out) = {}
  BY DEF PolicyInit, Graph
<1>3. Loops
  BY <1>1 DEF PolicyInit, Loops, WellFormed
<1> QED BY <1>1, <1>2, <1>3 DEF PolicyInit, IInv, TableIsExact, FailsOnlyWhenAmbiguous

\* What is said of the inputs alone survives every step.
LEMMA InputsStay == PolicyNext => UNCHANGED <<c, o>>
BY DEF PolicyNext, Parse, NextTable, PassOver, SetBinding, Finish, PolicyEnded, policyVars

LEMMA ParseInv == IInv /\ Parse => IInv'
<1> SUFFICES ASSUME IInv, Parse PROVE IInv'
  OBVIOUS
<1>1. /\ UNCHANGED <<c, o, at, out>> /\ bindPhase = "parse" /\ WellFormed /\ WellFormed'
      /\ HasRepeatedKey' = HasRepeatedKey /\ Renames' = Renames /\ Ambiguous' = Ambiguous
  BY InputsFixed DEF Parse, IInv
<1>2. Graph(out)' = {} /\ Passed(at)' = {}
  <2>1. Graph(out)' = {}
    BY <1>1 DEF IInv, Loops, Graph
  <2>2. at' = <<1, 1>> /\ Passed(<<1, 1>>) = {} /\ (\A place : Passed(place)' = Passed(place))
    BY <1>1, NothingPassed, InputsFixed DEF IInv, Loops
  <2> QED BY <2>1, <2>2
<1>3. Loops'
  <2>1. Tables' = Tables
    BY <1>1, InputsFixed
  <2> QED BY <1>1, <1>2, <2>1 DEF IInv, Loops, Parse
<1>4. TableIsExact' /\ FailsOnlyWhenAmbiguous'
  BY <1>1 DEF Parse, TableIsExact, FailsOnlyWhenAmbiguous, Ambiguous
<1> QED BY <1>1, <1>2, <1>3, <1>4 DEF IInv, Parse

\* Moving to the next table changes neither the bindings nor what was passed.
LEMMA NextTableInv == IInv /\ NextTable => IInv'
<1> SUFFICES ASSUME IInv, NextTable PROVE IInv'
  OBVIOUS
<1>1. /\ UNCHANGED <<c, o, bindPhase, out>> /\ bindPhase = "derive" /\ WellFormed /\ WellFormed'
      /\ HasRepeatedKey' = HasRepeatedKey /\ Renames' = Renames /\ Tables' = Tables
  BY InputsFixed DEF NextTable, IInv
<1>2. at' = <<at[1] + 1, 1>> /\ at \in Nat \X Nat /\ at[1] \in 1..5 /\ at[2] > Len(Tables[at[1]])
  BY FiveTables DEF NextTable, IInv, Loops
<1>3. Passed(at)' = Passed(at)
  <2>1. Passed(<<at[1] + 1, 1>>) = Passed(at)
    BY <1>1, <1>2, TablePassed
  <2>2. \A place : Passed(place)' = Passed(place)
    BY <1>1, InputsFixed
  <2> QED BY <1>2, <2>1, <2>2
<1>4. Graph(out)' = Graph(out)
  BY <1>1 DEF Graph
<1>5. Loops'
  BY <1>1, <1>2, <1>3, <1>4 DEF IInv, Loops, WellFormed
<1> QED BY <1>1, <1>4, <1>5 DEF IInv, TableIsExact, FailsOnlyWhenAmbiguous

LEMMA PassOverInv == IInv /\ PassOver => IInv'
<1> SUFFICES ASSUME IInv, PassOver PROVE IInv'
  OBVIOUS
<1>1. /\ UNCHANGED <<c, o, bindPhase, out>> /\ bindPhase = "derive" /\ WellFormed /\ WellFormed'
      /\ HasRepeatedKey' = HasRepeatedKey /\ Renames' = Renames /\ Tables' = Tables
  BY InputsFixed DEF PassOver, InTable, IInv
<1>2. /\ at' = <<at[1], at[2] + 1>> /\ at \in Nat \X Nat /\ at[1] \in 1..5
      /\ at[2] \in 1..Len(Tables[at[1]]) /\ ~Used(at[1], Pair(at[1], at[2]))
  BY FiveTables DEF PassOver, InTable, NextPair, This, IInv, Loops, WellFormed
<1>3. Passed(at)' = Passed(at)
  <2>1. Passed(<<at[1], at[2] + 1>>) = Passed(at)
    BY <1>1, <1>2, PairPassed
  <2>2. \A place : Passed(place)' = Passed(place)
    BY <1>1, InputsFixed
  <2> QED BY <1>2, <2>1, <2>2
<1>4. Graph(out)' = Graph(out)
  BY <1>1 DEF Graph
<1>5. Loops'
  BY <1>1, <1>2, <1>3, <1>4 DEF IInv, Loops, WellFormed
<1> QED BY <1>1, <1>4, <1>5 DEF IInv, TableIsExact, FailsOnlyWhenAmbiguous
\* A pair that is used either contradicts what an earlier one asked for, and the
\* tool fails, or adds its rename.
LEMMA SetBindingInv == IInv /\ SetBinding => IInv'
<1> SUFFICES ASSUME IInv, SetBinding PROVE IInv'
  OBVIOUS
<1> DEFINE r == Rename(at[1], Pair(at[1], at[2]))
<1>1. /\ UNCHANGED <<c, o>> /\ bindPhase = "derive" /\ WellFormed /\ WellFormed'
      /\ HasRepeatedKey' = HasRepeatedKey /\ Renames' = Renames /\ Tables' = Tables
      /\ Ambiguous' = Ambiguous
  BY InputsFixed DEF SetBinding, InTable, IInv
<1>2. /\ at \in Nat \X Nat /\ at[1] \in 1..5 /\ at[2] \in 1..Len(Tables[at[1]])
      /\ Used(at[1], Pair(at[1], at[2]))
  BY FiveTables DEF SetBinding, InTable, This, IInv, Loops, WellFormed
<1>3. /\ Passed(<<at[1], at[2] + 1>>) = Passed(at) \cup {r}
      /\ r \in Renames /\ r = <<r[1], r[2]>>
  BY <1>1, <1>2, PairPassed, RenameIsPair
<1>4. CASE r[1] \in DOMAIN out /\ out[r[1]] # r[2]
  <2>1. bindPhase' = "exit" /\ UNCHANGED <<at, out>>
    BY <1>4 DEF SetBinding, This
  <2>2. <<r[1], out[r[1]]>> \in Renames
    BY <1>4 DEF IInv, Graph
  <2>3. Ambiguous
    <3>1. <<r[1], out[r[1]]>>[1] = r[1] /\ <<r[1], out[r[1]]>>[2] # r[2]
      BY <1>4
    <3> HIDE DEF r
    <3> QED BY <1>3, <2>2, <3>1 DEF Ambiguous
  <2>4. Graph(out)' = Graph(out)
    BY <2>1 DEF Graph
  <2> QED BY <1>1, <2>1, <2>3, <2>4 DEF IInv, Loops, TableIsExact, FailsOnlyWhenAmbiguous
<1>5. CASE ~(r[1] \in DOMAIN out /\ out[r[1]] # r[2])
  <2>1. out' = Bind(r[1], r[2]) /\ at' = <<at[1], at[2] + 1>> /\ bindPhase' = bindPhase
    BY <1>5 DEF SetBinding, This, NextPair
  <2>2. Graph(out)' = Graph(out) \cup {r}
    <3>1. Graph(Bind(r[1], r[2])) = Graph(out) \cup {<<r[1], r[2]>>}
      BY <1>5, BindAdds
    <3>2. Graph(out') = Graph(out)'
      BY DEF Graph
    <3> HIDE DEF r
    <3> QED BY <1>3, <2>1, <3>1, <3>2
  <2>3. Passed(at)' = Passed(at) \cup {r}
    <3>1. \A place : Passed(place)' = Passed(place)
      BY <1>1, InputsFixed
    <3> HIDE DEF r
    <3> QED BY <1>3, <2>1, <3>1
  <2>4. Graph(out)' = Passed(at)' /\ Graph(out)' \subseteq Renames'
    BY <1>1, <1>3, <2>2, <2>3 DEF IInv, Loops
  <2>5. Loops'
    BY <1>1, <1>2, <2>1, <2>4 DEF IInv, Loops, WellFormed
  <2> QED BY <1>1, <2>1, <2>4, <2>5 DEF IInv, TableIsExact, FailsOnlyWhenAmbiguous
<1> QED BY <1>4, <1>5

\* At the end everything has been passed, and a function cannot be ambiguous.
LEMMA FinishInv == IInv /\ Finish => IInv'
<1> SUFFICES ASSUME IInv, Finish PROVE IInv'
  OBVIOUS
<1>1. /\ UNCHANGED <<c, o, at>> /\ bindPhase = "derive" /\ bindPhase' = "done" /\ WellFormed
      /\ WellFormed' /\ HasRepeatedKey' = HasRepeatedKey /\ Renames' = Renames
      /\ Tables' = Tables /\ Ambiguous' = Ambiguous /\ ~HasRepeatedKey
  BY InputsFixed DEF Finish, IInv, Loops
<1>2. Graph(out) = Renames
  <2>1. at \in Nat \X Nat /\ at[1] > 5
    BY FiveTables DEF Finish, IInv, Loops
  <2> QED BY <1>1, <2>1, AllPassed DEF IInv, Loops
<1>3. \A k : k \in DOMAIN out' <=> k \in DOMAIN out /\ out[k] # k
  BY DEF Finish, Restrict
<1>4. \A k \in DOMAIN out' : out'[k] = out[k]
  BY <1>3 DEF Finish, Restrict
<1>5. Graph(out)' = {r \in Renames : r[1] # r[2]}
  BY <1>2, <1>3, <1>4 DEF Graph
<1>6. ~Ambiguous
  <2>1. \A r, s \in Graph(out) : r[1] = s[1] => r[2] = s[2]
    BY DEF Graph
  <2> QED BY <1>1, <1>2, <2>1 DEF Ambiguous
<1>7. TableIsExact'
  BY <1>1, <1>5 DEF TableIsExact, Graph
<1>8. Loops'
  BY <1>1 DEF IInv, Loops
<1> QED BY <1>1, <1>5, <1>6, <1>7, <1>8 DEF IInv, FailsOnlyWhenAmbiguous

LEMMA NextInv == IInv /\ [PolicyNext]_policyVars => IInv'
<1> SUFFICES ASSUME IInv, [PolicyNext]_policyVars PROVE IInv'
  OBVIOUS
<1>1. ASSUME UNCHANGED policyVars PROVE IInv'
  <2>1. /\ UNCHANGED <<c, o, bindPhase, at, out>> /\ Graph(out)' = Graph(out)
        /\ WellFormed' = WellFormed /\ HasRepeatedKey' = HasRepeatedKey /\ Renames' = Renames
        /\ Tables' = Tables /\ Ambiguous' = Ambiguous
    BY <1>1, InputsFixed DEF policyVars, Graph
  <2>2. Passed(at)' = Passed(at)
    BY <2>1, InputsFixed
  <2> QED BY <2>1, <2>2 DEF IInv, Loops, TableIsExact, FailsOnlyWhenAmbiguous
<1> QED BY <1>1, ParseInv, NextTableInv, PassOverInv, SetBindingInv, FinishInv DEF PolicyNext, PolicyEnded

LEMMA Invariant == PolicySpec => []IInv
BY InitInv, NextInv, PTL DEF PolicySpec

LEMMA PolicyTyped == IInv => PolicyTypeOK
<1> SUFFICES ASSUME IInv PROVE PolicyTypeOK
  OBVIOUS
<1>1. at \in Nat \X Nat /\ at[1] \in 1..(Len(Tables) + 1)
  BY FiveTables DEF IInv, Loops
<1>2. at[1] <= Len(Tables) => at[2] \in 1..(Len(Tables[at[1]]) + 1)
  BY <1>1, FiveTables DEF IInv, Loops, WellFormed
<1>3. \A k \in DOMAIN out : <<k, out[k]>> \in Renames
  BY DEF IInv, Graph
<1> QED BY <1>1, <1>2, <1>3 DEF IInv, PolicyTypeOK
-----------------------------------------------------------------------------
\* The loops stay inside the tables, and no binding is made up (derive_rust_bindings).
THEOREM Typing == PolicySpec => []PolicyTypeOK
BY PolicyTyped, Invariant, PTL

\* For every two inputs, rust_bindings.toml holds exactly the renames they ask for
\* (derive_rust_bindings, set_binding).
THEOREM Exact == PolicySpec => []TableIsExact
<1>1. IInv => TableIsExact
  BY DEF IInv
<1> QED BY <1>1, Invariant, PTL

\* Every ambiguous policy fails, and no other (set_binding's SystemExit).
THEOREM Loud == PolicySpec => []FailsOnlyWhenAmbiguous
<1>1. IInv => FailsOnlyWhenAmbiguous
  BY DEF IInv
<1> QED BY <1>1, Invariant, PTL
=============================================================================
