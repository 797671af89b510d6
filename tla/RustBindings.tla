---------------------------- MODULE RustBindings ----------------------------
(***************************************************************************)
(* rules/c/cli/c_to_rust_bindings.py: C bindings and a cluster's overrides *)
(* become the bindings of Rust names the translator applies.               *)
(*                                                                         *)
(* A C identifier is <<style, word>>: the spelling rules look at nothing   *)
(* else.  A qualified type is [base, deco, fn]: its base type, a pair too,  *)
(* its decoration, and whether it holds a "(".  A Rust name is a pair as   *)
(* well, the same one exactly when the spelling is: what a type becomes    *)
(* may be what an identifier becomes, and both are keys of one table.      *)
(***************************************************************************)
EXTENDS Integers, Sequences, Functions

CONSTANTS
  Inputs,      \* pairs of C bindings and overrides, see CBindings
  Primitive,   \* _PRIMITIVE_TYPE_RENAMES: the Rust name of <<"prim", w>>
  Pascal       \* Pascal[w]: of <<"pg", w>>, its parts capitalized and joined

Ident == STRING \X STRING
QualType == [base : STRING \X STRING, deco : STRING, fn : BOOLEAN]
Listing(Name) == [canonical : Seq(Name), sibling : Seq(Name)]
\* The TOML tables, in file order; a function has no key twice.
CBindings ==
  [idents : Seq(Ident \X Ident), types : Seq(QualType \X QualType),
   looseIdents : Listing(Ident), looseTypes : Listing(QualType)]

VARIABLES
  c,       \* the C bindings
  o,       \* the overrides (an identifier overridden by "" counts as absent)
  bindPhase,   \* "parse", "derive", "done", or "exit": the tool failed
  at,      \* <<table, pair>>: which pair of which table is next
  out      \* the bindings so far: a function from Rust names to Rust names

policyVars == <<c, o, bindPhase, at, out>>

NoType == <<"none", "">>   \* a qualified type that is all decoration
-----------------------------------------------------------------------------
(* Naming policy.  ident_to_rust changes lower_snake names only: what starts *)
(* with pg_ or PG_, what is in capitals and what fits no rule stays.         *)

IdentToRust(i) == IF i[1] = "lower_snake" THEN <<"UPPER_SNAKE", i[2]>> ELSE i

TypeToRust(base) ==
  IF base \in DOMAIN o.types THEN o.types[base]
  ELSE IF base[1] = "prim" THEN Primitive[base[2]]
  ELSE IF base[1] = "pg" THEN Pascal[base[2]]
  ELSE base

RustIdent(i) == IF i \in DOMAIN o.idents THEN o.idents[i] ELSE IdentToRust(i)

\* Every pair the two inputs hold, table by table, in the order they are looped over.
Tables == <<c.idents, c.types, o.pairs, o.typePairs, o.extra>>
Pair(n, i) == Tables[n][i]

HasBases(p) == p[1].base # NoType /\ p[2].base # NoType
NoFunction(p) == ~p[1].fn /\ ~p[2].fn
\* A pair the overrides make for names in holes counts when both are listed.
Listed(listing, p) == p[1] \in Range(listing.canonical) /\ p[2] \in Range(listing.sibling)

\* Whether a pair is used or passed over, and the Rust names it asks to bind.
Used(n, p) ==
  CASE n = 2 -> NoFunction(p) /\ HasBases(p)
    [] n = 3 -> Listed(c.looseIdents, p)
    [] n = 4 -> Listed(c.looseTypes, p) /\ HasBases(p)
    [] OTHER -> TRUE
Rename(n, p) ==
  CASE n \in {1, 3} -> <<RustIdent(p[1]), RustIdent(p[2])>>
    [] n \in {2, 4} -> <<TypeToRust(p[1].base), TypeToRust(p[2].base)>>
    [] OTHER -> <<p[1], p[2]>>
-----------------------------------------------------------------------------
PolicyInit ==
  /\ \E input \in Inputs : c = input[1] /\ o = input[2]
  /\ \A n \in DOMAIN Tables : Tables[n] \in Seq(Range(Tables[n]))
  /\ bindPhase = "parse" /\ at = <<1, 1>> /\ out = <<>>

\* TOML allows a key once in a table.
HasRepeatedKey ==
  \E n \in DOMAIN Tables : ~IsInjective([i \in DOMAIN Tables[n] |-> Tables[n][i][1]])
Parse ==
  /\ bindPhase = "parse"
  /\ bindPhase' = IF HasRepeatedKey THEN "exit" ELSE "derive"
  /\ UNCHANGED <<c, o, at, out>>

InTable == bindPhase = "derive" /\ at[1] <= Len(Tables) /\ at[2] <= Len(Tables[at[1]])
This == Pair(at[1], at[2])
NextPair == at' = <<at[1], at[2] + 1>>

NextTable ==
  /\ bindPhase = "derive" /\ at[1] <= Len(Tables) /\ at[2] > Len(Tables[at[1]])
  /\ at' = <<at[1] + 1, 1>>
  /\ UNCHANGED <<c, o, bindPhase, out>>

PassOver ==
  /\ InTable /\ ~Used(at[1], This)
  /\ NextPair
  /\ UNCHANGED <<c, o, bindPhase, out>>

Bind(k, v) == [x \in DOMAIN out \cup {k} |-> IF x = k THEN v ELSE out[x]]

\* Mutated form: the first binding of a name wins.
SetDefault ==
  /\ InTable /\ Used(at[1], This)
  /\ LET r == Rename(at[1], This)
     IN out' = IF r[1] \in DOMAIN out THEN out ELSE Bind(r[1], r[2])
  /\ NextPair
  /\ UNCHANGED <<c, o, bindPhase>>

\* Mutated form: bindings that rename nothing are passed over before the check.
SetRenameOnly ==
  /\ InTable /\ Used(at[1], This)
  /\ LET r == Rename(at[1], This)
     IN IF r[1] \in DOMAIN out /\ out[r[1]] # r[2] /\ r[1] # r[2]
        THEN bindPhase' = "exit" /\ UNCHANGED <<at, out>>
        ELSE /\ out' = IF r[1] = r[2] THEN out ELSE Bind(r[1], r[2])
             /\ NextPair /\ UNCHANGED bindPhase
  /\ UNCHANGED <<c, o>>

SetBinding ==
  /\ InTable /\ Used(at[1], This)
  /\ LET r == Rename(at[1], This)
     IN IF r[1] \in DOMAIN out /\ out[r[1]] # r[2]
        THEN bindPhase' = "exit" /\ UNCHANGED <<at, out>>
        ELSE out' = Bind(r[1], r[2]) /\ NextPair /\ UNCHANGED bindPhase
  /\ UNCHANGED <<c, o>>

\* The bindings that rename nothing are dropped at the end.
Finish ==
  /\ bindPhase = "derive" /\ at[1] > Len(Tables)
  /\ bindPhase' = "done"
  /\ out' = Restrict(out, {k \in DOMAIN out : out[k] # k})
  /\ UNCHANGED <<c, o, at>>

PolicyEnded == bindPhase \in {"done", "exit"} /\ UNCHANGED policyVars

PolicyNext == Parse \/ NextTable \/ PassOver \/ SetBinding \/ Finish \/ PolicyEnded
PolicySpec == PolicyInit /\ [][PolicyNext]_policyVars
-----------------------------------------------------------------------------
Places == UNION {{<<n, i>> : i \in DOMAIN Tables[n]} : n \in DOMAIN Tables}
RenamesAt(places) ==
  {Rename(p[1], Pair(p[1], p[2])) : p \in {q \in places : Used(q[1], Pair(q[1], q[2]))}}
Renames == RenamesAt(Places)

PolicyTypeOK ==
  /\ bindPhase \in {"parse", "derive", "done", "exit"}
  /\ at \in Nat \X Nat
  /\ at[1] \in 1..(Len(Tables) + 1)
  /\ at[1] <= Len(Tables) => at[2] \in 1..(Len(Tables[at[1]]) + 1)
  /\ \A k \in DOMAIN out : <<k, out[k]>> \in Renames

\* The emitted table renames exactly what the two inputs ask for: each Rust
\* name that any C pair, any admitted pair of the overrides or any extra binding
\* leads to is bound to the one name it asks for, and no rename is lost or
\* invented, whatever the order and wherever two C names, be one an identifier
\* and the other a type, become one Rust name.
TableIsExact ==
  bindPhase = "done" =>
    {<<k, out[k]>> : k \in DOMAIN out} = {r \in Renames : r[1] # r[2]}

\* "Conflicting values fail loudly so the user knows the policy is ambiguous":
\* the tool fails when, and only when, a table repeats a key or two sources
\* ask for different names, one of which may be the name unchanged.
Ambiguous ==
  \/ HasRepeatedKey
  \/ \E r, s \in Renames : r[1] = s[1] /\ r[2] # s[2]
FailsOnlyWhenAmbiguous ==
  /\ bindPhase = "exit" => Ambiguous
  /\ bindPhase = "done" => ~Ambiguous
=============================================================================
