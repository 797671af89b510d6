-------------------------- MODULE BindingsPipeline --------------------------
(***************************************************************************)
(* The first two tools of a queue member, composed (translation_queue.py,  *)
(* run_member, steps 1 and 2): c_cluster_diff writes the C bindings of two *)
(* functions, and when it succeeds c_to_rust_bindings reads them with the  *)
(* cluster's overrides.  The second is also run by hand, on C bindings     *)
(* that were edited.                                                       *)
(*                                                                         *)
(* To the diff a name is a string; what the policy sees of it is given by  *)
(* IdentOf and TypeOf.                                                     *)
(***************************************************************************)
EXTENDS ClusterDiff, RustBindings

CONSTANTS
  Overrides,        \* the overrides of a cluster
  IdentOf, TypeOf   \* what the policy reads a name, a qualified type, as

\* Both are read from TOML: the pairs of names in arrays, and no two names as one.
ASSUME OverridesAssumption ==
  \A ov \in Overrides :
    /\ ov.pairs \in Seq(Ident \X Ident) /\ ov.typePairs \in Seq(QualType \X QualType)
    /\ ov.extra \in Seq((STRING \X STRING) \X (STRING \X STRING))
ASSUME ReadingAssumption ==
  /\ IsInjective(IdentOf) /\ IsInjective(TypeOf)
  /\ \A k \in Corpora :
       /\ Range(k.name["ident"]) \ {""} \subseteq DOMAIN IdentOf
       /\ Range(k.name["type"]) \ {""} \subseteq DOMAIN TypeOf

VARIABLE step       \* "diff", "bind", "end"

vars == <<step, diffVars, policyVars>>

NoNames == [canonical |-> <<>>, sibling |-> <<>>]
NotRead == [idents |-> <<>>, types |-> <<>>, looseIdents |-> NoNames, looseTypes |-> NoNames]

InitQueue ==
  /\ step = "diff"
  /\ DiffInit
  /\ o \in Overrides
  /\ c = NotRead /\ bindPhase = "parse" /\ at = <<1, 1>> /\ out = <<>>
InitByHand ==
  /\ step = "bind"
  /\ t = CHOOSE corpus \in Corpora : TRUE
  /\ DiffInit
  /\ PolicyInit
Init == InitQueue \/ InitByHand
-----------------------------------------------------------------------------
Diff ==
  /\ step = "diff"
  /\ Find \/ KindsDiffer \/ CountsDiffer \/ Descend \/ Write
  /\ UNCHANGED <<step, policyVars>>

\* render_toml, then parse_c_bindings: the tables in the order they are written.
ReadPairs(Of, pairs) == [i \in DOMAIN pairs |-> <<Of[pairs[i][1]], Of[pairs[i][2]]>>]
ReadNames(Of, names) == [i \in DOMAIN names |-> Of[names[i]]]
ReadListing(Of, l) ==
  [canonical |-> ReadNames(Of, l.canonical), sibling |-> ReadNames(Of, l.sibling)]

\* Mutated form: the types are passed on, the names are not.
HandOverTypes ==
  /\ step = "diff" /\ diffPhase = "written"
  /\ step' = "bind"
  /\ c' = [NotRead EXCEPT !.types = ReadPairs(TypeOf, bindings["type"])]
  /\ UNCHANGED <<diffVars, o, bindPhase, at, out>>

HandOver ==
  /\ step = "diff" /\ diffPhase = "written"
  /\ step' = "bind"
  /\ c' = [idents |-> ReadPairs(IdentOf, bindings["ident"]),
           types |-> ReadPairs(TypeOf, bindings["type"]),
           looseIdents |-> ReadListing(IdentOf, loose["ident"]),
           looseTypes |-> ReadListing(TypeOf, loose["type"])]
  /\ UNCHANGED <<diffVars, o, bindPhase, at, out>>

\* A tool that fails is the end of the member.
DiffFailed ==
  /\ step = "diff" /\ diffPhase = "exit"
  /\ step' = "end"
  /\ UNCHANGED <<diffVars, policyVars>>

Policy ==
  /\ step = "bind"
  /\ Parse \/ NextTable \/ PassOver \/ SetBinding \/ Finish
  /\ UNCHANGED <<step, diffVars>>

PolicyEnds ==
  /\ step = "bind" /\ bindPhase \in {"done", "exit"}
  /\ step' = "end"
  /\ UNCHANGED <<diffVars, policyVars>>

Ended == step = "end" /\ UNCHANGED vars

Next == Diff \/ HandOver \/ DiffFailed \/ Policy \/ PolicyEnds \/ Ended
Spec == Init /\ [][Next]_vars
-----------------------------------------------------------------------------
\* The two tools' own state, and the steps in their order.
TypeOK ==
  /\ step \in {"diff", "bind", "end"}
  /\ DiffTypeOK /\ PolicyTypeOK
  /\ step = "diff" => c = NotRead /\ bindPhase = "parse"

(***************************************************************************)
(* From one end to the other: what the table must hold, said of the two    *)
(* functions and the overrides alone.                                      *)
(***************************************************************************)
Differing(col) ==
  {NameOf(col, p) : p \in {q \in Aligned : SameKind(q)}}
    \ ({<<a, a>> : a \in Names} \cup {p \in Names \X Names : "" \in Range(p)})
Wanted(Of, col) == {<<Of[p[1]], Of[p[2]]>> : p \in Differing(col)}

\* A pair of the overrides counts when its names occur on their sides of the holes.
Occurring(Of, col, pairs) ==
  {p \in Range(pairs) : \A side \in 1..2 :
     \E n \in InHole(side) : Name(col, n) # "" /\ Of[Name(col, n)] = p[side]}

RenamedIdents ==
  {<<RustIdent(p[1]), RustIdent(p[2])>> :
     p \in Wanted(IdentOf, "ident") \cup Occurring(IdentOf, "ident", o.pairs)}
RenamedTypes ==
  {<<TypeToRust(p[1].base), TypeToRust(p[2].base)>> :
     p \in {q \in {q \in Wanted(TypeOf, "type") : NoFunction(q)}
                    \cup Occurring(TypeOf, "type", o.typePairs) : HasBases(q)}}
Renamed == RenamedIdents \cup RenamedTypes \cup Range(o.extra)

FromDiff == step = "end" /\ diffPhase = "written"

\* Every two names that differ at corresponding positions of the two functions, and
\* every pair of the overrides that the functions' holes bear out, ends as a rename
\* of the table, unless the policy makes the two one name; and nothing else does.
PositionsAreRenamed ==
  FromDiff /\ bindPhase = "done" =>
    {<<k, out[k]>> : k \in DOMAIN out} = {r \in Renamed : r[1] # r[2]}

\* There is no table exactly when the functions or the overrides are ambiguous: one
\* name of the canonical corresponds to two of the sibling, or two names the policy
\* makes one must become different ones.
Unambiguous(pairs) == \A p, q \in pairs : p[1] = q[1] => p[2] = q[2]
FailsOnAmbiguousPositions ==
  FromDiff =>
    (bindPhase = "done" <=>
       /\ \A col \in Columns : Unambiguous(Differing(col))
       /\ \A table \in {o.pairs, o.typePairs, o.extra} :
            IsInjective([i \in DOMAIN table |-> table[i][1]])
       /\ Unambiguous(Renamed))
=============================================================================
