-------------------------- MODULE CompdbFlagsProofs --------------------------
(***************************************************************************)
(* The two properties of CompdbFlags, for every set of flags and every     *)
(* recorded command.  What a command line means is a recursive definition  *)
(* over its tokens; it is unfolded by an induction over the natural        *)
(* numbers, in the form of their least element.                            *)
(***************************************************************************)
EXTENDS CompdbFlags, SequenceTheorems, WellFoundedInduction, TLAPS

\* A set of natural numbers that is not empty has a least element.
LEMMA LeastNatural ==
  ASSUME NEW T \in SUBSET Nat, T # {}
  PROVE  \E x \in T : \A y \in T : x <= y
<1> DEFINE R == OpToRel(<, Nat)
<1>1. IsWellFoundedOn(R, Nat)
  BY NatLessThanWellFounded
<1>2. \E x \in T : \A y \in T : ~(<<y, x>> \in R)
  <2> HIDE DEF R
  <2> QED BY <1>1, WFMin
<1>3. PICK x \in T : \A y \in T : ~(<<y, x>> \in R)
  BY <1>2
<1>4. ASSUME NEW y \in T PROVE x <= y
  <2>1. ~(<<y, x>> \in {ss \in Nat \X Nat : ss[1] < ss[2]})
    BY <1>3 DEF OpToRel
  <2> QED BY <2>1
<1> QED BY <1>4

\* A set of natural numbers with 0 in it, and n + 1 with n, is all of them.
LEMMA Inductive ==
  ASSUME NEW G \in SUBSET Nat, 0 \in G, \A n \in G : n + 1 \in G
  PROVE  \A n \in Nat : n \in G
<1> DEFINE T == Nat \ G
<1> SUFFICES ASSUME T # {} PROVE FALSE
  OBVIOUS
<1>1. PICK x \in T : \A y \in T : x <= y
  BY LeastNatural
<1>2. x # 0 /\ x - 1 \in Nat /\ x - 1 \notin T
  BY <1>1
<1>3. x - 1 + 1 \in G
  BY <1>2
<1> QED BY <1>1, <1>3
-----------------------------------------------------------------------------
(* The types. *)

\* What pos has left behind while the tokens are filtered.
Far == phase = "filter" => pos >= 2 /\ Len(flags) <= pos - 2
\* Nothing is substituted before the filter is done, and no token twice.
Slow == /\ phase = "filter" => substituted = <<>>
        /\ phase # "filter" => pos <= Len(flags) + 1 /\ Len(substituted) <= pos - 1

Types ==
  /\ argv \in Argvs /\ mode \in Modes /\ headersTree \in BOOLEAN
  /\ phase \in {"filter", "substitute", "run"}
  /\ pos \in 1..(Len(argv) + 1)
  /\ Len(flags) < Len(argv)
  /\ flags \in Seq(Token) /\ substituted \in Seq(Token) /\ cmd \in Seq(Token)
  /\ Far /\ Slow

LEMMA Command == ASSUME NEW s \in Argvs PROVE s \in Seq(Token) /\ Len(s) \in Nat \ {0}
  BY FlagsAssumption, EmptySeq, LenProperties

LEMMA OutPathTyped == OutPath \in Seq(Token)
<1>1. ASSUME NEW t \in Token, NEW u \in Token PROVE <<t, u>> \in Seq(Token)
  OBVIOUS
<1>2. [opt |-> "-o", val |-> "", sentinel |-> FALSE] \in Token
  BY FlagsAssumption DEF Token
<1>3. [opt |-> "", val |-> "out_path", sentinel |-> FALSE] \in Token
  BY FlagsAssumption DEF Token
<1> QED BY <1>1, <1>2, <1>3 DEF OutPath

LEMMA TypesInit == Init => Types
<1> SUFFICES ASSUME Init PROVE Types
  OBVIOUS
<1>1. argv \in Seq(Token) /\ Len(argv) \in Nat \ {0}
  BY Command DEF Init
<1>2. <<>> \in Seq(Token) /\ Len(<<>>) = 0
  BY EmptySeq
<1> QED BY <1>1, <1>2 DEF Init, Types, Far, Slow

LEMMA Substituted == ASSUME NEW t \in Token PROVE [t EXCEPT !.sentinel = FALSE] \in Token
  BY DEF Token

LEMMA TypesStep == Types /\ [Next]_vars => Types'
<1> SUFFICES ASSUME Types, [Next]_vars PROVE Types'
  OBVIOUS
<1>1. argv \in Seq(Token) /\ Len(argv) \in Nat \ {0} /\ DOMAIN argv = 1..Len(argv)
  BY Command, LenProperties DEF Types
<1>2. /\ Len(flags) \in Nat /\ DOMAIN flags = 1..Len(flags) /\ Len(substituted) \in Nat
      /\ flags \in Seq(Token) /\ substituted \in Seq(Token)
  BY LenProperties DEF Types
<1>3. CASE KeepPair
  <2>1. argv[pos] \in Token /\ argv[pos + 1] \in Token /\ pos + 1 <= Len(argv)
    BY <1>1, <1>3, ElementOfSeq DEF KeepPair, Scanning
  <2>2. <<argv[pos], argv[pos + 1]>> \in Seq(Token) /\ Len(<<argv[pos], argv[pos + 1]>>) = 2
    BY <2>1
  <2>3. flags' \in Seq(Token) /\ Len(flags') = Len(flags) + 2
    BY <1>2, <1>3, <2>2, ConcatProperties DEF KeepPair
  <2> QED BY <1>1, <1>2, <1>3, <2>1, <2>3 DEF KeepPair, Scanning, Types, Far, Slow
<1>4. CASE KeepFlag
  <2>1. argv[pos] \in Token /\ pos <= Len(argv)
    BY <1>1, <1>4, ElementOfSeq DEF KeepFlag, Scanning
  <2>2. flags' \in Seq(Token) /\ Len(flags') = Len(flags) + 1
    BY <1>2, <1>4, <2>1, AppendProperties DEF KeepFlag
  <2> QED BY <1>1, <1>2, <1>4, <2>1, <2>2 DEF KeepFlag, Scanning, Types, Far, Slow
<1>5. CASE DropFlag
  BY <1>1, <1>2, <1>5 DEF DropFlag, Scanning, Types, Far, Slow
<1>6. CASE Filtered
  <2>1. Len(<<>>) = 0
    BY EmptySeq
  <2> QED BY <1>1, <1>2, <1>6, <2>1 DEF Filtered, Types, Far, Slow
<1>7. CASE Substitute
  <2>1. flags[pos] \in Token /\ pos <= Len(flags)
    BY <1>2, <1>7, ElementOfSeq DEF Substitute, Substituting
  <2>2. [flags[pos] EXCEPT !.sentinel = FALSE] \in Token
    BY <2>1, Substituted
  <2>3. substituted' \in Seq(Token) /\ Len(substituted') = Len(substituted) + 1
    BY <1>2, <1>7, <2>2, AppendProperties DEF Substitute
  <2> QED BY <1>1, <1>2, <1>7, <2>1, <2>3 DEF Substitute, Substituting, Types, Far, Slow
<1>8. CASE DropSentinel
  BY <1>1, <1>2, <1>8 DEF DropSentinel, Substituting, Types, Far, Slow
<1>9. CASE Run
  <2>1. substituted \o ExtraCopts \in Seq(Token)
    BY <1>2, FlagsAssumption, ConcatProperties
  <2>2. <<Src>> \in Seq(Token)
    <3>1. Src \in Token
      BY FlagsAssumption
    <3> QED BY <3>1
  <2>3. substituted \o ExtraCopts \o <<Src>> \in Seq(Token)
    BY <2>1, <2>2, ConcatProperties
  <2>4. (IF mode = "llvm" THEN OutPath ELSE <<>>) \in Seq(Token)
    BY OutPathTyped, EmptySeq
  <2>5. cmd' \in Seq(Token)
    BY <1>9, <2>3, <2>4, ConcatProperties DEF Run
  <2> QED BY <1>1, <1>2, <1>9, <2>5 DEF Run, Types, Far, Slow
<1>10. CASE UNCHANGED vars
  BY <1>10 DEF vars, Types, Far, Slow
<1>11. CASE Done
  BY <1>10, <1>11 DEF Done
<1> QED BY <1>3, <1>4, <1>5, <1>6, <1>7, <1>8, <1>9, <1>10, <1>11 DEF Next

LEMMA TypesAlways == Spec => []Types
  BY TypesInit, TypesStep, PTL DEF Spec

\* The types hold in every state, and the filter keeps no more than it reads:
\* fewer tokens than were recorded, and no more are substituted than are kept.
THEOREM Typing == Spec => []TypeOK
<1>1. Types => TypeOK
  <2> SUFFICES ASSUME Types PROVE TypeOK
    OBVIOUS
  <2>1. argv \in Seq(Token) /\ Len(argv) \in Nat
    BY Command DEF Types
  <2>2. Len(flags) \in Nat /\ Len(substituted) \in Nat /\ Len(<<>>) = 0
    BY LenProperties, EmptySeq DEF Types
  <2> QED BY <2>1, <2>2 DEF Types, Far, Slow, TypeOK
<1> QED BY <1>1, TypesAlways, PTL
-----------------------------------------------------------------------------
(* What tokens say. *)

Says == [Option -> Seq(Option)]
OptionAt(tokens, i) ==
  IF Waits(tokens[i]) THEN Apart(tokens[i], IF i < Len(tokens) THEN tokens[i + 1] ELSE NoArg)
  ELSE Joined(tokens[i])
NextAt(tokens, i) == IF Waits(tokens[i]) THEN i + 2 ELSE i + 1
\* r reads the tokens the way From does, from the n-th on.
ReadsFrom(r, tokens, says, n) ==
  \A i \in n..(Len(tokens) + 2) :
    r[i] = IF i > Len(tokens) THEN <<>> ELSE says[OptionAt(tokens, i)] \o r[NextAt(tokens, i)]

LEMMA JoinedTyped == ASSUME NEW t \in Token PROVE Joined(t) \in Option
<1>1. t.opt \in Opt \cup {""}
  BY DEF Token
<1>2. [t EXCEPT !.opt = ""] \in Token
  BY DEF Token
<1> QED BY <1>1, <1>2 DEF Joined, Option

LEMMA JoinedFields ==
  ASSUME NEW t \in Token
  PROVE  /\ Joined(t).flag = t.opt /\ Joined(t).apart = FALSE
         /\ Joined(t).arg.val = t.val /\ Joined(t).arg.sentinel = t.sentinel
<1>1. [t EXCEPT !.opt = ""].val = t.val /\ [t EXCEPT !.opt = ""].sentinel = t.sentinel
  BY DEF Token
<1> QED BY <1>1 DEF Joined

LEMMA ApartTyped == ASSUME NEW t \in Token, NEW u \in Token PROVE Apart(t, u) \in Option
<1>1. t.opt \in Opt \cup {""}
  BY DEF Token
<1> QED BY <1>1 DEF Apart, Option

LEMMA OptionTyped ==
  ASSUME NEW tokens \in Seq(Token), NEW i \in 1..Len(tokens)
  PROVE  OptionAt(tokens, i) \in Option
<1>1. tokens[i] \in Token
  BY ElementOfSeq
<1>2. i < Len(tokens) => tokens[i + 1] \in Token
  BY ElementOfSeq, LenProperties
<1>3. NoArg \in Token
  BY DEF NoArg, Token
<1> QED BY <1>1, <1>2, <1>3, JoinedTyped, ApartTyped DEF OptionAt

\* A reading from the token after the m-th on extends to the m-th.
LEMMA OneMore ==
  ASSUME NEW tokens \in Seq(Token), NEW says \in Says, NEW m \in Nat \ {0}, m <= Len(tokens) + 1,
         NEW r \in [(m + 1)..(Len(tokens) + 2) -> Seq(Option)], ReadsFrom(r, tokens, says, m + 1)
  PROVE  \E q \in [m..(Len(tokens) + 2) -> Seq(Option)] : ReadsFrom(q, tokens, says, m)
<1> DEFINE new == IF m > Len(tokens) THEN <<>> ELSE says[OptionAt(tokens, m)] \o r[NextAt(tokens, m)]
           q == [i \in m..(Len(tokens) + 2) |-> IF i = m THEN new ELSE r[i]]
<1>0. Len(tokens) \in Nat /\ <<>> \in Seq(Option)
  BY LenProperties, EmptySeq
<1>1. \A i \in m..Len(tokens) : NextAt(tokens, i) \in (i + 1)..(Len(tokens) + 2)
  BY <1>0 DEF NextAt
<1>2. m <= Len(tokens) => says[OptionAt(tokens, m)] \in Seq(Option)
  BY <1>0, OptionTyped DEF Says
<1>3. m <= Len(tokens) => r[NextAt(tokens, m)] \in Seq(Option)
  BY <1>0, <1>1
<1>4. new \in Seq(Option)
  BY <1>0, <1>2, <1>3, ConcatProperties
<1> HIDE DEF new
<1>5. q \in [m..(Len(tokens) + 2) -> Seq(Option)]
  <2>1. \A i \in m..(Len(tokens) + 2) : i = m \/ i \in (m + 1)..(Len(tokens) + 2)
    BY <1>0
  <2> QED BY <1>4, <2>1
<1>6. q[m] = new
  BY <1>0
<1>7. \A i \in (m + 1)..(Len(tokens) + 2) : q[i] = r[i]
  BY <1>0
<1> HIDE DEF q
<1>8. ASSUME NEW i \in m..(Len(tokens) + 2)
      PROVE  q[i] = IF i > Len(tokens) THEN <<>> ELSE says[OptionAt(tokens, i)] \o q[NextAt(tokens, i)]
  <2>1. i <= Len(tokens) => q[NextAt(tokens, i)] = r[NextAt(tokens, i)]
    BY <1>0, <1>1, <1>7
  <2>2. CASE i = m
    BY <1>0, <1>6, <2>1, <2>2 DEF new
  <2>3. CASE i # m
    <3>1. i \in (m + 1)..(Len(tokens) + 2) /\ i \in Int
      BY <1>0, <2>3
    <3>2. r[i] = IF i > Len(tokens) THEN <<>> ELSE says[OptionAt(tokens, i)] \o r[NextAt(tokens, i)]
      BY <3>1 DEF ReadsFrom
    <3>3. q[i] = r[i]
      BY <1>7, <3>1
    <3>4. CASE i > Len(tokens)
      BY <3>2, <3>3, <3>4
    <3>5. CASE ~(i > Len(tokens))
      <4>1. i <= Len(tokens)
        BY <1>0, <3>1, <3>5
      <4> QED BY <2>1, <3>2, <3>3, <4>1
    <3> QED BY <3>4, <3>5
  <2> QED BY <2>2, <2>3
<1> QED BY <1>5, <1>8 DEF ReadsFrom

\* So there is a reading of all: it is built from the last token to the first.
LEMMA ReadingExists ==
  ASSUME NEW tokens \in Seq(Token), NEW says \in Says
  PROVE  \E r \in [1..(Len(tokens) + 2) -> Seq(Option)] : ReadsFrom(r, tokens, says, 1)
<1> DEFINE Good(m) == \E r \in [m..(Len(tokens) + 2) -> Seq(Option)] : ReadsFrom(r, tokens, says, m)
           G == {n \in Nat : \A m \in Nat \ {0} : m + n = Len(tokens) + 2 => Good(m)}
<1>0. Len(tokens) \in Nat /\ <<>> \in Seq(Option)
  BY LenProperties, EmptySeq
<1>1. 0 \in G
  <2> SUFFICES ASSUME NEW m \in Nat \ {0}, m + 0 = Len(tokens) + 2 PROVE Good(m)
    OBVIOUS
  <2> DEFINE r == [i \in m..(Len(tokens) + 2) |-> <<>>]
  <2>1. r \in [m..(Len(tokens) + 2) -> Seq(Option)]
    BY <1>0
  <2>2. \A i \in m..(Len(tokens) + 2) : i > Len(tokens) /\ r[i] = <<>>
    BY <1>0
  <2>3. ReadsFrom(r, tokens, says, m)
    <3> HIDE DEF r
    <3> QED BY <2>2 DEF ReadsFrom
  <2> QED BY <2>1, <2>3
<1>2. ASSUME NEW n \in G
      PROVE  n + 1 \in G
  <2> SUFFICES ASSUME NEW m \in Nat \ {0}, m + (n + 1) = Len(tokens) + 2 PROVE Good(m)
    BY <1>2
  <2>1. n \in Nat /\ m + 1 \in Nat \ {0} /\ (m + 1) + n = Len(tokens) + 2 /\ m <= Len(tokens) + 1
    BY <1>0, <1>2
  <2>2. Good(m + 1)
    BY <1>2, <2>1
  <2> QED BY <2>1, <2>2, OneMore
<1>3. \A n \in Nat : n \in G
  <2>1. G \in SUBSET Nat
    OBVIOUS
  <2> HIDE DEF G
  <2> QED BY <1>1, <1>2, <2>1, Inductive
<1>4. Len(tokens) + 1 \in G /\ 1 + (Len(tokens) + 1) = Len(tokens) + 2
  <2> HIDE DEF G
  <2> QED BY <1>0, <1>3
<1> QED BY <1>4

\* Two readings of the same tokens are the same.
LEMMA OneReading ==
  ASSUME NEW tokens \in Seq(Token), NEW says, NEW q, NEW r,
         ReadsFrom(q, tokens, says, 1), ReadsFrom(r, tokens, says, 1)
  PROVE  \A i \in 1..(Len(tokens) + 2) : q[i] = r[i]
<1> DEFINE G == {n \in Nat : \A i \in 1..(Len(tokens) + 2) : i + n >= Len(tokens) + 2 => q[i] = r[i]}
<1>0. Len(tokens) \in Nat
  BY LenProperties
<1>1. 0 \in G
  <2>1. Len(tokens) + 2 \in 1..(Len(tokens) + 2)
    BY <1>0
  <2>2. q[Len(tokens) + 2] = <<>> /\ r[Len(tokens) + 2] = <<>>
    BY <1>0, <2>1 DEF ReadsFrom
  <2>3. \A i \in 1..(Len(tokens) + 2) : i + 0 >= Len(tokens) + 2 => i = Len(tokens) + 2
    BY <1>0
  <2> QED BY <2>2, <2>3
<1>2. ASSUME NEW n \in G
      PROVE  n + 1 \in G
  <2> SUFFICES ASSUME NEW i \in 1..(Len(tokens) + 2), i + (n + 1) >= Len(tokens) + 2 PROVE q[i] = r[i]
    BY <1>2
  <2>1. n \in Nat /\ i \in Nat
    BY <1>0, <1>2
  <2>2. i <= Len(tokens) =>
          NextAt(tokens, i) \in 1..(Len(tokens) + 2) /\ NextAt(tokens, i) + n >= Len(tokens) + 2
    BY <1>0, <2>1 DEF NextAt
  <2>3. i <= Len(tokens) => q[NextAt(tokens, i)] = r[NextAt(tokens, i)]
    BY <1>2, <2>2
  <2> QED BY <2>1, <2>3 DEF ReadsFrom
<1>3. \A n \in Nat : n \in G
  <2>1. G \in SUBSET Nat
    OBVIOUS
  <2> HIDE DEF G
  <2> QED BY <1>1, <1>2, <2>1, Inductive
<1>4. Len(tokens) + 2 \in G
  <2> HIDE DEF G
  <2> QED BY <1>0, <1>3
<1>5. \A i \in 1..(Len(tokens) + 2) : i + (Len(tokens) + 2) >= Len(tokens) + 2
  BY <1>0
<1> QED BY <1>4, <1>5

\* From is that reading.
LEMMA FromReads ==
  ASSUME NEW tokens \in Seq(Token), NEW says \in Says
  PROVE  /\ From(tokens, says) \in [1..(Len(tokens) + 2) -> Seq(Option)]
         /\ ReadsFrom(From(tokens, says), tokens, says, 1)
<1> DEFINE Step(r) ==
      [i \in 1..(Len(tokens) + 2) |->
         IF i > Len(tokens) THEN <<>>
         ELSE IF Waits(tokens[i])
              THEN says[Apart(tokens[i], IF i < Len(tokens) THEN tokens[i + 1] ELSE NoArg)] \o r[i + 2]
              ELSE says[Joined(tokens[i])] \o r[i + 1]]
<1>1. PICK r \in [1..(Len(tokens) + 2) -> Seq(Option)] : ReadsFrom(r, tokens, says, 1)
  BY ReadingExists
<1>2. r = Step(r)
  <2>1. \A i \in 1..(Len(tokens) + 2) : r[i] = Step(r)[i]
    BY <1>1 DEF ReadsFrom, OptionAt, NextAt
  <2> QED BY <1>1, <2>1
<1>3. From(tokens, says) = CHOOSE q : q = Step(q)
  BY DEF From
<1>4. From(tokens, says) = Step(From(tokens, says))
  <2> HIDE DEF Step
  <2> QED BY <1>2, <1>3
<1>5. \A q : q = Step(q) => ReadsFrom(q, tokens, says, 1) /\ DOMAIN q = 1..(Len(tokens) + 2)
  <2> SUFFICES ASSUME NEW q, q = Step(q)
               PROVE  ReadsFrom(q, tokens, says, 1) /\ DOMAIN q = 1..(Len(tokens) + 2)
    OBVIOUS
  <2>1. DOMAIN q = 1..(Len(tokens) + 2)
    BY Zenon
  <2>2. \A i \in 1..(Len(tokens) + 2) : q[i] = Step(q)[i]
    BY Zenon
  <2>3. ReadsFrom(q, tokens, says, 1)
    BY <2>2 DEF ReadsFrom, OptionAt, NextAt
  <2> QED BY <2>1, <2>3
<1>6. ReadsFrom(From(tokens, says), tokens, says, 1) /\ DOMAIN From(tokens, says) = 1..(Len(tokens) + 2)
  <2> HIDE DEF Step
  <2> QED BY <1>4, <1>5
<1>7. \A i \in 1..(Len(tokens) + 2) : From(tokens, says)[i] = r[i]
  BY <1>1, <1>6, OneReading
<1>8. From(tokens, says) = [i \in 1..(Len(tokens) + 2) |-> From(tokens, says)[i]]
  BY <1>4, <1>6
<1> QED BY <1>1, <1>6, <1>7, <1>8
-----------------------------------------------------------------------------
(* Whole options, one after the other. *)

LEMMA OptionsAssociative == \A a, b, c \in Seq(Option) : (a \o b) \o c = a \o (b \o c)
  BY ConcatAssociative

\* One step of From.
LEMMA FromStep ==
  ASSUME NEW tokens \in Seq(Token), NEW says \in Says, NEW i \in 1..(Len(tokens) + 2)
  PROVE  /\ From(tokens, says)[i] \in Seq(Option)
         /\ i > Len(tokens) => From(tokens, says)[i] = <<>>
         /\ i <= Len(tokens) =>
              From(tokens, says)[i] = says[OptionAt(tokens, i)] \o From(tokens, says)[NextAt(tokens, i)]
<1>1. PICK r : r = From(tokens, says)
  OBVIOUS
<1>2. r \in [1..(Len(tokens) + 2) -> Seq(Option)] /\ ReadsFrom(r, tokens, says, 1)
  BY <1>1, FromReads
<1>3. r[i] = IF i > Len(tokens) THEN <<>> ELSE says[OptionAt(tokens, i)] \o r[NextAt(tokens, i)]
  BY <1>2 DEF ReadsFrom
<1>4. i \in Nat /\ Len(tokens) \in Nat
  BY LenProperties
<1>5. r[i] \in Seq(Option)
  BY <1>2
<1>6. i > Len(tokens) => r[i] = <<>>
  BY <1>3
<1>7. i <= Len(tokens) => r[i] = says[OptionAt(tokens, i)] \o r[NextAt(tokens, i)]
  <2>1. i <= Len(tokens) => ~(i > Len(tokens))
    BY <1>4
  <2> QED BY <1>3, <2>1
<1> QED BY <1>1, <1>5, <1>6, <1>7

\* What is said after the tokens s does not depend on them.
LEMMA FromBehind ==
  ASSUME NEW s \in Seq(Token), NEW t \in Seq(Token), NEW says \in Says
  PROVE  \A j \in 1..(Len(t) + 2) : From(s \o t, says)[Len(s) + j] = From(t, says)[j]
<1> DEFINE st == s \o t
           G == {n \in Nat : \A j \in 1..(Len(t) + 2) : j + n >= Len(t) + 2 =>
                   From(st, says)[Len(s) + j] = From(t, says)[j]}
<1>0. /\ Len(s) \in Nat /\ Len(t) \in Nat
      /\ st \in Seq(Token) /\ Len(st) = Len(s) + Len(t)
      /\ \A j \in 1..Len(t) : st[Len(s) + j] = t[j]
  BY LenProperties, ConcatProperties
<1> HIDE DEF st
<1>1. ASSUME NEW j \in 1..Len(t)
      PROVE  OptionAt(st, Len(s) + j) = OptionAt(t, j) /\ NextAt(st, Len(s) + j) = Len(s) + NextAt(t, j)
  <2>1. st[Len(s) + j] = t[j]
    BY <1>0
  <2>2. (Len(s) + j < Len(st) <=> j < Len(t)) /\ (j < Len(t) => st[Len(s) + j + 1] = t[j + 1])
    <3>1. j < Len(t) => j + 1 \in 1..Len(t) /\ Len(s) + (j + 1) = Len(s) + j + 1
      BY <1>0
    <3> QED BY <1>0, <3>1
  <2> QED BY <1>0, <2>1, <2>2 DEF OptionAt, NextAt
<1>2. 0 \in G
  <2> SUFFICES ASSUME NEW j \in 1..(Len(t) + 2), j + 0 >= Len(t) + 2
               PROVE  From(st, says)[Len(s) + j] = From(t, says)[j]
    OBVIOUS
  <2>1. j > Len(t) /\ Len(s) + j > Len(st) /\ Len(s) + j \in 1..(Len(st) + 2)
    BY <1>0
  <2> QED BY <1>0, <2>1, FromStep
<1>3. ASSUME NEW n \in G
      PROVE  n + 1 \in G
  <2> SUFFICES ASSUME NEW j \in 1..(Len(t) + 2), j + (n + 1) >= Len(t) + 2
               PROVE  From(st, says)[Len(s) + j] = From(t, says)[j]
    BY <1>3
  <2>1. Len(s) + j \in 1..(Len(st) + 2) /\ (Len(s) + j > Len(st) <=> j > Len(t))
    BY <1>0
  <2>2. CASE j > Len(t)
    BY <1>0, <2>1, <2>2, FromStep
  <2>3. CASE j <= Len(t)
    <3>1. j \in 1..Len(t) /\ Len(s) + j <= Len(st)
      BY <1>0, <2>3
    <3>2. NextAt(t, j) \in 1..(Len(t) + 2) /\ NextAt(t, j) + n >= Len(t) + 2
      BY <1>0, <1>3, <3>1 DEF NextAt
    <3>3. From(st, says)[Len(s) + NextAt(t, j)] = From(t, says)[NextAt(t, j)]
      BY <1>3, <3>2
    <3>4. From(st, says)[Len(s) + j]
            = says[OptionAt(st, Len(s) + j)] \o From(st, says)[NextAt(st, Len(s) + j)]
      BY <1>0, <2>1, <3>1, FromStep
    <3>5. From(t, says)[j] = says[OptionAt(t, j)] \o From(t, says)[NextAt(t, j)]
      BY <2>3, FromStep
    <3> QED BY <1>1, <3>1, <3>3, <3>4, <3>5
  <2> QED BY <1>0, <2>2, <2>3
<1>4. \A n \in Nat : n \in G
  <2>1. G \in SUBSET Nat
    OBVIOUS
  <2> HIDE DEF G
  <2> QED BY <1>2, <1>3, <2>1, Inductive
<1>5. Len(t) + 2 \in G
  <2> HIDE DEF G
  <2> QED BY <1>0, <1>4
<1>6. \A j \in 1..(Len(t) + 2) : j + (Len(t) + 2) >= Len(t) + 2
  BY <1>0
<1> QED BY <1>5, <1>6 DEF st

\* The set of places complete tokens are split at.
Splits(tokens, starts) ==
  /\ starts \in SUBSET (1..(Len(tokens) + 1))
  /\ {1, Len(tokens) + 1} \subseteq starts
  /\ \A i \in starts \cap DOMAIN tokens : NextAt(tokens, i) \in starts

LEMMA CompleteSplits ==
  ASSUME NEW tokens PROVE Complete(tokens) <=> \E starts : Splits(tokens, starts)
BY DEF Complete, Splits, NextAt

\* Complete tokens say what they say, whatever follows.
LEMMA FromConcat ==
  ASSUME NEW s \in Seq(Token), NEW t \in Seq(Token), NEW says \in Says, Complete(s)
  PROVE  From(s \o t, says)[1] = From(s, says)[1] \o From(t, says)[1]
<1> DEFINE st == s \o t
<1>1. PICK starts : Splits(s, starts)
  BY CompleteSplits
<1> DEFINE G == {n \in Nat : \A i \in starts : i + n >= Len(s) + 1 =>
                   From(st, says)[i] = From(s, says)[i] \o From(t, says)[1]}
<1>0. /\ Len(s) \in Nat /\ Len(t) \in Nat /\ DOMAIN s = 1..Len(s)
      /\ st \in Seq(Token) /\ Len(st) = Len(s) + Len(t)
      /\ \A i \in 1..Len(s) : st[i] = s[i]
  BY LenProperties, ConcatProperties
<1>b. From(st, says)[Len(s) + 1] = From(t, says)[1] /\ From(t, says)[1] \in Seq(Option)
  <2>1. 1 \in 1..(Len(t) + 2)
    BY <1>0
  <2> QED BY <2>1, FromBehind, FromStep
<1> HIDE DEF st
<1>2. From(s, says)[Len(s) + 1] \o From(t, says)[1] = From(t, says)[1]
  <2>1. Len(s) + 1 \in 1..(Len(s) + 2) /\ Len(s) + 1 > Len(s)
    BY <1>0
  <2>2. From(s, says)[Len(s) + 1] = <<>>
    BY <2>1, FromStep
  <2> QED BY <1>0, <2>2, ConcatEmptySeq
<1>3. 0 \in G
  <2>1. \A i \in starts : i + 0 >= Len(s) + 1 => i = Len(s) + 1
    BY <1>0, <1>1 DEF Splits
  <2> QED BY <1>0, <1>b, <1>2, <2>1
<1>4. ASSUME NEW n \in G
      PROVE  n + 1 \in G
  <2>0. n \in Nat /\ n + 1 \in Nat
    BY <1>4
  <2> SUFFICES ASSUME NEW i \in starts, i + (n + 1) >= Len(s) + 1
               PROVE  From(st, says)[i] = From(s, says)[i] \o From(t, says)[1]
    BY <2>0
  <2>1. i \in 1..(Len(s) + 1)
    BY <1>1 DEF Splits
  <2>2. CASE i = Len(s) + 1
    BY <1>b, <1>0, <1>2, <2>2
  <2>3. CASE i # Len(s) + 1
    <3>1. i \in 1..Len(s) /\ i <= Len(st)
      BY <1>0, <2>1, <2>3
    <3>2. NextAt(s, i) \in starts /\ NextAt(s, i) \in 1..(Len(s) + 1)
      BY <1>0, <1>1, <3>1 DEF Splits
    <3>3. Waits(s[i]) => i + 1 \in 1..Len(s) /\ i < Len(s) /\ i < Len(st)
      BY <1>0, <3>1, <3>2 DEF NextAt
    <3>4. OptionAt(st, i) = OptionAt(s, i) /\ NextAt(st, i) = NextAt(s, i)
      BY <1>0, <3>1, <3>3 DEF OptionAt, NextAt
    <3>5. NextAt(s, i) + n >= Len(s) + 1
      BY <1>0, <1>4, <3>1 DEF NextAt
    <3>6. From(st, says)[NextAt(s, i)] = From(s, says)[NextAt(s, i)] \o From(t, says)[1]
      BY <1>4, <3>2, <3>5
    <3>7. From(st, says)[i] = says[OptionAt(s, i)] \o From(st, says)[NextAt(s, i)]
      <4>1. i \in 1..(Len(st) + 2)
        BY <1>0, <3>1
      <4> QED BY <1>0, <3>1, <3>4, <4>1, FromStep
    <3>8. From(s, says)[i] = says[OptionAt(s, i)] \o From(s, says)[NextAt(s, i)]
      <4>1. i \in 1..(Len(s) + 2) /\ i <= Len(s)
        BY <1>0, <3>1
      <4> QED BY <4>1, FromStep
    <3>9. says[OptionAt(s, i)] \in Seq(Option) /\ From(s, says)[NextAt(s, i)] \in Seq(Option)
      <4>1. NextAt(s, i) \in 1..(Len(s) + 2)
        BY <1>0, <3>2
      <4> QED BY <3>1, <4>1, OptionTyped, FromStep DEF Says
    <3>10. From(st, says)[i]
             = says[OptionAt(s, i)] \o (From(s, says)[NextAt(s, i)] \o From(t, says)[1])
      BY <3>6, <3>7
    <3>11. From(s, says)[i] \o From(t, says)[1]
             = says[OptionAt(s, i)] \o (From(s, says)[NextAt(s, i)] \o From(t, says)[1])
      <4>1. PICK a, b, c : a = says[OptionAt(s, i)] /\ b = From(s, says)[NextAt(s, i)] /\ c = From(t, says)[1]
        OBVIOUS
      <4>2. a \in Seq(Option) /\ b \in Seq(Option) /\ c \in Seq(Option)
        BY <1>b, <3>9, <4>1
      <4>3. (a \o b) \o c = a \o (b \o c)
        BY <4>2, OptionsAssociative
      <4> QED BY <3>8, <4>1, <4>3
    <3> QED BY <3>10, <3>11
  <2> QED BY <2>2, <2>3
<1>5. \A n \in Nat : n \in G
  <2>1. G \in SUBSET Nat
    OBVIOUS
  <2> HIDE DEF G
  <2> QED BY <1>3, <1>4, <2>1, Inductive
<1>6. Len(s) + 1 \in G /\ 1 \in starts /\ 1 + (Len(s) + 1) >= Len(s) + 1
  <2> HIDE DEF G
  <2> QED BY <1>0, <1>1, <1>5 DEF Splits
<1> QED BY <1>6 DEF st

\* Complete tokens behind complete ones are complete.
LEMMA CompleteConcat ==
  ASSUME NEW s \in Seq(Token), NEW t \in Seq(Token), Complete(s), Complete(t)
  PROVE  Complete(s \o t)
<1> DEFINE st == s \o t
<1>1. PICK A : Splits(s, A)
  BY CompleteSplits
<1>2. PICK B : Splits(t, B)
  BY CompleteSplits
<1> DEFINE C == {Len(s) + b : b \in B}
<1>0. /\ Len(s) \in Nat /\ Len(t) \in Nat /\ DOMAIN s = 1..Len(s) /\ DOMAIN t = 1..Len(t)
      /\ st \in Seq(Token) /\ Len(st) = Len(s) + Len(t) /\ DOMAIN st = 1..Len(st)
      /\ \A i \in 1..Len(s) : st[i] = s[i]
      /\ \A i \in 1..Len(t) : st[Len(s) + i] = t[i]
  BY LenProperties, ConcatProperties
<1> HIDE DEF st
<1>3. A \in SUBSET (1..(Len(st) + 1)) /\ C \in SUBSET (1..(Len(st) + 1))
  BY <1>0, <1>1, <1>2 DEF Splits
<1>4. 1 \in A /\ Len(st) + 1 \in C
  <2>1. Len(t) + 1 \in B /\ Len(st) + 1 = Len(s) + (Len(t) + 1)
    BY <1>0, <1>2 DEF Splits
  <2> QED BY <1>1, <2>1 DEF Splits
<1>5. ASSUME NEW i \in A \cap DOMAIN st
      PROVE  NextAt(st, i) \in A \cup C
  <2>1. CASE i <= Len(s)
    <3>1. i \in 1..Len(s)
      BY <1>0, <1>1, <2>1 DEF Splits
    <3> QED BY <1>0, <1>1, <3>1 DEF Splits, NextAt
  <2>2. CASE i > Len(s)
    <3>1. i = Len(s) + 1 /\ 1 \in 1..Len(t) /\ 1 \in B
      BY <1>0, <1>1, <1>2, <2>2 DEF Splits
    <3>2. NextAt(t, 1) \in B /\ NextAt(st, i) = Len(s) + NextAt(t, 1)
      BY <1>0, <1>2, <3>1 DEF Splits, NextAt
    <3> QED BY <3>2
  <2> QED BY <1>0, <1>3, <2>1, <2>2
<1>6. ASSUME NEW b \in B, Len(s) + b \in DOMAIN st
      PROVE  NextAt(st, Len(s) + b) \in C
  <2>1. b \in 1..Len(t)
    BY <1>0, <1>2, <1>6 DEF Splits
  <2>2. NextAt(t, b) \in B /\ NextAt(st, Len(s) + b) = Len(s) + NextAt(t, b)
    BY <1>0, <1>2, <2>1 DEF Splits, NextAt
  <2> QED BY <2>2
<1>7. \A i \in (A \cup C) \cap DOMAIN st : NextAt(st, i) \in A \cup C
  BY <1>5, <1>6
<1>8. Splits(st, A \cup C)
  <2> HIDE DEF C
  <2> QED BY <1>3, <1>4, <1>7 DEF Splits
<1> QED BY <1>8, CompleteSplits DEF st

LEMMA EmptyReads ==
  ASSUME NEW says \in Says PROVE From(<<>>, says)[1] = <<>> /\ Complete(<<>>)
<1>1. <<>> \in Seq(Token) /\ Len(<<>>) = 0 /\ DOMAIN <<>> = {}
  BY EmptySeq
<1>2. From(<<>>, says)[1] = <<>>
  <2>1. 1 \in 1..(Len(<<>>) + 2) /\ 1 > Len(<<>>)
    BY <1>1
  <2> QED BY <1>1, <2>1, FromStep
<1>3. Splits(<<>>, {1})
  BY <1>1 DEF Splits
<1> QED BY <1>2, <1>3, CompleteSplits

\* One token that takes no other.
LEMMA SingleReads ==
  ASSUME NEW t \in Token, ~Waits(t), NEW says \in Says
  PROVE  From(<<t>>, says)[1] = says[Joined(t)] /\ Complete(<<t>>)
<1>1. <<t>> \in Seq(Token) /\ Len(<<t>>) = 1 /\ DOMAIN <<t>> = {1} /\ <<t>>[1] = t
  OBVIOUS
<1>2. NextAt(<<t>>, 1) = 2 /\ OptionAt(<<t>>, 1) = Joined(t)
  BY <1>1 DEF NextAt, OptionAt
<1>x. 1 \in 1..(Len(<<t>>) + 2) /\ 2 \in 1..(Len(<<t>>) + 2) /\ 2 > Len(<<t>>) /\ 1 <= Len(<<t>>)
  BY <1>1
<1>3. From(<<t>>, says)[2] = <<>> /\ From(<<t>>, says)[1] = says[Joined(t)] \o From(<<t>>, says)[2]
  BY <1>1, <1>2, <1>x, FromStep
<1>4. says[Joined(t)] \in Seq(Option)
  BY JoinedTyped DEF Says
<1>5. Splits(<<t>>, {1, 2})
  BY <1>1, <1>2 DEF Splits
<1> QED BY <1>3, <1>4, <1>5, CompleteSplits, ConcatEmptySeq

\* One token and its argument.
LEMMA PairReads ==
  ASSUME NEW t \in Token, NEW u \in Token, Waits(t), NEW says \in Says
  PROVE  From(<<t, u>>, says)[1] = says[Apart(t, u)] /\ Complete(<<t, u>>)
<1>1. /\ <<t, u>> \in Seq(Token) /\ Len(<<t, u>>) = 2 /\ DOMAIN <<t, u>> = {1, 2}
      /\ <<t, u>>[1] = t /\ <<t, u>>[2] = u
  OBVIOUS
<1>2. NextAt(<<t, u>>, 1) = 3 /\ OptionAt(<<t, u>>, 1) = Apart(t, u)
  BY <1>1 DEF NextAt, OptionAt
<1>x. 1 \in 1..(Len(<<t, u>>) + 2) /\ 3 \in 1..(Len(<<t, u>>) + 2) /\ 3 > Len(<<t, u>>) /\ 1 <= Len(<<t, u>>)
  BY <1>1
<1>3. From(<<t, u>>, says)[3] = <<>> /\ From(<<t, u>>, says)[1] = says[Apart(t, u)] \o From(<<t, u>>, says)[3]
  BY <1>1, <1>2, <1>x, FromStep
<1>4. says[Apart(t, u)] \in Seq(Option)
  BY ApartTyped DEF Says
<1>5. Splits(<<t, u>>, {1, 3})
  BY <1>1, <1>2 DEF Splits
<1> QED BY <1>3, <1>4, <1>5, CompleteSplits, ConcatEmptySeq
-----------------------------------------------------------------------------
(* The new command, option by option. *)

\* IfKept and Plain of a command and a headers tree.
Keeping(tree) ==
  [o \in Option |-> IF KeptOption(o) /\ (tree \/ ~o.arg.sentinel) THEN <<Resolved(o)>> ELSE <<>>]
PlainOption(o, tree) ==
  IF o.apart
  THEN /\ o.arg # NoArg
       /\ IF o.flag \in KeepTwoArg THEN tree \/ ~o.arg.sentinel
          ELSE ~KeptOption(o) /\ ~Kept(o.arg) /\ ~TakesNext(o.arg)
  ELSE o.flag \notin KeepTwoArg \ KeepPrefix
AllPlain(w, tree) == \A n \in DOMAIN Meaning(w) : PlainOption(Meaning(w)[n], tree)

\* The options of the flags that are kept.
Fit(o, tree) == KeptOption(o) /\ (o.apart => o.arg # NoArg /\ (tree \/ ~o.arg.sentinel))
AllFit(tokens, tree) == \A n \in DOMAIN Meaning(tokens) : Fit(Meaning(tokens)[n], tree)

\* An option begins at the i-th token, or the tokens end before it.
Behind(tokens, i) ==
  /\ i \in 1..(Len(tokens) + 1)
  /\ \E pre \in Seq(Option) : pre \o From(tokens, Itself)[i] = Meaning(tokens)

\* more is tokens with the option o after them.
Adds(tokens, more, o) ==
  /\ more \in Seq(Token) /\ Complete(more)
  /\ \A says \in Says : From(more, says)[1] = From(tokens, says)[1] \o says[o]

LEMMA ItselfSays == Itself \in Says
<1>1. ASSUME NEW o \in Option PROVE <<o>> \in Seq(Option)
  OBVIOUS
<1> QED BY <1>1 DEF Itself, Says

LEMMA ResolvedTyped == ASSUME NEW o \in Option PROVE Resolved(o) \in Option
<1>1. [o.arg EXCEPT !.sentinel = FALSE] \in Token
  BY DEF Option, Token
<1> QED BY <1>1 DEF Resolved, Option

LEMMA KeepingSays == ASSUME NEW tree PROVE Keeping(tree) \in Says
<1>1. ASSUME NEW o \in Option PROVE <<Resolved(o)>> \in Seq(Option) /\ <<>> \in Seq(Option)
  <2>1. Resolved(o) \in Option
    BY ResolvedTyped
  <2> QED BY <2>1
<1> QED BY <1>1 DEF Keeping, Says

LEMMA AddsPair ==
  ASSUME NEW tokens \in Seq(Token), Complete(tokens), NEW t \in Token, NEW u \in Token, Waits(t)
  PROVE  Adds(tokens, tokens \o <<t, u>>, Apart(t, u))
<1>1. <<t, u>> \in Seq(Token) /\ Complete(<<t, u>>)
  BY PairReads, ItselfSays
<1>2. tokens \o <<t, u>> \in Seq(Token) /\ Complete(tokens \o <<t, u>>)
  BY <1>1, ConcatProperties, CompleteConcat
<1>3. ASSUME NEW says \in Says
      PROVE  From(tokens \o <<t, u>>, says)[1] = From(tokens, says)[1] \o says[Apart(t, u)]
  <2>1. From(<<t, u>>, says)[1] = says[Apart(t, u)]
    BY PairReads
  <2>2. From(tokens \o <<t, u>>, says)[1] = From(tokens, says)[1] \o From(<<t, u>>, says)[1]
    BY <1>1, FromConcat
  <2> QED BY <2>1, <2>2
<1> QED BY <1>2, <1>3 DEF Adds

LEMMA AddsSingle ==
  ASSUME NEW tokens \in Seq(Token), Complete(tokens), NEW t \in Token, ~Waits(t)
  PROVE  Adds(tokens, tokens \o <<t>>, Joined(t))
<1>1. <<t>> \in Seq(Token) /\ Complete(<<t>>)
  BY SingleReads, ItselfSays
<1>2. tokens \o <<t>> \in Seq(Token) /\ Complete(tokens \o <<t>>)
  BY <1>1, ConcatProperties, CompleteConcat
<1>3. ASSUME NEW says \in Says
      PROVE  From(tokens \o <<t>>, says)[1] = From(tokens, says)[1] \o says[Joined(t)]
  <2>1. From(<<t>>, says)[1] = says[Joined(t)]
    BY SingleReads
  <2>2. From(tokens \o <<t>>, says)[1] = From(tokens, says)[1] \o From(<<t>>, says)[1]
    BY <1>1, FromConcat
  <2> QED BY <2>1, <2>2
<1> QED BY <1>2, <1>3 DEF Adds

\* What one more option does to what the tokens say.
LEMMA SaysMore ==
  ASSUME NEW a \in Seq(Option), NEW o \in Option
  PROVE  /\ a \o <<o>> \in Seq(Option) /\ DOMAIN (a \o <<o>>) = 1..(Len(a) + 1) /\ DOMAIN a = 1..Len(a)
         /\ Len(a) \in Nat /\ (a \o <<o>>)[Len(a) + 1] = o
         /\ \A n \in DOMAIN a : (a \o <<o>>)[n] = a[n]
<1>1. <<o>> \in Seq(Option) /\ Len(<<o>>) = 1 /\ <<o>>[1] = o
  OBVIOUS
<1> QED BY <1>1, ConcatProperties, LenProperties

LEMMA FirstIsBehind == ASSUME NEW tokens \in Seq(Token) PROVE Behind(tokens, 1)
<1>1. 1 \in 1..(Len(tokens) + 2) /\ 1 \in 1..(Len(tokens) + 1)
  <2>1. Len(tokens) \in Nat
    BY LenProperties
  <2> QED BY <2>1
<1>2. From(tokens, Itself)[1] \in Seq(Option)
  BY <1>1, ItselfSays, FromStep
<1>3. <<>> \in Seq(Option) /\ <<>> \o From(tokens, Itself)[1] = From(tokens, Itself)[1]
  BY <1>2, ConcatEmptySeq, EmptySeq
<1>4. \E pre \in Seq(Option) : pre \o From(tokens, Itself)[1] = Meaning(tokens)
  BY <1>3 DEF Meaning
<1> QED BY <1>1, <1>4 DEF Behind

\* The option at the i-th token is one of those the tokens mean, and the next begins behind it.
LEMMA OptionBehind ==
  ASSUME NEW tokens \in Seq(Token), NEW i, Behind(tokens, i), i <= Len(tokens)
  PROVE  /\ \E n \in DOMAIN Meaning(tokens) : Meaning(tokens)[n] = OptionAt(tokens, i)
         /\ NextAt(tokens, i) <= Len(tokens) + 1 => Behind(tokens, NextAt(tokens, i))
<1> DEFINE o == OptionAt(tokens, i)
<1>0. Len(tokens) \in Nat /\ i \in 1..Len(tokens) /\ i \in 1..(Len(tokens) + 2)
  BY LenProperties DEF Behind
<1>1. o \in Option /\ Itself[o] = <<o>> /\ <<o>> \in Seq(Option)
  <2>1. o \in Option
    BY <1>0, OptionTyped
  <2> QED BY <2>1 DEF Itself
<1>2. NextAt(tokens, i) \in 1..(Len(tokens) + 2)
  BY <1>0 DEF NextAt
<1> HIDE DEF o
<1>3. PICK rest : rest = From(tokens, Itself)[NextAt(tokens, i)]
  OBVIOUS
<1>4. rest \in Seq(Option) /\ From(tokens, Itself)[i] = <<o>> \o rest
  BY <1>0, <1>1, <1>2, <1>3, ItselfSays, FromStep DEF o
<1>5. PICK pre \in Seq(Option) : pre \o From(tokens, Itself)[i] = Meaning(tokens)
  BY DEF Behind
<1>6. Meaning(tokens) = (pre \o <<o>>) \o rest /\ pre \o <<o>> \in Seq(Option)
  <2>1. (pre \o <<o>>) \o rest = pre \o (<<o>> \o rest)
    BY <1>1, <1>4, OptionsAssociative
  <2> QED BY <1>1, <1>4, <1>5, <2>1, SaysMore
<1>7. \E n \in DOMAIN Meaning(tokens) : Meaning(tokens)[n] = o
  <2>1. PICK a : a = pre \o <<o>>
    OBVIOUS
  <2>2. a \in Seq(Option) /\ Len(a) \in Nat /\ Len(a) >= 1 /\ a[Len(a)] = o
    <3>1. Len(pre) \in Nat /\ Len(a) = Len(pre) + 1 /\ a[Len(pre) + 1] = o /\ a \in Seq(Option)
      BY <1>1, <2>1, SaysMore, ConcatProperties, LenProperties
    <3> QED BY <3>1
  <2>3. /\ a \o rest \in Seq(Option) /\ Len(a \o rest) = Len(a) + Len(rest) /\ Len(rest) \in Nat
        /\ \A m \in 1..Len(a) + Len(rest) : (a \o rest)[m] = IF m <= Len(a) THEN a[m] ELSE rest[m - Len(a)]
    BY <1>4, <2>2, ConcatProperties, LenProperties
  <2>4. Len(a) \in DOMAIN (a \o rest) /\ (a \o rest)[Len(a)] = o
    BY <2>2, <2>3, LenProperties
  <2> QED BY <1>6, <2>1, <2>4
<1>8. NextAt(tokens, i) <= Len(tokens) + 1 => Behind(tokens, NextAt(tokens, i))
  <2> SUFFICES ASSUME NextAt(tokens, i) <= Len(tokens) + 1 PROVE Behind(tokens, NextAt(tokens, i))
    OBVIOUS
  <2>1. NextAt(tokens, i) \in 1..(Len(tokens) + 1)
    BY <1>0, <1>2
  <2>2. \E q \in Seq(Option) : q \o From(tokens, Itself)[NextAt(tokens, i)] = Meaning(tokens)
    BY <1>3, <1>6
  <2> QED BY <2>1, <2>2 DEF Behind
<1> QED BY <1>7, <1>8 DEF o

\* An option with an argument of its own does not end past the tokens.
LEMMA NextWithin ==
  ASSUME NEW tokens \in Seq(Token), NEW i \in 1..Len(tokens),
         OptionAt(tokens, i).apart => OptionAt(tokens, i).arg # NoArg
  PROVE  /\ NextAt(tokens, i) \in 1..(Len(tokens) + 1)
         /\ Waits(tokens[i]) => i + 1 \in 1..Len(tokens) /\ OptionAt(tokens, i) = Apart(tokens[i], tokens[i + 1])
<1>1. Len(tokens) \in Nat
  BY LenProperties
<1>2. Waits(tokens[i]) => i < Len(tokens)
  BY <1>1 DEF OptionAt, Apart
<1> QED BY <1>1, <1>2 DEF NextAt, OptionAt
-----------------------------------------------------------------------------
(* The filter: kept are the flags fl, the next token of w is the at-th. *)

\* The flags and what is left of w say what w says.  The next token begins an option,
\* or is the argument of an option that was dropped, and is dropped like it.
Filters(w, tree, fl, at) ==
  /\ Complete(fl) /\ AllFit(fl, tree)
  /\ \E j \in {at, at + 1} :
       /\ Behind(w, j)
       /\ j # at => at \in DOMAIN w /\ ~TakesNext(w[at]) /\ ~Kept(w[at])
       /\ From(fl, Keeping(tree))[1] \o From(w, Keeping(tree))[j] = From(w, Keeping(tree))[1]

LEMMA FilterStarts ==
  ASSUME NEW w \in Seq(Token), NEW tree
  PROVE  Filters(w, tree, <<>>, 1)
<1>1. From(<<>>, Keeping(tree))[1] = <<>> /\ From(<<>>, Itself)[1] = <<>> /\ Complete(<<>>)
  BY EmptyReads, KeepingSays, ItselfSays
<1>2. AllFit(<<>>, tree)
  <2>1. Meaning(<<>>) = <<>> /\ DOMAIN <<>> = {}
    BY <1>1, EmptySeq DEF Meaning
  <2> QED BY <2>1 DEF AllFit
<1>3. From(w, Keeping(tree))[1] \in Seq(Option)
  <2>1. 1 \in 1..(Len(w) + 2)
    BY LenProperties
  <2> QED BY <2>1, KeepingSays, FromStep
<1>4. From(<<>>, Keeping(tree))[1] \o From(w, Keeping(tree))[1] = From(w, Keeping(tree))[1]
  BY <1>1, <1>3, ConcatEmptySeq
<1>5. Behind(w, 1)
  BY FirstIsBehind
<1> QED BY <1>1, <1>2, <1>4, <1>5 DEF Filters

\* A fit option moves from what is left to the flags.
LEMMA Kept1 ==
  ASSUME NEW w \in Seq(Token), NEW tree, NEW fl \in Seq(Token), AllFit(fl, tree),
         NEW j \in 1..Len(w), Behind(w, j),
         From(fl, Keeping(tree))[1] \o From(w, Keeping(tree))[j] = From(w, Keeping(tree))[1],
         NEW more, Adds(fl, more, OptionAt(w, j)), Fit(OptionAt(w, j), tree)
  PROVE  Filters(w, tree, more, NextAt(w, j))
<1> DEFINE o == OptionAt(w, j)
<1>0. Len(w) \in Nat /\ Len(fl) \in Nat /\ o \in Option
  BY LenProperties, OptionTyped
<1>1. NextAt(w, j) \in 1..(Len(w) + 1)
  BY NextWithin DEF Fit
<1>2. Behind(w, NextAt(w, j))
  BY <1>0, <1>1, OptionBehind
<1>3. From(more, Keeping(tree))[1] \o From(w, Keeping(tree))[NextAt(w, j)] = From(w, Keeping(tree))[1]
  <2>1. PICK a, b, c : /\ a = From(fl, Keeping(tree))[1] /\ b = Keeping(tree)[o]
                       /\ c = From(w, Keeping(tree))[NextAt(w, j)]
    OBVIOUS
  <2>2. From(more, Keeping(tree))[1] = a \o b
    BY <2>1, KeepingSays DEF Adds
  <2>3. From(w, Keeping(tree))[j] = b \o c
    <3>1. j \in 1..(Len(w) + 2) /\ j <= Len(w)
      BY <1>0
    <3> QED BY <2>1, <3>1, KeepingSays, FromStep
  <2>4. a \in Seq(Option)
    <3>1. 1 \in 1..(Len(fl) + 2)
      BY <1>0
    <3> QED BY <2>1, <3>1, KeepingSays, FromStep
  <2>5. b \in Seq(Option)
    BY <1>0, <2>1, KeepingSays DEF Says
  <2>6. c \in Seq(Option)
    <3>1. NextAt(w, j) \in 1..(Len(w) + 2)
      BY <1>0, <1>1
    <3> QED BY <2>1, <3>1, KeepingSays, FromStep
  <2>7. (a \o b) \o c = a \o (b \o c)
    BY <2>4, <2>5, <2>6, OptionsAssociative
  <2> QED BY <2>1, <2>2, <2>3, <2>7
<1>4. AllFit(more, tree)
  <2>1. PICK a : a = Meaning(fl)
    OBVIOUS
  <2>2. a \in Seq(Option)
    <3>1. 1 \in 1..(Len(fl) + 2)
      BY <1>0
    <3> QED BY <2>1, <3>1, ItselfSays, FromStep DEF Meaning
  <2>3. Meaning(more) = a \o <<o>>
    BY <1>0, <2>1, ItselfSays DEF Adds, Meaning, Itself
  <2>4. \A n \in DOMAIN (a \o <<o>>) : n \in DOMAIN a \/ n = Len(a) + 1
    BY <1>0, <2>2, SaysMore
  <2>5. ASSUME NEW n \in DOMAIN (a \o <<o>>) PROVE Fit((a \o <<o>>)[n], tree)
    <3>1. CASE n \in DOMAIN a
      BY <1>0, <2>1, <2>2, <3>1, SaysMore DEF AllFit
    <3>2. CASE n = Len(a) + 1
      BY <1>0, <2>2, <3>2, SaysMore
    <3> QED BY <2>4, <3>1, <3>2
  <2> QED BY <2>3, <2>5 DEF AllFit
<1>5. Complete(more)
  BY DEF Adds
<1> QED BY <1>2, <1>3, <1>4, <1>5 DEF Filters

\* An option that says nothing is passed over.
LEMMA Passed ==
  ASSUME NEW w \in Seq(Token), NEW says \in Says, NEW j \in 1..Len(w), NextAt(w, j) \in 1..(Len(w) + 1),
         says[OptionAt(w, j)] = <<>>
  PROVE  From(w, says)[j] = From(w, says)[NextAt(w, j)]
<1>1. j \in 1..(Len(w) + 2) /\ j <= Len(w) /\ NextAt(w, j) \in 1..(Len(w) + 2)
  BY LenProperties
<1>2. PICK c : c = From(w, says)[NextAt(w, j)]
  OBVIOUS
<1>3. c \in Seq(Option) /\ From(w, says)[j] = <<>> \o c
  BY <1>1, <1>2, FromStep
<1> QED BY <1>2, <1>3, ConcatEmptySeq

\* The plain option at a place an option begins at.
LEMMA PlainAt ==
  ASSUME NEW w \in Seq(Token), NEW tree, AllPlain(w, tree), NEW j \in 1..Len(w), Behind(w, j)
  PROVE  /\ PlainOption(OptionAt(w, j), tree)
         /\ NextAt(w, j) \in 1..(Len(w) + 1)
         /\ Behind(w, NextAt(w, j))
         /\ Waits(w[j]) => j + 1 \in 1..Len(w) /\ OptionAt(w, j) = Apart(w[j], w[j + 1])
<1>1. j <= Len(w)
  BY LenProperties
<1>2. PlainOption(OptionAt(w, j), tree)
  BY <1>1, OptionBehind DEF AllPlain
<1>3. OptionAt(w, j).apart => OptionAt(w, j).arg # NoArg
  BY <1>2 DEF PlainOption
<1>4. NextAt(w, j) \in 1..(Len(w) + 1) /\ NextAt(w, j) <= Len(w) + 1
  BY <1>3, NextWithin, LenProperties
<1> QED BY <1>1, <1>2, <1>3, <1>4, NextWithin, OptionBehind

\* _filter_flags appends a flag and its argument.
LEMMA FiltersPair ==
  ASSUME NEW w \in Seq(Token), NEW tree, AllPlain(w, tree), NEW fl \in Seq(Token),
         NEW at \in 1..Len(w), at + 1 \in 1..Len(w), Filters(w, tree, fl, at), TakesNext(w[at])
  PROVE  Filters(w, tree, fl \o <<w[at], w[at + 1]>>, at + 2)
<1>1. /\ Complete(fl) /\ AllFit(fl, tree) /\ Behind(w, at)
      /\ From(fl, Keeping(tree))[1] \o From(w, Keeping(tree))[at] = From(w, Keeping(tree))[1]
  BY DEF Filters
<1>2. w[at] \in Token /\ w[at + 1] \in Token
  BY ElementOfSeq
<1>3. Waits(w[at]) /\ w[at].opt \in KeepTwoArg
  BY FlagsAssumption DEF TakesNext, Waits
<1>4. OptionAt(w, at) = Apart(w[at], w[at + 1]) /\ PlainOption(OptionAt(w, at), tree) /\ NextAt(w, at) = at + 2
  BY <1>1, <1>3, PlainAt DEF NextAt
<1>5. Fit(OptionAt(w, at), tree)
  BY <1>3, <1>4 DEF PlainOption, Fit, KeptOption, Apart
<1>6. Adds(fl, fl \o <<w[at], w[at + 1]>>, OptionAt(w, at))
  BY <1>1, <1>2, <1>3, <1>4, AddsPair
<1> QED BY <1>1, <1>4, <1>5, <1>6, Kept1

\* It appends a flag alone.
LEMMA FiltersFlag ==
  ASSUME NEW w \in Seq(Token), NEW tree, AllPlain(w, tree), NEW fl \in Seq(Token),
         NEW at \in 1..Len(w), Filters(w, tree, fl, at),
         ~(TakesNext(w[at]) /\ at + 1 \in 1..Len(w)), Kept(w[at])
  PROVE  Filters(w, tree, fl \o <<w[at]>>, at + 1)
<1>1. /\ Complete(fl) /\ AllFit(fl, tree) /\ Behind(w, at)
      /\ From(fl, Keeping(tree))[1] \o From(w, Keeping(tree))[at] = From(w, Keeping(tree))[1]
  BY DEF Filters
<1>2. w[at] \in Token
  BY ElementOfSeq
<1>3. PlainOption(OptionAt(w, at), tree)
  BY <1>1, PlainAt
<1>4. ~Waits(w[at])
  <2> SUFFICES ASSUME Waits(w[at]) PROVE FALSE
    OBVIOUS
  <2>1. at + 1 \in 1..Len(w) /\ OptionAt(w, at) = Apart(w[at], w[at + 1])
    BY <1>1, PlainAt
  <2>2. w[at].opt \notin KeepTwoArg /\ w[at].opt \notin KeepBare
    BY <2>1, FlagsAssumption DEF TakesNext, Waits
  <2>3. ~KeptOption(Apart(w[at], w[at + 1]))
    BY <1>3, <2>1, <2>2 DEF PlainOption, Apart
  <2> QED BY <2>2, <2>3 DEF Kept, KeptOption, Apart
<1>5. OptionAt(w, at) = Joined(w[at]) /\ NextAt(w, at) = at + 1
  BY <1>4 DEF OptionAt, NextAt
<1>6. Fit(OptionAt(w, at), tree)
  <2>1. w[at].opt \notin KeepTwoArg \ KeepPrefix
    BY <1>2, <1>3, <1>5, JoinedFields DEF PlainOption
  <2> QED BY <1>2, <1>5, <2>1, JoinedFields DEF Fit, KeptOption, Kept, Bare
<1>7. Adds(fl, fl \o <<w[at]>>, OptionAt(w, at))
  BY <1>1, <1>2, <1>4, <1>5, AddsSingle
<1> QED BY <1>1, <1>5, <1>6, <1>7, Kept1

\* It leaves a token out.
LEMMA FiltersOut ==
  ASSUME NEW w \in Seq(Token), NEW tree, AllPlain(w, tree), NEW fl \in Seq(Token),
         NEW at \in 1..Len(w), Filters(w, tree, fl, at),
         ~(TakesNext(w[at]) /\ at + 1 \in 1..Len(w)), ~Kept(w[at])
  PROVE  Filters(w, tree, fl, at + 1)
<1>0. Len(w) \in Nat /\ DOMAIN w = 1..Len(w)
  BY LenProperties
<1>1. PICK j \in {at, at + 1} :
       /\ Behind(w, j)
       /\ j # at => at \in DOMAIN w /\ ~TakesNext(w[at]) /\ ~Kept(w[at])
       /\ From(fl, Keeping(tree))[1] \o From(w, Keeping(tree))[j] = From(w, Keeping(tree))[1]
  BY DEF Filters
<1>2. Complete(fl) /\ AllFit(fl, tree)
  BY DEF Filters
<1>3. CASE j = at + 1
  BY <1>1, <1>2, <1>3 DEF Filters
<1>4. CASE j = at
  <2> DEFINE o == OptionAt(w, at)
  <2>1. /\ PlainOption(o, tree) /\ NextAt(w, at) \in 1..(Len(w) + 1) /\ Behind(w, NextAt(w, at))
        /\ Waits(w[at]) => at + 1 \in 1..Len(w) /\ o = Apart(w[at], w[at + 1])
    BY <1>1, <1>4, PlainAt
  <2>2. w[at] \in Token /\ o \in Option
    BY ElementOfSeq, OptionTyped
  <2>3. CASE Waits(w[at])
    <3>1. o = Apart(w[at], w[at + 1]) /\ o.apart /\ o.flag = w[at].opt /\ o.arg = w[at + 1]
      BY <2>1, <2>3 DEF Apart
    <3>2. w[at].opt \notin KeepTwoArg
      BY <2>1, <2>3 DEF TakesNext, Waits
    <3>3. ~KeptOption(o) /\ ~Kept(w[at + 1]) /\ ~TakesNext(w[at + 1])
      BY <2>1, <3>1, <3>2 DEF PlainOption
    <3>4. Keeping(tree)[o] = <<>> /\ NextAt(w, at) = at + 2
      BY <2>2, <2>3, <3>3 DEF Keeping, NextAt
    <3>5. From(w, Keeping(tree))[at] = From(w, Keeping(tree))[at + 2]
      BY <2>1, <3>4, KeepingSays, Passed
    <3>6. at + 2 \in {at + 1, at + 1 + 1} /\ at + 1 \in DOMAIN w
      BY <1>0, <2>1, <2>3
    <3> QED BY <1>1, <1>2, <1>4, <2>1, <3>3, <3>4, <3>5, <3>6 DEF Filters
  <2>4. CASE ~Waits(w[at])
    <3>1. o = Joined(w[at]) /\ NextAt(w, at) = at + 1
      BY <2>4 DEF OptionAt, NextAt
    <3>2. ~KeptOption(o)
      <4>1. w[at].opt \notin KeepTwoArg \ KeepPrefix
        BY <2>1, <2>2, <3>1, JoinedFields DEF PlainOption
      <4> QED BY <2>2, <3>1, <4>1, JoinedFields DEF KeptOption, Kept, Bare
    <3>3. Keeping(tree)[o] = <<>>
      BY <2>2, <3>2 DEF Keeping
    <3>4. From(w, Keeping(tree))[at] = From(w, Keeping(tree))[at + 1]
      BY <2>1, <3>1, <3>3, KeepingSays, Passed
    <3> QED BY <1>1, <1>2, <1>4, <2>1, <3>1, <3>4 DEF Filters
  <2> QED BY <2>3, <2>4
<1> QED BY <1>3, <1>4

\* At the end the flags say what of w is worth keeping.
LEMMA FiltersAll ==
  ASSUME NEW w \in Seq(Token), NEW tree, NEW fl \in Seq(Token),
         NEW at \in Nat \ {0}, at \notin 1..Len(w), Filters(w, tree, fl, at)
  PROVE  Complete(fl) /\ AllFit(fl, tree) /\ From(fl, Keeping(tree))[1] = From(w, Keeping(tree))[1]
<1>0. Len(w) \in Nat /\ DOMAIN w = 1..Len(w) /\ Len(fl) \in Nat
  BY LenProperties
<1>1. /\ Complete(fl) /\ AllFit(fl, tree) /\ Behind(w, at)
      /\ From(fl, Keeping(tree))[1] \o From(w, Keeping(tree))[at] = From(w, Keeping(tree))[1]
  BY <1>0 DEF Filters
<1>2. at > Len(w) /\ at \in 1..(Len(w) + 2) /\ 1 \in 1..(Len(fl) + 2)
  BY <1>0, <1>1 DEF Behind
<1>3. From(w, Keeping(tree))[at] = <<>> /\ From(fl, Keeping(tree))[1] \in Seq(Option)
  BY <1>2, KeepingSays, FromStep
<1> QED BY <1>1, <1>3, ConcatEmptySeq
-----------------------------------------------------------------------------
(* The substitution: of the flags fl those before the p-th became su. *)

Sub(t) == [t EXCEPT !.sentinel = FALSE]

\* What is substituted and what is left of the flags say what is wanted.  Between a
\* flag and its argument, the flag is not counted in.
Substitutes(want, tree, fl, su, p) ==
  \E done \in Seq(Token) :
    /\ Complete(done)
    /\ \/ /\ Behind(fl, p) /\ su = done
          /\ Meaning(done) \o From(fl, Keeping(tree))[p] = want
       \/ /\ p \in 2..Len(fl) /\ Behind(fl, p - 1) /\ Waits(fl[p - 1])
          /\ su = done \o <<Sub(fl[p - 1])>>
          /\ Meaning(done) \o From(fl, Keeping(tree))[p - 1] = want

LEMMA SubFields ==
  ASSUME NEW t \in Token
  PROVE  /\ Sub(t) \in Token /\ Sub(t).opt = t.opt /\ Sub(t).val = t.val
         /\ (Waits(Sub(t)) <=> Waits(t)) /\ (Waits(t) => ~t.sentinel)
<1>1. Sub(t) \in Token /\ Sub(t).opt = t.opt /\ Sub(t).val = t.val
  BY DEF Sub, Token
<1>2. t.sentinel => t.val # ""
  BY DEF Token
<1> QED BY <1>1, <1>2 DEF Waits, Bare

LEMMA SubResolves ==
  ASSUME NEW t \in Token, NEW u \in Token
  PROVE  Resolved(Joined(t)) = Joined(Sub(t)) /\ Resolved(Apart(t, u)) = Apart(Sub(t), Sub(u))
<1>1. ASSUME NEW o \in Option
      PROVE  Resolved(o) = [flag |-> o.flag, arg |-> Sub(o.arg), apart |-> o.apart]
  <2>1. Resolved(o) = [o EXCEPT !.arg = Sub(o.arg)]
    BY DEF Resolved, Sub, Option
  <2>2. ASSUME NEW v PROVE [o EXCEPT !.arg = v] = [flag |-> o.flag, arg |-> v, apart |-> o.apart]
    <3>1. o = [flag |-> o.flag, arg |-> o.arg, apart |-> o.apart]
      BY DEF Option
    <3>2. PICK f, a, b : o = [flag |-> f, arg |-> a, apart |-> b]
      BY <3>1
    <3> QED BY <3>2
  <2> QED BY <2>1, <2>2
<1>2. Sub([t EXCEPT !.opt = ""]) = [Sub(t) EXCEPT !.opt = ""]
  BY DEF Sub, Token
<1>3. Sub(t).opt = t.opt
  BY SubFields
<1>4. Resolved(Joined(t)) = Joined(Sub(t))
  <2>1. Joined(t).flag = t.opt /\ Joined(t).arg = [t EXCEPT !.opt = ""] /\ Joined(t).apart = FALSE
    BY DEF Joined
  <2>2. Resolved(Joined(t)) = [flag |-> t.opt, arg |-> Sub([t EXCEPT !.opt = ""]), apart |-> FALSE]
    BY <1>1, <2>1, JoinedTyped
  <2> QED BY <1>2, <1>3, <2>2 DEF Joined
<1>5. Resolved(Apart(t, u)) = Apart(Sub(t), Sub(u))
  <2>1. Apart(t, u).flag = t.opt /\ Apart(t, u).arg = u /\ Apart(t, u).apart = TRUE
    BY DEF Apart
  <2>2. Resolved(Apart(t, u)) = [flag |-> t.opt, arg |-> Sub(u), apart |-> TRUE]
    BY <1>1, <2>1, ApartTyped
  <2> QED BY <1>3, <2>2 DEF Apart
<1> QED BY <1>4, <1>5

LEMMA TwoTokens ==
  ASSUME NEW t \in Token, NEW u \in Token
  PROVE  <<t>> \in Seq(Token) /\ <<u>> \in Seq(Token) /\ <<t>> \o <<u>> = <<t, u>>
<1>1. /\ <<t>> \in Seq(Token) /\ Len(<<t>>) = 1 /\ <<t>>[1] = t
      /\ <<u>> \in Seq(Token) /\ Len(<<u>>) = 1 /\ <<u>>[1] = u
      /\ <<t, u>> \in Seq(Token) /\ Len(<<t, u>>) = 2 /\ <<t, u>>[1] = t /\ <<t, u>>[2] = u
  OBVIOUS
<1>2. /\ <<t>> \o <<u>> \in Seq(Token) /\ Len(<<t>> \o <<u>>) = 2
      /\ (<<t>> \o <<u>>)[1] = t /\ (<<t>> \o <<u>>)[2] = u
  <2>1. Len(<<t>> \o <<u>>) = Len(<<t>>) + Len(<<u>>) /\ <<t>> \o <<u>> \in Seq(Token)
    BY <1>1, ConcatProperties
  <2>2. \A i \in 1..Len(<<t>>) + Len(<<u>>) :
          (<<t>> \o <<u>>)[i] = IF i <= Len(<<t>>) THEN <<t>>[i] ELSE <<u>>[i - Len(<<t>>)]
    BY <1>1, ConcatProperties
  <2> QED BY <1>1, <2>1, <2>2
<1>3. \A i \in 1..Len(<<t>> \o <<u>>) : (<<t>> \o <<u>>)[i] = <<t, u>>[i]
  <2>1. \A i \in 1..2 : i = 1 \/ i = 2
    OBVIOUS
  <2> QED BY <1>1, <1>2, <2>1
<1> QED BY <1>1, <1>2, <1>3, SeqEqual

\* The fit option at a place an option begins at.
LEMMA FitAt ==
  ASSUME NEW fl \in Seq(Token), NEW tree, AllFit(fl, tree), NEW j \in 1..Len(fl), Behind(fl, j)
  PROVE  /\ Fit(OptionAt(fl, j), tree)
         /\ NextAt(fl, j) \in 1..(Len(fl) + 1)
         /\ Behind(fl, NextAt(fl, j))
         /\ Waits(fl[j]) => j + 1 \in 1..Len(fl) /\ OptionAt(fl, j) = Apart(fl[j], fl[j + 1])
<1>1. j <= Len(fl)
  BY LenProperties
<1>2. Fit(OptionAt(fl, j), tree)
  BY <1>1, OptionBehind DEF AllFit
<1>3. OptionAt(fl, j).apart => OptionAt(fl, j).arg # NoArg
  BY <1>2 DEF Fit
<1>4. NextAt(fl, j) \in 1..(Len(fl) + 1) /\ NextAt(fl, j) <= Len(fl) + 1
  BY <1>3, NextWithin, LenProperties
<1> QED BY <1>1, <1>2, <1>3, <1>4, NextWithin, OptionBehind

\* An option moves, resolved, from the flags to what is substituted.
Moves(fl, tree, j, o) ==
  /\ j \in 1..Len(fl) /\ NextAt(fl, j) \in 1..(Len(fl) + 1)
  /\ o \in Option /\ Keeping(tree)[OptionAt(fl, j)] = <<o>>
LEMMA Moved ==
  ASSUME NEW fl \in Seq(Token), NEW tree, NEW j, NEW o, Moves(fl, tree, j, o),
         NEW done \in Seq(Token), NEW more, Adds(done, more, o)
  PROVE  Meaning(more) \o From(fl, Keeping(tree))[NextAt(fl, j)] = Meaning(done) \o From(fl, Keeping(tree))[j]
<1>0. Len(fl) \in Nat /\ Len(done) \in Nat
  BY LenProperties
<1>m. /\ j \in 1..Len(fl) /\ NextAt(fl, j) \in 1..(Len(fl) + 1)
      /\ o \in Option /\ Keeping(tree)[OptionAt(fl, j)] = <<o>>
  BY DEF Moves
<1>1. PICK a, b, c : a = Meaning(done) /\ b = <<o>> /\ c = From(fl, Keeping(tree))[NextAt(fl, j)]
  OBVIOUS
<1>2. Meaning(more) = a \o b
  BY <1>m, <1>1, ItselfSays DEF Adds, Meaning, Itself
<1>3. From(fl, Keeping(tree))[j] = b \o c
  <2>1. j \in 1..(Len(fl) + 2) /\ j <= Len(fl)
    BY <1>0, <1>m
  <2> QED BY <1>m, <1>1, <2>1, KeepingSays, FromStep
<1>4. a \in Seq(Option)
  <2>1. 1 \in 1..(Len(done) + 2)
    BY <1>0
  <2> QED BY <1>1, <2>1, ItselfSays, FromStep DEF Meaning
<1>5. b \in Seq(Option)
  BY <1>m, <1>1
<1>6. c \in Seq(Option)
  <2>1. NextAt(fl, j) \in 1..(Len(fl) + 2)
    BY <1>0, <1>m
  <2> QED BY <1>m, <1>1, <2>1, KeepingSays, FromStep
<1>7. (a \o b) \o c = a \o (b \o c)
  BY <1>4, <1>5, <1>6, OptionsAssociative
<1> QED BY <1>1, <1>2, <1>3, <1>7

\* A token is substituted.
LEMMA SubstitutesOne ==
  ASSUME NEW want, NEW tree, NEW fl \in Seq(Token), AllFit(fl, tree), NEW su, NEW p \in 1..Len(fl),
         Substitutes(want, tree, fl, su, p), tree \/ ~fl[p].sentinel
  PROVE  Substitutes(want, tree, fl, su \o <<Sub(fl[p])>>, p + 1)
<1>0. Len(fl) \in Nat /\ fl[p] \in Token
  BY LenProperties, ElementOfSeq
<1>1. PICK done \in Seq(Token) :
        /\ Complete(done)
        /\ \/ /\ Behind(fl, p) /\ su = done
              /\ Meaning(done) \o From(fl, Keeping(tree))[p] = want
           \/ /\ p \in 2..Len(fl) /\ Behind(fl, p - 1) /\ Waits(fl[p - 1])
              /\ su = done \o <<Sub(fl[p - 1])>>
              /\ Meaning(done) \o From(fl, Keeping(tree))[p - 1] = want
  BY DEF Substitutes
<1>2. CASE /\ Behind(fl, p) /\ su = done
           /\ Meaning(done) \o From(fl, Keeping(tree))[p] = want
  <2>1. /\ Fit(OptionAt(fl, p), tree) /\ NextAt(fl, p) \in 1..(Len(fl) + 1) /\ Behind(fl, NextAt(fl, p))
        /\ Waits(fl[p]) => p + 1 \in 1..Len(fl)
    BY <1>2, FitAt
  <2>2. CASE Waits(fl[p])
    <3>1. PICK q : q = p + 1
      OBVIOUS
    <3>2. q \in 2..Len(fl) /\ q - 1 = p
      BY <1>0, <2>1, <2>2, <3>1
    <3>3. Substitutes(want, tree, fl, su \o <<Sub(fl[p])>>, q)
      BY <1>1, <1>2, <2>2, <3>2 DEF Substitutes
    <3> QED BY <3>1, <3>3
  <2>3. CASE ~Waits(fl[p])
    <3>1. OptionAt(fl, p) = Joined(fl[p]) /\ NextAt(fl, p) = p + 1
      BY <2>3 DEF OptionAt, NextAt
    <3>2. Joined(fl[p]) \in Option /\ Joined(Sub(fl[p])) \in Option /\ ~Waits(Sub(fl[p])) /\ Sub(fl[p]) \in Token
      BY <1>0, <2>3, SubFields, JoinedTyped
    <3>3. Keeping(tree)[OptionAt(fl, p)] = <<Joined(Sub(fl[p]))>>
      <4>1. KeptOption(Joined(fl[p])) /\ (tree \/ ~Joined(fl[p]).arg.sentinel)
        BY <1>0, <2>1, <3>1, JoinedFields DEF Fit
      <4>2. Resolved(Joined(fl[p])) = Joined(Sub(fl[p]))
        BY <1>0, SubResolves
      <4> QED BY <3>1, <3>2, <4>1, <4>2 DEF Keeping
    <3>4. Adds(done, su \o <<Sub(fl[p])>>, Joined(Sub(fl[p])))
      BY <1>1, <1>2, <3>2, AddsSingle
    <3>5. Meaning(su \o <<Sub(fl[p])>>) \o From(fl, Keeping(tree))[p + 1] = want
      <4>1. PICK more, o : more = su \o <<Sub(fl[p])>> /\ o = Joined(Sub(fl[p]))
        OBVIOUS
      <4>2. Moves(fl, tree, p, o) /\ Adds(done, more, o)
        BY <2>1, <3>2, <3>3, <3>4, <4>1 DEF Moves
      <4>3. Meaning(more) \o From(fl, Keeping(tree))[NextAt(fl, p)] = Meaning(done) \o From(fl, Keeping(tree))[p]
        BY <4>2, Moved
      <4> QED BY <1>2, <3>1, <4>1, <4>3
    <3> QED BY <2>1, <3>1, <3>4, <3>5 DEF Substitutes, Adds
  <2> QED BY <2>2, <2>3
<1>3. CASE /\ p \in 2..Len(fl) /\ Behind(fl, p - 1) /\ Waits(fl[p - 1])
           /\ su = done \o <<Sub(fl[p - 1])>>
           /\ Meaning(done) \o From(fl, Keeping(tree))[p - 1] = want
  <2> DEFINE t == Sub(fl[p - 1])
             u == Sub(fl[p])
  <2>1. p - 1 \in 1..Len(fl) /\ (p - 1) + 1 = p /\ (p - 1) + 2 = p + 1
    BY <1>0, <1>3
  <2>2. /\ Fit(OptionAt(fl, p - 1), tree) /\ NextAt(fl, p - 1) \in 1..(Len(fl) + 1)
        /\ Behind(fl, NextAt(fl, p - 1)) /\ OptionAt(fl, p - 1) = Apart(fl[p - 1], fl[p])
    BY <1>3, <2>1, FitAt
  <2>3. NextAt(fl, p - 1) = p + 1
    BY <1>3, <2>1 DEF NextAt
  <2>4. fl[p - 1] \in Token /\ t \in Token /\ u \in Token /\ Waits(t)
    BY <1>0, <1>3, <2>1, ElementOfSeq, SubFields
  <2>5. Apart(fl[p - 1], fl[p]) \in Option /\ Apart(t, u) \in Option
    BY <1>0, <2>4, ApartTyped
  <2>6. Keeping(tree)[OptionAt(fl, p - 1)] = <<Apart(t, u)>>
    <3>1. KeptOption(Apart(fl[p - 1], fl[p])) /\ (tree \/ ~Apart(fl[p - 1], fl[p]).arg.sentinel)
      BY <2>2 DEF Fit, Apart
    <3>2. Resolved(Apart(fl[p - 1], fl[p])) = Apart(t, u)
      BY <1>0, <2>4, SubResolves
    <3> QED BY <2>2, <2>5, <3>1, <3>2 DEF Keeping
  <2> HIDE DEF t, u
  <2>7. su \o <<u>> = done \o <<t, u>>
    <3>1. su = done \o <<t>>
      BY <1>3 DEF t
    <3>2. <<t>> \in Seq(Token) /\ <<u>> \in Seq(Token) /\ <<t>> \o <<u>> = <<t, u>>
      BY <2>4, TwoTokens
    <3>3. (done \o <<t>>) \o <<u>> = done \o (<<t>> \o <<u>>)
      BY <3>2, ConcatAssociative
    <3> QED BY <3>1, <3>2, <3>3
  <2>8. Adds(done, su \o <<u>>, Apart(t, u))
    BY <1>1, <2>4, <2>7, AddsPair
  <2>9. Meaning(su \o <<u>>) \o From(fl, Keeping(tree))[p + 1] = want
    <3>1. PICK more, o, j : more = su \o <<u>> /\ o = Apart(t, u) /\ j = p - 1
      OBVIOUS
    <3>2. Moves(fl, tree, j, o) /\ Adds(done, more, o)
      BY <2>1, <2>2, <2>5, <2>6, <2>8, <3>1 DEF Moves
    <3>3. Meaning(more) \o From(fl, Keeping(tree))[NextAt(fl, j)] = Meaning(done) \o From(fl, Keeping(tree))[j]
      BY <3>2, Moved
    <3> QED BY <1>3, <2>3, <3>1, <3>3
  <2>10. Substitutes(want, tree, fl, su \o <<u>>, p + 1)
    BY <2>2, <2>3, <2>8, <2>9 DEF Substitutes, Adds
  <2> QED BY <2>10 DEF u
<1> QED BY <1>1, <1>2, <1>3

\* A token is dropped for its sentinel: it is an option, and none that is wanted.
LEMMA SubstitutesOut ==
  ASSUME NEW want, NEW tree, NEW fl \in Seq(Token), AllFit(fl, tree), NEW su, NEW p \in 1..Len(fl),
         Substitutes(want, tree, fl, su, p), ~tree, fl[p].sentinel
  PROVE  Substitutes(want, tree, fl, su, p + 1)
<1>0. Len(fl) \in Nat /\ fl[p] \in Token
  BY LenProperties, ElementOfSeq
<1>1. PICK done \in Seq(Token) :
        /\ Complete(done)
        /\ \/ /\ Behind(fl, p) /\ su = done
              /\ Meaning(done) \o From(fl, Keeping(tree))[p] = want
           \/ /\ p \in 2..Len(fl) /\ Behind(fl, p - 1) /\ Waits(fl[p - 1])
              /\ su = done \o <<Sub(fl[p - 1])>>
              /\ Meaning(done) \o From(fl, Keeping(tree))[p - 1] = want
  BY DEF Substitutes
<1>2. CASE /\ Behind(fl, p) /\ su = done
           /\ Meaning(done) \o From(fl, Keeping(tree))[p] = want
  <2>1. ~Waits(fl[p])
    BY <1>0, SubFields
  <2>2. OptionAt(fl, p) = Joined(fl[p]) /\ NextAt(fl, p) = p + 1
    BY <2>1 DEF OptionAt, NextAt
  <2>3. NextAt(fl, p) \in 1..(Len(fl) + 1) /\ Behind(fl, NextAt(fl, p))
    BY <1>2, FitAt
  <2>4. Keeping(tree)[OptionAt(fl, p)] = <<>>
    BY <1>0, <2>2, JoinedTyped, JoinedFields DEF Keeping
  <2>5. From(fl, Keeping(tree))[p] = From(fl, Keeping(tree))[p + 1]
    BY <2>2, <2>3, <2>4, KeepingSays, Passed
  <2> QED BY <1>1, <1>2, <2>2, <2>3, <2>5 DEF Substitutes
<1>3. CASE /\ p \in 2..Len(fl) /\ Behind(fl, p - 1) /\ Waits(fl[p - 1])
  <2>1. p - 1 \in 1..Len(fl) /\ (p - 1) + 1 = p
    BY <1>0, <1>3
  <2>2. Fit(OptionAt(fl, p - 1), tree) /\ OptionAt(fl, p - 1) = Apart(fl[p - 1], fl[p])
    BY <1>3, <2>1, FitAt
  <2> QED BY <2>2 DEF Fit, Apart
<1> QED BY <1>1, <1>2, <1>3

\* The substitution begins with nothing done.
LEMMA SubstitutionStarts ==
  ASSUME NEW want, NEW tree, NEW fl \in Seq(Token), From(fl, Keeping(tree))[1] = want
  PROVE  Substitutes(want, tree, fl, <<>>, 1)
<1>1. <<>> \in Seq(Token) /\ Complete(<<>>) /\ Meaning(<<>>) = <<>>
  BY EmptySeq, EmptyReads, ItselfSays DEF Meaning
<1>2. From(fl, Keeping(tree))[1] \in Seq(Option)
  <2>1. 1 \in 1..(Len(fl) + 2)
    BY LenProperties
  <2> QED BY <2>1, KeepingSays, FromStep
<1>3. Meaning(<<>>) \o From(fl, Keeping(tree))[1] = want
  BY <1>1, <1>2, ConcatEmptySeq
<1>4. Behind(fl, 1)
  BY FirstIsBehind
<1> QED BY <1>1, <1>3, <1>4 DEF Substitutes

\* At the end what is substituted says what is wanted.
LEMMA SubstitutesAll ==
  ASSUME NEW want, NEW tree, NEW fl \in Seq(Token), NEW su, NEW p \in Nat \ {0}, p \notin 1..Len(fl),
         Substitutes(want, tree, fl, su, p)
  PROVE  su \in Seq(Token) /\ Complete(su) /\ Meaning(su) = want
<1>0. Len(fl) \in Nat
  BY LenProperties
<1>1. p > Len(fl) /\ p \notin 2..Len(fl)
  BY <1>0
<1>2. /\ su \in Seq(Token) /\ Complete(su) /\ Behind(fl, p)
      /\ Meaning(su) \o From(fl, Keeping(tree))[p] = want
  BY <1>1 DEF Substitutes
<1>3. p \in 1..(Len(fl) + 2)
  BY <1>0, <1>2 DEF Behind
<1>4. From(fl, Keeping(tree))[p] = <<>>
  BY <1>1, <1>3, KeepingSays, FromStep
<1>5. Meaning(su) \in Seq(Option)
  <2>1. 1 \in 1..(Len(su) + 2)
    BY <1>2, LenProperties
  <2> QED BY <1>2, <2>1, ItselfSays, FromStep DEF Meaning
<1> QED BY <1>2, <1>4, <1>5, ConcatEmptySeq
-----------------------------------------------------------------------------
(* The property. *)

\* What of a command is worth keeping, as an option each.
Wanted(w, tree) == From(w, Keeping(tree))[1]
Faithful ==
  Plain =>
    /\ phase = "filter" => Filters(Tail(argv), headersTree, flags, pos - 1)
    /\ phase = "substitute" =>
         /\ AllFit(flags, headersTree)
         /\ Substitutes(Wanted(Tail(argv), headersTree), headersTree, flags, substituted, pos)
    /\ phase = "run" => Meaning(cmd) = Expected

LEMMA PlainMeans == Plain <=> AllPlain(Tail(argv), headersTree)
  BY DEF Plain, AllPlain, PlainOption

LEMMA IfKeptMeans == IfKept = Keeping(headersTree)
  BY DEF IfKept, Keeping

\* The tokens of a recorded command behind the compiler.
LEMMA Behind1 ==
  ASSUME NEW s \in Argvs
  PROVE  /\ Tail(s) \in Seq(Token) /\ DOMAIN Tail(s) = 1..(Len(s) - 1)
         /\ Len(Tail(s)) = Len(s) - 1 /\ Len(s) \in Nat \ {0} /\ DOMAIN s = 1..Len(s)
         /\ \A i \in 1..(Len(s) - 1) : Tail(s)[i] = s[i + 1]
<1>1. s \in Seq(Token) /\ Len(s) \in Nat \ {0} /\ s # <<>>
  BY Command, FlagsAssumption
<1>2. Tail(s) \in Seq(Token) /\ Len(Tail(s)) = Len(s) - 1 /\ \A i \in 1..Len(Tail(s)) : Tail(s)[i] = s[i + 1]
  BY <1>1, HeadTailProperties
<1> QED BY <1>1, <1>2, LenProperties

\* The command line of Run says what the flags, the extra options and the source say.
LEMMA Composed ==
  ASSUME NEW su \in Seq(Token), Complete(su), NEW out \in {OutPath, <<>>}
  PROVE  Meaning(su \o ExtraCopts \o <<Src>> \o out)
           = Meaning(su) \o Meaning(ExtraCopts) \o <<Joined(Src)>> \o Meaning(out)
<1>1. ExtraCopts \in Seq(Token) /\ Complete(ExtraCopts) /\ Src \in Token /\ ~Waits(Src)
  BY FlagsAssumption DEF Waits
<1>2. PICK a : a = su \o ExtraCopts
  OBVIOUS
<1>3. a \in Seq(Token) /\ Complete(a) /\ Meaning(a) = Meaning(su) \o Meaning(ExtraCopts)
  BY <1>1, <1>2, ItselfSays, FromConcat, CompleteConcat, ConcatProperties DEF Meaning
<1>4. PICK b : b = a \o <<Src>>
  OBVIOUS
<1>5. b \in Seq(Token) /\ Complete(b) /\ Meaning(b) = Meaning(a) \o <<Joined(Src)>>
  <2>1. Adds(a, b, Joined(Src))
    BY <1>1, <1>3, <1>4, AddsSingle
  <2>2. Joined(Src) \in Option
    BY <1>1, JoinedTyped
  <2> QED BY <2>1, <2>2, ItselfSays DEF Adds, Meaning, Itself
<1>6. out \in Seq(Token)
  BY OutPathTyped, EmptySeq
<1>7. Meaning(b \o out) = Meaning(b) \o Meaning(out)
  BY <1>5, <1>6, ItselfSays, FromConcat DEF Meaning
<1> QED BY <1>2, <1>3, <1>4, <1>5, <1>7

LEMMA FaithfulInit == Init => Faithful
<1> SUFFICES ASSUME Init PROVE Faithful
  OBVIOUS
<1>1. Tail(argv) \in Seq(Token)
  BY Behind1 DEF Init
<1>2. Filters(Tail(argv), headersTree, <<>>, 1)
  BY <1>1, FilterStarts
<1> QED BY <1>2 DEF Init, Faithful

LEMMA FaithfulStep == Types /\ Faithful /\ [Next]_vars => Faithful'
<1> SUFFICES ASSUME Types, Faithful, [Next]_vars PROVE Faithful'
  OBVIOUS
<1>1. PICK w, tree : w = Tail(argv) /\ tree = headersTree
  OBVIOUS
<1>2. w = Tail(argv)' /\ tree = headersTree'
  BY <1>1 DEF Next, vars, KeepPair, KeepFlag, DropFlag, Filtered, Substitute, DropSentinel, Run, Done
<1>3. (Plain <=> AllPlain(w, tree)) /\ (Plain' <=> AllPlain(w, tree))
  <2>1. Plain' <=> AllPlain(Tail(argv), headersTree)'
    BY DEF Plain, AllPlain, PlainOption
  <2>2. AllPlain(Tail(argv), headersTree)' <=> AllPlain(w, tree)
    BY <1>2 DEF AllPlain, PlainOption
  <2> QED BY <1>1, <2>1, <2>2, PlainMeans
<1> SUFFICES ASSUME AllPlain(w, tree)
             PROVE  /\ phase' = "filter" => Filters(w, tree, flags', pos' - 1)
                    /\ phase' = "substitute" =>
                         AllFit(flags', tree) /\ Substitutes(Wanted(w, tree), tree, flags', substituted', pos')
                    /\ phase' = "run" => Meaning(cmd') = Expected'
  BY <1>2, <1>3 DEF Faithful
<1>4. /\ w \in Seq(Token) /\ Len(w) = Len(argv) - 1 /\ DOMAIN w = 1..Len(w) /\ Len(argv) \in Nat \ {0}
      /\ DOMAIN argv = 1..Len(argv) /\ \A i \in 1..Len(w) : w[i] = argv[i + 1]
      /\ flags \in Seq(Token) /\ DOMAIN flags = 1..Len(flags) /\ Len(flags) \in Nat
      /\ substituted \in Seq(Token) /\ pos \in Nat \ {0}
  BY <1>1, Behind1, LenProperties DEF Types
<1>5. /\ phase = "filter" => Filters(w, tree, flags, pos - 1) /\ pos >= 2
      /\ phase = "substitute" =>
           AllFit(flags, tree) /\ Substitutes(Wanted(w, tree), tree, flags, substituted, pos)
      /\ phase = "run" => Meaning(cmd) = Expected
  BY <1>1, <1>3 DEF Faithful, Types, Far
<1>6. ASSUME Scanning
      PROVE  pos - 1 \in 1..Len(w) /\ w[pos - 1] = argv[pos]
  BY <1>4, <1>5, <1>6 DEF Scanning
<1>7. CASE KeepPair
  <2>1. pos - 1 \in 1..Len(w) /\ w[pos - 1] = argv[pos] /\ phase = "filter"
    BY <1>6, <1>7 DEF KeepPair, Scanning
  <2>2. (pos - 1) + 1 \in 1..Len(w) /\ w[(pos - 1) + 1] = argv[pos + 1]
    BY <1>4, <1>7, <2>1 DEF KeepPair
  <2>3. Filters(w, tree, flags \o <<w[pos - 1], w[(pos - 1) + 1]>>, (pos - 1) + 2)
    BY <1>4, <1>5, <1>7, <2>1, <2>2, FiltersPair DEF KeepPair
  <2>4. (pos - 1) + 2 = pos' - 1
    BY <1>4, <1>7 DEF KeepPair
  <2> QED BY <1>7, <2>1, <2>2, <2>3, <2>4 DEF KeepPair
<1>8. CASE KeepFlag
  <2>1. pos - 1 \in 1..Len(w) /\ w[pos - 1] = argv[pos] /\ phase = "filter"
    BY <1>6, <1>8 DEF KeepFlag, Scanning
  <2>2. (pos - 1) + 1 \in 1..Len(w) <=> pos + 1 \in DOMAIN argv
    BY <1>4
  <2>3. Filters(w, tree, flags \o <<w[pos - 1]>>, (pos - 1) + 1)
    BY <1>4, <1>5, <1>8, <2>1, <2>2, FiltersFlag DEF KeepFlag, Single
  <2>4. (pos - 1) + 1 = pos' - 1
    BY <1>4, <1>8 DEF KeepFlag
  <2>5. flags' = flags \o <<w[pos - 1]>>
    <3>1. w[pos - 1] \in Token
      BY <1>4, <2>1, ElementOfSeq
    <3> QED BY <1>4, <1>8, <2>1, <3>1, AppendIsConcat DEF KeepFlag
  <2> QED BY <1>8, <2>1, <2>3, <2>4, <2>5 DEF KeepFlag
<1>9. CASE DropFlag
  <2>1. pos - 1 \in 1..Len(w) /\ w[pos - 1] = argv[pos] /\ phase = "filter"
    BY <1>6, <1>9 DEF DropFlag, Scanning
  <2>2. (pos - 1) + 1 \in 1..Len(w) <=> pos + 1 \in DOMAIN argv
    BY <1>4
  <2>3. Filters(w, tree, flags, (pos - 1) + 1)
    BY <1>4, <1>5, <1>9, <2>1, <2>2, FiltersOut DEF DropFlag, Single
  <2>4. (pos - 1) + 1 = pos' - 1
    BY <1>4, <1>9 DEF DropFlag
  <2> QED BY <1>9, <2>1, <2>3, <2>4 DEF DropFlag
<1>10. CASE Filtered
  <2>1. phase = "filter" /\ pos - 1 \in Nat \ {0} /\ pos - 1 \notin 1..Len(w)
    BY <1>4, <1>5, <1>10 DEF Filtered
  <2>2. AllFit(flags, tree) /\ From(flags, Keeping(tree))[1] = Wanted(w, tree)
    BY <1>4, <1>5, <2>1, FiltersAll DEF Wanted
  <2>3. Substitutes(Wanted(w, tree), tree, flags, <<>>, 1)
    BY <1>4, <2>2, SubstitutionStarts
  <2>4. substituted = <<>>
    BY <2>1 DEF Types, Slow
  <2> QED BY <1>10, <2>2, <2>3, <2>4 DEF Filtered
<1>11. CASE Substitute
  <2>1. phase = "substitute" /\ pos \in 1..Len(flags) /\ (tree \/ ~flags[pos].sentinel)
    BY <1>1, <1>4, <1>11 DEF Substitute, Substituting
  <2>2. Substitutes(Wanted(w, tree), tree, flags, substituted \o <<Sub(flags[pos])>>, pos + 1)
    BY <1>4, <1>5, <2>1, SubstitutesOne
  <2>3. substituted' = substituted \o <<Sub(flags[pos])>>
    <3>1. Sub(flags[pos]) \in Token
      BY <1>4, <2>1, ElementOfSeq, SubFields
    <3> QED BY <1>4, <1>11, <3>1, AppendIsConcat DEF Substitute, Sub
  <2> QED BY <1>5, <1>11, <2>1, <2>2, <2>3 DEF Substitute
<1>12. CASE DropSentinel
  <2>1. phase = "substitute" /\ pos \in 1..Len(flags) /\ ~tree /\ flags[pos].sentinel
    BY <1>1, <1>4, <1>12 DEF DropSentinel, Substituting
  <2>2. Substitutes(Wanted(w, tree), tree, flags, substituted, pos + 1)
    BY <1>4, <1>5, <2>1, SubstitutesOut
  <2> QED BY <1>5, <1>12, <2>1, <2>2 DEF DropSentinel
<1>13. CASE Run
  <2>1. phase = "substitute" /\ pos \notin 1..Len(flags)
    BY <1>4, <1>13 DEF Run
  <2>2. substituted \in Seq(Token) /\ Complete(substituted) /\ Meaning(substituted) = Wanted(w, tree)
    BY <1>4, <1>5, <2>1, SubstitutesAll
  <2>3. PICK out : out = IF mode = "llvm" THEN OutPath ELSE <<>>
    OBVIOUS
  <2>4. cmd' = substituted \o ExtraCopts \o <<Src>> \o out
    BY <1>13, <2>3 DEF Run
  <2>5. Meaning(cmd') = Wanted(w, tree) \o Meaning(ExtraCopts) \o <<Joined(Src)>> \o Meaning(out)
    BY <2>2, <2>3, <2>4, Composed
  <2>6. Meaning(out) = IF mode = "llvm" THEN Meaning(OutPath) ELSE <<>>
    BY <2>3, EmptyReads, ItselfSays DEF Meaning
  <2>7. Expected' = Wanted(w, tree) \o Meaning(ExtraCopts) \o <<Joined(Src)>>
                      \o (IF mode = "llvm" THEN Meaning(OutPath) ELSE <<>>)
    <3>1. IfKept' = Keeping(tree)
      BY <1>2 DEF IfKept, Keeping
    <3> QED BY <1>2, <1>13, <3>1 DEF Expected, Wanted, Run
  <2> QED BY <1>13, <2>5, <2>6, <2>7 DEF Run
<1>14. CASE UNCHANGED vars
  <2>1. phase' = phase /\ flags' = flags /\ pos' = pos /\ substituted' = substituted /\ cmd' = cmd
    BY <1>14 DEF vars
  <2>2. Expected' = Expected
    BY <1>14 DEF vars, Expected, IfKept
  <2> QED BY <1>5, <2>1, <2>2
<1>15. CASE Done
  BY <1>14, <1>15 DEF Done
<1> QED BY <1>7, <1>8, <1>9, <1>10, <1>11, <1>12, <1>13, <1>14, <1>15 DEF Next

\* Whatever the sets of flags and the recorded command, if the command is plain then
\* clang is told what it said with the flags worth keeping, in their order, every
\* option with its own argument, and the source as the only input.
THEOREM SameMeaning == Spec => []FlagsMeanTheSame
<1>1. Types /\ Faithful => FlagsMeanTheSame
  BY DEF Faithful, FlagsMeanTheSame
<1>2. Spec => []Faithful
  BY FaithfulInit, FaithfulStep, TypesAlways, PTL DEF Spec
<1> QED BY <1>1, <1>2, TypesAlways, PTL
=============================================================================
