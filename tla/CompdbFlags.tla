----------------------------- MODULE CompdbFlags -----------------------------
(***************************************************************************)
(* rules/c/cli/dump_from_compdb.py, _process: the recorded command becomes *)
(* the command line clang is run with.  The flags worth keeping are        *)
(* filtered out of it one token after the other, then the sentinel of the  *)
(* headers tree is replaced in each, or the token dropped.                 *)
(*                                                                         *)
(* A token is split where the filter and clang split it: opt is the flag   *)
(* it begins with ("" for none), val the text after it ("" for none),      *)
(* sentinel whether ${MESON_HEADERS_TREE} occurs in that text.             *)
(***************************************************************************)
EXTENDS Naturals, Sequences

CONSTANTS
  Opt, Val,     \* the spellings of flags and of what follows them
  KeepBare,     \* KEEP_BARE
  KeepPrefix,   \* KEEP_PREFIX_INLINE
  KeepTwoArg,   \* KEEP_TWO_ARG
  Separable,    \* external: the flags clang takes the next token as the argument of
  Argvs,        \* the recorded commands, the compiler first
  ExtraCopts,   \* --extra-copts, the last of them complete
  Src           \* the source, as _process resolves it

Token == {t \in [opt : Opt \cup {""}, val : Val \cup {""}, sentinel : BOOLEAN] :
            t.sentinel => t.val # ""}

Bare(t) == t.val = ""
\* External: clang takes the next token as the argument of this one.
Waits(t) == Bare(t) /\ t.opt \in Separable

\* The tokens split into whole options: none waits for an argument after the last.
Complete(tokens) ==
  \E starts \in SUBSET (1..(Len(tokens) + 1)) :
    /\ {1, Len(tokens) + 1} \subseteq starts
    /\ \A i \in starts \cap DOMAIN tokens : (IF Waits(tokens[i]) THEN i + 2 ELSE i + 1) \in starts

ASSUME FlagsAssumption ==
  /\ "" \notin Opt /\ "" \notin Val /\ "-o" \in Opt /\ "out_path" \in Val
  /\ KeepBare \subseteq Opt \ Separable /\ KeepPrefix \subseteq Opt
  /\ KeepTwoArg \subseteq Separable /\ Separable \subseteq Opt
  /\ Argvs \subseteq Seq(Token) \ {<<>>}
  /\ ExtraCopts \in Seq(Token) /\ Complete(ExtraCopts)
  /\ Src \in Token /\ Src.opt = ""

Modes == {"ast", "llvm"}

VARIABLES
  argv,         \* the recorded command
  mode,         \* --mode
  headersTree,  \* whether --headers-tree is given
  phase,        \* "filter", "substitute", "run"
  pos,          \* the next token of argv, then of flags
  flags,        \* out of _filter_flags
  substituted,  \* the flags after the substitution
  cmd           \* what clang is run with, but for the tool's own first flags

vars == <<argv, mode, headersTree, phase, pos, flags, substituted, cmd>>

\* argv[0] is the recorded compiler.
Init ==
  /\ argv \in Argvs
  /\ mode \in Modes
  /\ headersTree \in BOOLEAN
  /\ phase = "filter" /\ pos = 2
  /\ flags = <<>> /\ substituted = <<>> /\ cmd = <<>>
-----------------------------------------------------------------------------
TakesNext(t) == Bare(t) /\ t.opt \in KeepTwoArg
Kept(t) == (Bare(t) /\ t.opt \in KeepBare) \/ t.opt \in KeepPrefix

Scanning == phase = "filter" /\ pos \in DOMAIN argv

\* Mutated form: the argument is looked at again.
KeepPairAgain ==
  /\ Scanning /\ TakesNext(argv[pos]) /\ pos + 1 \in DOMAIN argv
  /\ flags' = flags \o <<argv[pos], argv[pos + 1]>>
  /\ pos' = pos + 1
  /\ UNCHANGED <<argv, mode, headersTree, phase, substituted, cmd>>

\* Mutated form: the argument is left to the other tests.
KeepPairAlone ==
  /\ Scanning /\ TakesNext(argv[pos]) /\ pos + 1 \in DOMAIN argv
  /\ flags' = Append(flags, argv[pos])
  /\ pos' = pos + 1
  /\ UNCHANGED <<argv, mode, headersTree, phase, substituted, cmd>>

KeepPair ==
  /\ Scanning /\ TakesNext(argv[pos]) /\ pos + 1 \in DOMAIN argv
  /\ flags' = flags \o <<argv[pos], argv[pos + 1]>>
  /\ pos' = pos + 2
  /\ UNCHANGED <<argv, mode, headersTree, phase, substituted, cmd>>

\* A token that wants an argument and is the last is a token like any other.
Single(t) == ~(TakesNext(t) /\ pos + 1 \in DOMAIN argv)

KeepFlag ==
  /\ Scanning /\ Single(argv[pos]) /\ Kept(argv[pos])
  /\ flags' = Append(flags, argv[pos])
  /\ pos' = pos + 1
  /\ UNCHANGED <<argv, mode, headersTree, phase, substituted, cmd>>

DropFlag ==
  /\ Scanning /\ Single(argv[pos]) /\ ~Kept(argv[pos])
  /\ pos' = pos + 1
  /\ UNCHANGED <<argv, mode, headersTree, phase, flags, substituted, cmd>>

Filtered ==
  /\ phase = "filter" /\ pos \notin DOMAIN argv
  /\ phase' = "substitute" /\ pos' = 1
  /\ UNCHANGED <<argv, mode, headersTree, flags, substituted, cmd>>
-----------------------------------------------------------------------------
Substituting == phase = "substitute" /\ pos \in DOMAIN flags

Substitute ==
  /\ Substituting /\ (headersTree \/ ~flags[pos].sentinel)
  /\ substituted' = Append(substituted, [flags[pos] EXCEPT !.sentinel = FALSE])
  /\ pos' = pos + 1
  /\ UNCHANGED <<argv, mode, headersTree, phase, flags, cmd>>

\* _substitute_headers_tree returns None: the token is left out, whatever is before it.
DropSentinel ==
  /\ Substituting /\ ~headersTree /\ flags[pos].sentinel
  /\ pos' = pos + 1
  /\ UNCHANGED <<argv, mode, headersTree, phase, flags, substituted, cmd>>

OutPath == <<[opt |-> "-o", val |-> "", sentinel |-> FALSE], [opt |-> "", val |-> "out_path", sentinel |-> FALSE]>>

Run ==
  /\ phase = "substitute" /\ pos \notin DOMAIN flags
  /\ phase' = "run"
  /\ cmd' = substituted \o ExtraCopts \o <<Src>> \o (IF mode = "llvm" THEN OutPath ELSE <<>>)
  /\ UNCHANGED <<argv, mode, headersTree, pos, flags, substituted>>

Done == phase = "run" /\ UNCHANGED vars

Next ==
  \/ KeepPair \/ KeepFlag \/ DropFlag \/ Filtered
  \/ Substitute \/ DropSentinel \/ Run \/ Done
Spec == Init /\ [][Next]_vars
-----------------------------------------------------------------------------
TypeOK ==
  /\ argv \in Seq(Token) /\ mode \in Modes /\ headersTree \in BOOLEAN
  /\ phase \in {"filter", "substitute", "run"}
  /\ pos \in 1..(Len(argv) + 1)
  /\ Len(substituted) <= Len(flags) /\ Len(flags) < Len(argv)
  /\ flags \in Seq(Token) /\ substituted \in Seq(Token) /\ cmd \in Seq(Token)

(***************************************************************************)
(* External: how clang reads a command line.  An option is its flag and    *)
(* its argument, written on or apart; an input has no flag.                *)
(***************************************************************************)
NoArg == [opt |-> "", val |-> "", sentinel |-> FALSE]
Apart(t, u) == [flag |-> t.opt, arg |-> u, apart |-> TRUE]
Joined(t) == [flag |-> t.opt, arg |-> [t EXCEPT !.opt = ""], apart |-> FALSE]
Option == [flag : Opt \cup {""}, arg : Token, apart : BOOLEAN]

\* What the tokens from the i-th on say, when says tells what one option does.
From(tokens, says) ==
  LET read[i \in 1..(Len(tokens) + 2)] ==
        IF i > Len(tokens) THEN <<>>
        ELSE IF Waits(tokens[i])
             THEN says[Apart(tokens[i], IF i < Len(tokens) THEN tokens[i + 1] ELSE NoArg)] \o read[i + 2]
             ELSE says[Joined(tokens[i])] \o read[i + 1]
  IN read
Itself == [o \in Option |-> <<o>>]
Meaning(tokens) == From(tokens, Itself)[1]

KeptOption(o) ==
  \/ o.flag \in KeepTwoArg \cup KeepPrefix
  \/ o.flag \in KeepBare /\ ~o.apart /\ o.arg.val = ""

\* The commands the filter is written for: an argument is apart only from a flag of
\* KEEP_TWO_ARG, or from one that is dropped and then is not like a flag to keep; the
\* former is never written on; a sentinel that is apart has its headers tree.
Plain ==
  LET options == Meaning(Tail(argv))
  IN \A i \in DOMAIN options :
       LET o == options[i]
       IN IF o.apart
          THEN /\ o.arg # NoArg
               /\ IF o.flag \in KeepTwoArg THEN headersTree \/ ~o.arg.sentinel
                  ELSE ~KeptOption(o) /\ ~Kept(o.arg) /\ ~TakesNext(o.arg)
          ELSE o.flag \notin KeepTwoArg \ KeepPrefix

Resolved(o) == [o EXCEPT !.arg.sentinel = FALSE]
IfKept ==
  [o \in Option |-> IF KeptOption(o) /\ (headersTree \/ ~o.arg.sentinel) THEN <<Resolved(o)>> ELSE <<>>]
Expected ==
  From(Tail(argv), IfKept)[1] \o Meaning(ExtraCopts) \o <<Joined(Src)>>
  \o (IF mode = "llvm" THEN Meaning(OutPath) ELSE <<>>)

\* To clang the new command says what the recorded one said with the flags worth
\* keeping, in their order: every option with its own argument, none with another's,
\* then the extra options, and the source as the only input.
FlagsMeanTheSame == phase = "run" /\ Plain => Meaning(cmd) = Expected
=============================================================================
