---------------------------- MODULE MCCompdbFlags ----------------------------
(***************************************************************************)
(* Recorded commands of up to four tokens after the compiler, out of one   *)
(* for each way the filter and clang can take a token.                     *)
(***************************************************************************)
EXTENDS CompdbFlags

MCOpt == {"-I", "-isystem", "-target", "-fno-", "-pthread", "-o", "-c"}
MCVal == {"dir", "gen", "name", "out_path"}
MCKeepBare == {"-pthread"}
MCKeepPrefix == {"-I", "-target", "-fno-"}
MCKeepTwoArg == {"-isystem", "-target"}
MCSeparable == {"-I", "-isystem", "-target", "-o"}

T(opt, val, sentinel) == [opt |-> opt, val |-> val, sentinel |-> sentinel]
MCTokens ==
  {T("-I", "dir", FALSE), T("-I", "gen", TRUE), T("-I", "", FALSE),
   T("-isystem", "", FALSE), T("-isystem", "dir", FALSE), T("-target", "", FALSE),
   T("-fno-", "name", FALSE), T("-pthread", "", FALSE), T("-o", "", FALSE), T("-c", "", FALSE),
   T("", "name", FALSE), T("", "gen", TRUE)}
Compiler == T("", "name", FALSE)
MCArgvs == {<<Compiler>> \o s : s \in UNION {[1..n -> MCTokens] : n \in 0..4}}
MCExtraCopts == <<T("-fno-", "name", FALSE)>>
MCSrc == T("", "name", FALSE)
=============================================================================
