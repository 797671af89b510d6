---------------------------- MODULE MCCompdbDump ----------------------------
(***************************************************************************)
(* Small instances of CompdbDump.  Entries 1 and 2 compile the same source *)
(* with different flags, as the database of a project that builds one file *)
(* into two libraries has it; their texts have different lengths.          *)
(***************************************************************************)
EXTENDS CompdbDump

SharedSource == <<"common.c", "common.c", "numeric.c">>
SharedBlocks == <<1, 2, 1>>

\* Five entries: two of one source, one of its own, one whose source is absent,
\* and one without "file", which the two overlapping globs see as "" and do not
\* let through.
FaultySource == <<"common.c", "common.c", "varlena.c", "gone.c", "">>
FaultyBlocks == <<1, 2, 1, 1, 1>>
PartlyMissing == {"gone.c"}
TwoGlobs == {{1, 2}, {2, 3, 4}}

=============================================================================
