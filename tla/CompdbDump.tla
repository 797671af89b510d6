----------------------------- MODULE CompdbDump -----------------------------
(***************************************************************************)
(* rules/c/cli/dump_from_compdb.py: one run of clang per selected entry of *)
(* a compile_commands.json, on a ProcessPoolExecutor, into one output tree *)
(* that the workers share; then a manifest.                                *)
(*                                                                         *)
(* An entry is its position 1..N in the database.  A source path stands    *)
(* also for the two files _process derives from it, the output and the     *)
(* macro sidecar: two entries for one source share both.  The text of a    *)
(* file is the sequence of blocks written to it, a block being the entry   *)
(* that wrote it; an absent file and an empty one are both <<>>.           *)
(***************************************************************************)
EXTENDS Integers, Sequences, FiniteSets, Functions

CONSTANTS
  N,           \* length of the database
  Source,      \* Source[e]: the path _resolve_source gives entry e
  Blocks,      \* Blocks[e]: in how many writes entry e's text reaches its file
  NoFile,      \* entries without "file": entry["file"] raises
  NoArgv,      \* entries whose argv cannot be recovered: _entry_argv raises
  Missing,     \* sources that are not in the sandbox
  Elsewhere,   \* entries whose recorded directory exists and is not our cwd
  Filters,     \* the --filter globs, each as the set of entries it matches
  Jobs,        \* number of workers
  Mode,        \* "ast" or "llvm"
  EmitMacros   \* --emit-macros

Entry == 1..N
Old == 0        \* a block left by an earlier run in the same --out-dir
Hole == N + 1   \* bytes never written, before a block written past the end

ASSUME CompdbAssumption ==
  /\ N \in Nat
  /\ DOMAIN Source = Entry
  /\ Blocks \in [Entry -> Nat \ {0}]
  /\ NoFile \subseteq Entry /\ NoArgv \subseteq Entry /\ Elsewhere \subseteq Entry
  /\ Filters \subseteq SUBSET Entry
  /\ Jobs \in Nat \ {0}
  /\ Mode \in {"ast", "llvm"}
  /\ EmitMacros \in BOOLEAN

VARIABLES
  phase,     \* where main is
  pc,        \* pc[e]: the next step of entry e's _process, or how it ended
  done,      \* done[e]: how many blocks of its output entry e has written
  file,      \* file[s]: text of the output of source s
  sidecar,   \* sidecar[s]: the macro index of source s
  ok,        \* main's successes, in the order they were collected
  failed,    \* main's failures, likewise
  orphans    \* entries whose clang outlives the worker that ran it

vars == <<phase, pc, done, file, sidecar, ok, failed, orphans>>
-----------------------------------------------------------------------------
MatchesFilter(e) == Filters = {} \/ \E glob \in Filters : e \in glob
Selected == {e \in Entry : MatchesFilter(e)}

Sources == Range(Source)
Text(e) == [i \in 1..Blocks[e] |-> e]

Ended == {"ok", "err", "raised"}
Final == {"published", "aborted", "rejected"}
Running == {e \in Selected : pc[e] \notin Ended \cup {"queued"}}
Collected == Range(ok) \cup Range(failed)

\* The text of a file after entry e's k-th block landed at its own offset.
PutBlock(text, e, k) ==
  [i \in 1..(IF k > Len(text) THEN k ELSE Len(text)) |->
     IF i = k THEN e ELSE IF i <= Len(text) THEN text[i] ELSE Hole]

Goto(e, step) == pc' = [pc EXCEPT ![e] = step]

\* What clang does with -o out_path, relative to the directory it runs in.
EmitTo(e, text) ==
  file' = IF e \in Elsewhere THEN file ELSE [file EXCEPT ![Source[e]] = text]

\* The end of a clang nobody takes a verdict from.
ClangUnheard(e) ==
  \/ UNCHANGED file
  \/ Mode = "llvm" /\ (EmitTo(e, Text(e)) \/ EmitTo(e, <<>>))
-----------------------------------------------------------------------------
Init ==
  /\ phase = "load"
  /\ pc = [e \in Selected |-> "queued"]
  /\ done = [e \in Selected |-> 0]
  /\ file \in [Sources -> {<<>>, <<Old>>, <<Old, Old>>}]
  /\ sidecar = [s \in Sources |-> "absent"]
  /\ ok = <<>> /\ failed = <<>>
  /\ orphans = {}

\* main reads the database: a document that is not an array is refused, else
\* every selected entry is submitted to the pool.
Load ==
  /\ phase = "load"
  /\ \E isList \in BOOLEAN : phase' = IF isList THEN "collect" ELSE "rejected"
  /\ UNCHANGED <<pc, done, file, sidecar, ok, failed, orphans>>

\* A free worker takes the oldest queued entry, also while main is unwinding
\* (the executor's exit waits for the queue, it cancels nothing).
FirstStep(e) ==
  IF e \in NoFile THEN "raised"
  ELSE IF Source[e] \in Missing THEN "err"
  ELSE IF e \in NoArgv THEN "raised"
  ELSE IF EmitMacros THEN "scan" ELSE "clang"

\* Mutated form: the queue stops when main starts to unwind.
StartWhileCollecting(e) ==
  /\ phase = "collect"
  /\ pc[e] = "queued"
  /\ \A d \in Selected : d < e => pc[d] # "queued"
  /\ Cardinality(Running) < Jobs
  /\ Goto(e, FirstStep(e))
  /\ UNCHANGED <<phase, done, file, sidecar, ok, failed, orphans>>

Start(e) ==
  /\ phase \in {"collect", "unwind"}
  /\ pc[e] = "queued"
  /\ \A d \in Selected : d < e => pc[d] # "queued"
  /\ Cardinality(Running) < Jobs
  /\ Goto(e, FirstStep(e))
  /\ UNCHANGED <<phase, done, file, sidecar, ok, failed, orphans>>

\* The sidecar is opened for writing (truncated), then written.
OpenSidecar(e) ==
  /\ pc[e] = "scan"
  /\ sidecar' = [sidecar EXCEPT ![Source[e]] = "empty"]
  /\ Goto(e, "index")
  /\ UNCHANGED <<phase, done, file, ok, failed, orphans>>

WriteSidecar(e) ==
  /\ pc[e] = "index"
  /\ sidecar' = [sidecar EXCEPT ![Source[e]] = "whole"]
  /\ Goto(e, "clang")
  /\ UNCHANGED <<phase, done, file, ok, failed, orphans>>

\* Mutated form: the output is opened before the exit status is looked at.
ClangFailsTruncating(e) ==
  /\ pc[e] = "clang"
  /\ file' = [file EXCEPT ![Source[e]] = <<>>]
  /\ Goto(e, "err")
  /\ UNCHANGED <<phase, done, sidecar, ok, failed, orphans>>

\* Mutated form: a failed compilation removes its sidecar.
ClangFailsCleaning(e) ==
  /\ pc[e] = "clang"
  /\ sidecar' = [sidecar EXCEPT ![Source[e]] = "absent"]
  /\ Goto(e, "err")
  /\ UNCHANGED <<phase, done, file, ok, failed, orphans>>

\* clang is not found, refuses its command line, or fails to compile: then, in
\* llvm mode, its driver removes the file named by -o, whoever wrote it.
ClangFails(e) ==
  /\ pc[e] = "clang"
  /\ UNCHANGED file \/ (Mode = "llvm" /\ EmitTo(e, <<>>))
  /\ Goto(e, "err")
  /\ UNCHANGED <<phase, done, sidecar, ok, failed, orphans>>

\* ast mode: clang's standard output has been captured.
ClangDumps(e) ==
  /\ pc[e] = "clang" /\ Mode = "ast"
  /\ Goto(e, "open")
  /\ UNCHANGED <<phase, done, file, sidecar, ok, failed, orphans>>

\* llvm mode: clang itself put the output in place.
ClangEmits(e) ==
  /\ pc[e] = "clang" /\ Mode = "llvm"
  /\ EmitTo(e, Text(e))
  /\ Goto(e, "ok")
  /\ UNCHANGED <<phase, done, sidecar, ok, failed, orphans>>

\* Mutated form: the output is opened without truncating it.
OpenOutputInPlace(e) ==
  /\ pc[e] = "open"
  /\ Goto(e, "write")
  /\ UNCHANGED <<phase, done, file, sidecar, ok, failed, orphans>>

OpenOutput(e) ==
  /\ pc[e] = "open"
  /\ file' = [file EXCEPT ![Source[e]] = <<>>]
  /\ Goto(e, "write")
  /\ UNCHANGED <<phase, done, sidecar, ok, failed, orphans>>

\* Mutated form: one block too many.
WriteBlockPastEnd(e) ==
  /\ pc[e] = "write"
  /\ done' = [done EXCEPT ![e] = @ + 1]
  /\ file' = [file EXCEPT ![Source[e]] = PutBlock(@, e, done[e] + 1)]
  /\ Goto(e, IF done[e] = Blocks[e] THEN "ok" ELSE "write")
  /\ UNCHANGED <<phase, sidecar, ok, failed, orphans>>

WriteBlock(e) ==
  /\ pc[e] = "write"
  /\ done' = [done EXCEPT ![e] = @ + 1]
  /\ file' = [file EXCEPT ![Source[e]] = PutBlock(@, e, done[e] + 1)]
  /\ Goto(e, IF done[e] + 1 = Blocks[e] THEN "ok" ELSE "write")
  /\ UNCHANGED <<phase, sidecar, ok, failed, orphans>>

\* An exception _process does not catch: any OSError of makedirs, open, write
\* or subprocess.run other than FileNotFoundError, undecodable output of a clang
\* that has ended.
WorkerRaises(e) ==
  /\ pc[e] \in {"scan", "index", "clang", "open", "write"}
  /\ UNCHANGED file \/ (pc[e] = "clang" /\ ClangUnheard(e))
  /\ Goto(e, "raised")
  /\ UNCHANGED <<phase, done, sidecar, ok, failed, orphans>>

\* A worker process dies: the executor terminates the others and every future
\* that has no result gets BrokenProcessPool.  Nobody terminates the clang that
\* a worker was waiting for.
PoolBreaks(e) ==
  /\ e \in Running
  /\ pc' = [d \in Selected |-> IF pc[d] \in Ended THEN pc[d] ELSE "raised"]
  /\ orphans' = {d \in Selected : pc[d] = "clang"}
  /\ UNCHANGED <<phase, done, file, sidecar, ok, failed>>

\* Such a clang ends, whenever it does.  In ast mode it writes to a pipe nobody
\* reads any more.
OrphanEnds(e) ==
  /\ e \in orphans
  /\ ClangUnheard(e)
  /\ orphans' = orphans \ {e}
  /\ UNCHANGED <<phase, pc, done, sidecar, ok, failed>>

\* as_completed yields a finished future to main.
CollectOk(e) ==
  /\ phase = "collect" /\ pc[e] = "ok" /\ e \notin Range(ok)
  /\ ok' = Append(ok, e)
  /\ UNCHANGED <<phase, pc, done, file, sidecar, failed, orphans>>

CollectFailed(e) ==
  /\ phase = "collect" /\ pc[e] = "err" /\ e \notin Range(failed)
  /\ failed' = Append(failed, e)
  /\ UNCHANGED <<phase, pc, done, file, sidecar, ok, orphans>>

\* fut.result() re-raises in main; leaving the with block waits for the pool.
CollectRaised(e) ==
  /\ phase = "collect" /\ pc[e] = "raised"
  /\ phase' = "unwind"
  /\ UNCHANGED <<pc, done, file, sidecar, ok, failed, orphans>>

\* Mutated form: the manifest is written without waiting for the pool.
PublishEarly ==
  /\ phase = "collect"
  /\ phase' = "published"
  /\ UNCHANGED <<pc, done, file, sidecar, ok, failed, orphans>>

\* Mutated form: an entry whose worker raised is passed over.
PublishPastRaised ==
  /\ phase = "collect"
  /\ \A e \in Selected : e \in Collected \/ pc[e] = "raised"
  /\ phase' = "published"
  /\ UNCHANGED <<pc, done, file, sidecar, ok, failed, orphans>>

Publish ==
  /\ phase = "collect"
  /\ Selected \subseteq Collected
  /\ phase' = "published"
  /\ UNCHANGED <<pc, done, file, sidecar, ok, failed, orphans>>

\* Mutated form: shutdown(wait=False).
AbortEarly ==
  /\ phase = "unwind"
  /\ phase' = "aborted"
  /\ UNCHANGED <<pc, done, file, sidecar, ok, failed, orphans>>

Abort ==
  /\ phase = "unwind"
  /\ \A e \in Selected : pc[e] \in Ended
  /\ phase' = "aborted"
  /\ UNCHANGED <<pc, done, file, sidecar, ok, failed, orphans>>

Exited == phase \in Final /\ UNCHANGED vars

Progress(e) ==
  \/ Start(e)
  \/ OpenSidecar(e) \/ WriteSidecar(e)
  \/ ClangFails(e) \/ ClangDumps(e) \/ ClangEmits(e)
  \/ OpenOutput(e) \/ WriteBlock(e)
Worker(e) == Progress(e) \/ WorkerRaises(e) \/ PoolBreaks(e) \/ OrphanEnds(e)
Collect(e) == CollectOk(e) \/ CollectFailed(e) \/ CollectRaised(e)

Next ==
  \/ Load \/ Publish \/ Abort \/ Exited
  \/ \E e \in Selected : Worker(e) \/ Collect(e)

Spec == Init /\ [][Next]_vars

\* The operating system keeps running every worker and main, and clang
\* terminates (subprocess.run is given no timeout).
FairSpec ==
  /\ Spec
  /\ WF_vars(Load) /\ WF_vars(Publish) /\ WF_vars(Abort)
  /\ \A e \in Entry : WF_vars(e \in Selected /\ Progress(e))
  /\ \A e \in Entry : WF_vars(e \in Selected /\ Collect(e))
-----------------------------------------------------------------------------
Steps == {"queued", "scan", "index", "clang", "open", "write"} \cup Ended

TypeOK ==
  /\ phase \in {"load", "collect", "unwind"} \cup Final
  /\ pc \in [Selected -> Steps]
  /\ done \in [Selected -> Nat] /\ \A e \in Selected : done[e] <= Blocks[e]
  /\ file \in [Sources -> Seq(Entry \cup {Old, Hole})]
  /\ sidecar \in [Sources -> {"absent", "empty", "whole"}]
  /\ ok \in Seq(Selected) /\ failed \in Seq(Selected)
  /\ orphans \subseteq Selected

\* The manifest accounts for the whole run: every selected entry is in exactly
\* one of its two lists, once, under the verdict its worker returned, although
\* the lists grow in an order nobody controls and an exception may cut the
\* collection short.
ManifestComplete ==
  phase = "published" =>
    /\ Range(ok) = {e \in Selected : pc[e] = "ok"}
    /\ Range(failed) = {e \in Selected : pc[e] = "err"}
    /\ Range(ok) \cup Range(failed) = Selected
    /\ Len(ok) + Len(failed) = Cardinality(Selected)

\* An entry whose output no other entry can have touched since finds in it, when
\* the manifest lists it, its own text, all of it and nothing else: a previous
\* run in the same directory leaves no trace in a listed output, nor, in ast
\* mode, a failed compilation of the same source.  In llvm mode a failed one does:
\* its clang removes the output they share.
Touches(d) == IF Mode = "llvm" THEN d \notin Elsewhere ELSE d \in Range(ok)
SoleWriter(e) ==
  Touches(e) /\ \A d \in Selected \ {e} : Source[d] = Source[e] => ~Touches(d)

SoleOutputWhole ==
  phase = "published" =>
    \A e \in Range(ok) : SoleWriter(e) => file[Source[e]] = Text(e)

\* Even where several listed entries share an output, whose blocks may then be
\* mixed, nothing of an earlier run survives in it.
NoOldBlocks ==
  phase = "published" /\ Elsewhere = {} =>
    \A e \in Range(ok) : Old \notin Range(file[Source[e]])

\* With --emit-macros every entry the manifest lists, failed ones included,
\* has a complete macro index if its source exists ("so the scan happens even
\* when AST extraction fails"), however the workers that share a source
\* truncated and rewrote it.
SidecarsWhole ==
  phase = "published" /\ EmitMacros =>
    \A e \in Selected : Source[e] \notin Missing => sidecar[Source[e]] = "whole"

\* A step of nobody but a clang whose worker a broken pool killed, in a run that
\* was aborted in llvm mode.
OrphanAtMost ==
  /\ UNCHANGED <<pc, sidecar>>
  /\ \A s \in Sources : file'[s] # file[s] =>
       Mode = "llvm" /\ phase = "aborted" /\ \E e \in orphans : Source[e] = s

\* Once main has exited no worker does anything any more: readers of a manifest
\* never race a writer, in neither mode.
FrozenAfterExit == [][(phase \in Final) => OrphanAtMost]_vars

\* The run ends, also when a worker raises while others still hold the pool.
Terminates == <>(phase \in Final)

\* The run implements the contract its readers rely on.
Contract ==
  INSTANCE DumpContract WITH
    verdict <- [e \in Selected |-> IF pc[e] \in Ended THEN pc[e] ELSE "open"],
    outcome <- IF phase \in Final THEN phase ELSE "running",
    manifest <- IF phase = "published"
                THEN [ok |-> Range(ok), failed |-> Range(failed)]
                ELSE [ok |-> {}, failed |-> {}]
ImplementsContract == Contract!Spec
=============================================================================
