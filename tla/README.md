# A verification project for rules_lang

rules_lang is a set of Bazel rules around a C-to-Rust translation pipeline and
around two small languages (AION and SQL).  Its own logic is in the Python
tools under `rules/c/cli/`, which the C rules run as actions or people run by
hand, and in the Starlark of `rules/` and `polyglot/`.  This directory holds
TLA+ models of those tools, TLC configurations that check them on small
instances, and TLAPS proofs of what matters most.

Paths below are relative to the repository; line numbers are in `PROJECT.json`
(`map`).

## 1. Inventory

The pipeline, with who reads what from whom:

    compile_commands.json
      -> dump_from_compdb.py -> <src>.ast.json / <src>.ll / <src>.macros.json
                              + manifest.json
           -> ast_to_tensor.py -> a corpus: arrays, vocabularies
                -> c_cluster_diff.py -> C bindings (TOML)
                     -> c_to_rust_bindings.py -> Rust bindings (TOML)
                          -> translate-engine (external) -> Rust source
           -> json_to_ttl.py -> Turtle
      rust .ll and C .ll -> llvm_ir_equiv.py -> verdict
    translation_queue.py drives c_cluster_diff, c_to_rust_bindings and
    translate-engine for every member of every cluster of a queue.

| Component | State | Operations | What is hard | What makes it correct |
|---|---|---|---|---|
| `dump_from_compdb.py` | the output tree shared by the workers; per entry, how far `_process` is; main's two lists | submit, `_process` (sidecar, clang, output), collect, manifest | workers run concurrently and may share an output path; a worker raises or dies; outputs of earlier runs | the manifest accounts for all; a listed output is its entry's; nothing moves after the exit; the run ends |
| `translation_queue.py` | the work directories and Rust files, which outlive an invocation; results; exit status | `main`'s loops, `run_member`'s three steps | a kill or failure between steps, reruns over leftovers, members sharing a path, leaving two loops | a Rust file comes from its own member's fresh bindings; PASS and exit status 0 mean what they say |
| `ast_to_tensor.py` | twelve parallel arrays, four vocabularies | `visit`, `_intern`, the loop over the manifest, `finalize` | links set as the recursion returns, nodes that are filtered out, limits of the arrays and of the stack | the links describe exactly the kept tree; indices decode |
| `c_cluster_diff.py` | the report | `find_function`, `diff_subtrees`, holes, `render_toml` | alignment after a divergence | the report is exactly the differences at corresponding positions |
| `c_to_rust_bindings.py` | the table being built | `derive_rust_bindings` | several C names become one Rust name; five sources in order | the table is what was asked for; a conflict fails |
| `json_to_ttl.py` | the triples; the map from clang ids to IRIs | declarations, statements, references | forward references, filtered declarations | every reference resolves to what its declaration is called |
| `llvm_ir_equiv.py` | the parsed functions; the report | `parse_ll`, renames, `compare_symbol`, the verdict | renames one after the other, counting blocks | the verdict says what the tolerances say |
| `rules/c/rules.bzl` | none at run time: declared actions and files | the C rules | file names derived from labels | every declared output is written by one action |
| `polyglot/sql.bzl` | depsets of sources with a dialect | library, package, catalog, aspect | outputs of the same name, order of collection | one dialect per closure; no two outputs of one name |
| `polyglot/aion*.bzl`, `rules/aion.bzl` | none | one-action rules over an external compiler | - | - |
| `tools/emit/` | none | pack a manifest | - | - |
| `proto/`, `lean/`, `docs/`, `smoke/` | - | schemas, statements, documentation, fixtures | - | - |

External, and modelled only from how the code uses them: clang, the process
pool of Python, translate-engine, the file system.

## 2. Modules

| Module | What it is |
|---|---|
| `DumpContract` | what a dump promises to the readers of its manifest |
| `CompdbDump` | `dump_from_compdb.py`, one run; `INSTANCE`s `DumpContract` under a refinement mapping |
| `CompdbFlags` | `dump_from_compdb.py`, how `_process` makes clang's command line out of the recorded one |
| `TranslationQueue` | `translation_queue.py`, several invocations on the same directories |
| `AstTensor` | `ast_to_tensor.py` |
| `ClusterDiff` | `c_cluster_diff.py` |
| `RustBindings` | `c_to_rust_bindings.py` |
| `BindingsPipeline` | the two before it, one after the other; `EXTENDS` both |
| `AstToTtl` | `json_to_ttl.py` |
| `IrEquiv` | `llvm_ir_equiv.py` |
| `CompdbDumpProofs`, `CompdbFlagsProofs`, `TranslationQueueProofs`, `AstTensorProofs`, `RustBindingsProofs`, `BindingsPipelineProofs`, `AstToTtlProofs`, `IrEquivProofs` | theorems |
| `MC*` | the small instances TLC runs |

Operators named as a definition plus a few words, and introduced by the comment
"Mutated form", are plausible bugs in that definition.  No specification uses
them; substituting one for the definition it mutates must break a named
property, which shows that the property depends on the code.

### CompdbDump

An entry is its position in the database.  `pc[e]` is the next step of its
`_process` (`queued`, `scan`, `index`, `clang`, `open`, `write`) or how it
ended (`ok`, `err`, `raised`); `phase` is where `main` is.  Output and sidecar
are functions of the source path, as in the code: entries for one source share
both.  A file's text is the sequence of blocks in it, a block being the entry
that wrote it, so that mixed, truncated and stale texts are distinguishable:
`open(..., "w")` truncates (`OpenOutput`), each flush lands at the worker's own
offset (`PutBlock`), and two workers in one file may interleave.  In LLVM mode
clang puts the whole output in place itself (`ClangEmits`), in the directory it
runs in, and its driver removes that file when the compilation fails
(`ClangFails`), whichever entry or run it is from.  `WorkerRaises` is every
exception `_process` does not catch; `PoolBreaks` the death of a worker process:
the executor then terminates the other workers, but nobody terminates the clangs
they were waiting for (`orphans`), which end when they end (`OrphanEnds`).  When
one entry raises, `main` leaves the `with` block, which waits for the whole pool
(`CollectRaised`, `Abort`), though not for orphans.

### CompdbFlags

What `CompdbDump` takes as one step, the making of the command, token by token.
A token is split where the filter and clang split it (`opt`, `val`), and
carries whether the headers-tree sentinel occurs in it.  `KeepPair`, `KeepFlag`
and `DropFlag` are the branches of `_filter_flags`' loop, `Substitute` and
`DropSentinel` those of the loop after it.  The reference definition is a
reading of a command line as clang reads it (`Meaning`, external): options with
their arguments, and inputs.  `FlagsMeanTheSame` says that the new command
reads as the recorded one does, less the options the filter is not to keep.  It
is stated for the commands the filter is written for (`Plain`): an argument is
apart only from a flag of `KEEP_TWO_ARG`, which never has it written on, or from
a dropped flag, and then does not look like a flag to keep; none is missing, and
an argument that is apart holds a sentinel only if there is a headers tree.  Of
the other commands nothing is claimed, since the filter parts options of theirs
from their arguments (section 3, "Disagreements").

### TranslationQueue

A file's content is its provenance: the member and the invocation that wrote
it and the provenance of what it was made from.  Steps 1 and 2 redirect a
tool's standard output, so a failure leaves a truncated file (`Torn`, which
knows its member and invocation too); step 3 leaves writing to the engine, which
for the members of `Silent` may exit 0 without having written.  A result has the
step its member ended at, so that a file torn by an emit can be told from one
that was found torn.  `Die` is an exception or a kill inside a step,
`Interrupt` a kill between two.  Files survive; `Invoke` starts over on them.

### AstTensor

The arrays are one sequence of records.  The recursion of `visit` is a stack of
frames, so that the links, which are set when a visit returns to its parent,
are seen half-made.  An index that does not fit its array, and a visit deeper
than Python allows, end the run before anything is written; a child is visited
before it is filtered, so that the depth counts for those left out as well
(`CannotCall`).  Of what a dump's file can hold (`Files`), the run passes over
what is missing or no JSON (`SkipUnreadable`) and ends at what does not decode
(`Undecodable`) or is no object (`NotAnObject`).

### ClusterDiff, RustBindings, BindingsPipeline

`ClusterDiff` is the worklist form of `diff_subtrees`, over a tensor as
`ast_to_tensor.py` writes one (`IsTensor`: a child's row lies after its
parent's, and no row is the child of two).  Its reference definition goes by
generations instead of by a walk: the two functions correspond, and so do the
i-th children of two nodes that correspond, are of one kind and have as many
children (`Aligned`).  `RustBindings` keeps
of a name only its class (all that the spelling rules look at) and a word, and
sets one contribution per step, in the code's order.  A Rust name is such a pair
as well and is equal to another exactly when the spelling is: the code has one
table of strings, in which a type and an identifier can meet.

`BindingsPipeline` hands the report of the first to the second
(`HandOver`: `render_toml`, then `parse_c_bindings`), next to the overrides of
the cluster, or starts the second on C bindings of its own, as one runs it by hand.
This is the order of the queue's first two steps; by default the queue runs Rust
binaries of the same names there, which are not in this repository, and these
Python tools when they are named on its command line.  What the second tool makes
of a name is given by two constants, `IdentOf` and `TypeOf`.
Besides the two tools' own properties the module has two of the composition,
stated of the two functions and the overrides alone: `PositionsAreRenamed` and
`FailsOnAmbiguousPositions`.

### AstToTtl

`stack` is what the recursive functions of the converter have still to visit,
each item with the role of its visitor (`convert`, the loop over a function's
children, `_emit_stmt_subtree`), the IRI it hangs below and the number of
parameters before it.  `iris` is `decl_iri_by_clang_id`, `counter` the fallback
of statements without a line.  `raised` says that the conversion has ended
without a graph: the payload is no translation unit, or Python's recursion limit
was hit, which may happen at any visit below a body (`TooDeep`); the properties of
a graph that is written are stated of the others (`Finished`).  A triple that
copies a value is left out.  The reference definitions (`NestingIsTheDumps`, `EdgesAreExact`) go up the
ancestors of a node, the code comes down.

### IrEquiv

The parser goes line by line; a line is one of the five kinds it tells apart.
An argument is two words, its type and what stands beside it; `Normal` erases the
known attributes and every word with a `%`, the names of values and of types, in
arguments and return type alike.  A function remembers the line that defines it,
so that its sizes can be compared with a count over the lines themselves (`SizesAreOfTheBody`), and so
that one function under two names is seen (`NotSharedBySymbols`).
`VerdictIsExact` relates the exit status to the files and the command line,
with no parser and no map in between.  `Agree` takes two erased words for alike:
the tool does not look at the names of types.

## 3. Runs

| Run | Shows |
|---|---|
| `dump_ast` | AST mode, two workers, two of three entries sharing a source, outputs of an earlier run in place: `ManifestComplete`, `SoleOutputWhole`, `NoOldBlocks`, `SidecarsWhole` |
| `dump_faults` | LLVM mode, a missing source, refused arguments, another working directory, a filter that excludes an entry without `file`, failing clangs, raising and dying workers, orphaned clangs: the run implements `DumpContract` (`ImplementsContract`), `FrozenAfterExit`, `Terminates` |
| `flags` | all recorded commands of up to five tokens, both modes, with and without a headers tree: `FlagsMeanTheSame` (of the plain ones) |
| `queue` | two invocations, three clusters (the middle one empty), three members of which two share an output, an engine that may write nothing for one of them, kills and failures anywhere: `Provenance`, `ExitZeroMeansAll`, `PassIsFresh`, `StopsTheBatch`, `RunEnds` |
| `tensor_walk` | all trees of five nodes, all outcomes of the filter, with a second dump of one of seven kinds: `ChildrenAsWritten`, `RootPerDump`, `VocabsDecode`, `LinksSetOnce`, `Completes` |
| `pipeline` | all pairs of functions over two shapes, two kinds and three names, handed over with overrides that fit and that do not; and C bindings by hand over names that collide in Rust, a type's with an identifier's among them: `ReportIsExact`, `LooseNamesComplete`, `TableIsExact`, `FailsOnlyWhenAmbiguous`, `PositionsAreRenamed`, `FailsOnAmbiguousPositions` |
| `ttl` | a function with a parameter and a body of up to five nodes in every shape, calls and references to itself, to its parameter and to another function, also through casts and members, beside declarations of a header, and payloads that are refused: `GraphIsClosed`, `KnownIdsResolve`, `OneNodePerIri`, `NestingIsTheDumps`, `EdgesAreExact` |
| `ir_verdict` | all comparisons of small functions, empty ones and named types included, all renames by up to two pairs, a malformed pair, a file that ends inside a function: `SizesAreOfTheBody`, `NotSharedBySymbols`, `PassesOnlyTheAlike` (for all renames), `VerdictIsExact` (for those that do not meet) |
| `queue_stale`, `ttl_calls`, `ttl_callee`, `ir_returns` | disagreements, below |

### Bounds

- `dump_ast`: three entries and two workers.  Two entries of one source are the
  least that interfere, the third one runs beside them and is alone in its
  file; texts of one and two blocks are enough for the longer text to survive
  behind the shorter.  Earlier outputs have up to two blocks.
- `dump_faults`: five entries, one per case: two that share a source, one alone,
  one whose source is missing, one the filters exclude.  Any of them may raise,
  and two workers leave up to two orphaned clangs, one of them in a file it
  shares.
- `flags`: the compiler and up to four tokens, from twelve that stand for every
  way the filter and clang can take a token; four tokens hold a pair, what is
  before it and what is after it.
- `queue`: `MaxRuns = 2`, the first invocation making leftovers for the second;
  three members, two of one output path; an empty cluster between two others,
  which is what `--stop-on-fail` has to get past.
- `tensor_walk`: five nodes have a skipped node between two kept siblings and a
  kept one below a skipped one; `MaxU8 = 1` makes the depth clamp, `MaxU16 = 3`
  and `RecursionLimit = 4` make some inputs hit a limit.  The second dump repeats
  the source, has no AST, brings a kind too many, does not decode, is no object or
  cannot be read; in the last case it comes first, so that the walk goes on.
- `pipeline`: trees of two levels and at most two children, or a tensor without
  the second function; two contributions conflict or agree, a third from the
  overrides comes after them.
- `ttl`: a body and four nodes below it hold a statement inside an expression
  inside a statement, a call with an argument, and a call as callee of a call;
  beside them, calls of a function, of the caller and of a parameter in
  parentheses, and a call of a member.
- `ir_verdict`: two functions per file and two pairs of renames, which chain,
  swap, meet or do not; bodies of up to three blocks and of none to four
  instructions, on both sides of tolerances of two; arguments and return types
  that differ, that differ in an attribute, or in the name of a struct only; a file that ends inside a function, and one
  that defines a name twice, of which the later definition counts.

### Fairness

`CompdbDump!FairSpec`: the operating system runs every worker and `main`, and
clang terminates, since `subprocess.run` is called without a timeout and waits;
the weak fairness of `Progress(e)` for each entry leaves out `WorkerRaises` and
`PoolBreaks`, which need never happen.  `TranslationQueue!FairSpec` and
`AstTensor!FairSpec`: one sequential process that is scheduled; `Interrupt` and
`Invoke` are the user's and are not fair.  The other modules are single loops
over finite inputs, and no liveness is claimed of them.

### Disagreements between the code and its own text

Checked by a run each (`PROJECT.json`, `findings`):

- `queue_stale`: an emit that wrote nothing passes on an earlier file.
- `ttl_calls`: a call that is a statement of a function's outermost block gives
  no edge; "the enclosing Stmt accumulates" the others.
- `ttl_callee`: the callee is looked for down the first children of any node, not
  only of casts and parentheses, so that `x->run()` is written as a call of `x`;
  "returns None if not resolvable".  `Callee` in `EdgesAreExact` is what the code
  does.
- `ir_returns`: of a return type the define pattern captures the last word
  only, so that functions with different return types can pass.

Seen while modelling and not given a run:

- Dump driver.  Two entries for one source are listed with one output, "one per
  processed TU"; the manifest "lists only the successful ones" and has a
  `failed` list; in LLVM mode an entry compiled in another existing directory
  is listed with a path clang did not write (`Elsewhere`), a failing entry's clang
  removes the output it shares with an entry that is listed, and a clang whose
  worker a broken pool has killed may write after `main` has exited.
- Its filter.  A separate `-I dir` or `-D X` keeps the flag and drops the
  argument; a joined `-isystemdir` is dropped; without a headers tree the
  argument of a kept `-isystem` is dropped alone, and the flag then takes the next
  token, though the text says "drop this flag"; `-Xclang -fno-...` keeps the
  second without the first; a flag that comes last without its argument takes an
  extra option or the source for one.  `Plain` leaves these commands out of
  `FlagsMeanTheSame`.
- Queue.  The pre-flight does not look for the first two tools, so that their
  absence ends the driver without a summary.
- Tensor builder.  A dump that is not UTF-8, or no JSON object, ends the run and
  loses the corpus, where one that cannot be read is skipped.
- Diff and policy.  `find_function` takes the first declaration, which may be a
  prototype; a name on one side against none on the other is not reported; a
  canonical name that stands for two sibling names is written twice into
  "TOML", which the next tool then refuses (`FailsOnAmbiguousPositions` counts
  it as ambiguous); a mistyped structural pair that "fails loudly" is a
  warning; names kept equal at one position and renamed at another are bound
  once, since equal names are not reported.
- Converter.  `_ref_iri` is always called without the referenced declaration,
  so that the name of a declaration outside the file is never used
  (`urn:c:unknown#id`); references to locals and enumerators stay unknown;
  references below a statement inside an expression are attributed to both
  statements that enclose it; arguments inside a callee are lost; a function
  that is declared again gets several parameters of one index; the default
  source path cannot be made into an IRI.
- IR check.  A `start:` label is counted besides the implicit entry block; a
  chain or a swap of renames clobbers an entry (`Apart` in `VerdictIsExact`);
  `%struct.A` and `%struct.B` compare alike, in arguments and return types, since
  every word with a `%` is erased as if it named a value (`Alike`);
  the lines of a `switch` count as instructions.

## 4. Proofs

`tlapm` checks the eight proof modules.  The results hold for every value of the
constants, from the assumptions named in the modules, which TLC evaluates on the
runs' instances.  They say what the inputs of the tools look like:

- `CompdbAssumption`, `QueueAssumption`, `TensorAssumption`, `IrAssumption`:
  the types of the parameters.  `InputsAssumption`: a definition in a `.ll` file
  has a return type.  `RustBindings` has none.
- `ManifestAssumption`: a dump is well formed, every child is a node of the tree
  and every node has a kind, a name and a reference, be they empty.
- `CorporaAssumption`: a tensor is what `ast_to_tensor.py` writes (`IsTensor`).
- `OverridesAssumption`, `ReadingAssumption`: the pairs of the overrides are
  pairs, and no two names of the tensor are read as one.
- `DumpsAssumption`: JSON is a tree (`Forest`); in C a declaration or parameter comes before
  its uses (`DeclaredFirst`); two statements of a kind do not begin and end at
  the same places (`ApartInSource`).
- `PlacesAssumption`, which only `NestingAlways` and `EdgesAlways` use: a node with
  a statement or a reference in it has one place in the dump, and a reference has
  no children (`OnePlace`).  clang repeats the nodes of types, which have neither
  in them; GNU's `x ?: y`, whose condition it writes twice, is left out.
- `FlagsAssumption`: a recorded command has a compiler; the flags of `KEEP_BARE`
  take no argument, those of `KEEP_TWO_ARG` can; the extra options are whole;
  the source path is not read as a flag.

### Recursion

The models define what is computed over a list or a tree by recursive
functions, and what such a function is worth has to be proved: in TLA+ it is a
`CHOOSE` of a function that satisfies the equation, which says nothing until
there is one.  Three general lemmas do that, without an operator as a parameter:
`Inductive` (a set with 0 in it, and n + 1 with n, holds all natural numbers,
from `LeastNatural`), `Solved` (a definition whose value at x depends on the
values at lower rank only has a solution) and, for families of sets over a
forest, `Fixpoint` (a step that keeps the order has a fixpoint).  Each recursive
function then gets a lemma that it equals its own body, and its properties are
proved by induction over the length, the rank or the forest.

### Theorems

`CompdbDumpProofs`, for any database, filter, number of workers and mode:

- `Typing`: `Spec => []TypeOK`.  `done[e] <= Blocks[e]` needs `Counts`: an entry
  in the step `write` has a block left, one before it has written none.
- `Frozen`: `Spec => FrozenAfterExit`.  Needs `Lists` (a collected entry has the
  verdict of its list) and `Exits` (the manifest is written only when all are
  collected; before the pool exists nothing has started, and nothing ever does
  when the database is refused; after any other exit every entry has ended).
  What is left is a clang that a broken pool orphaned: only in an aborted run,
  and only with its own output.
- `SoleOutput`: `Spec => []SoleOutputWhole`.  Needs `Owns`: while no other entry
  of the same source has opened the file, an entry that has finds in it exactly
  what it has written so far.  In AST mode entries that failed before opening do
  not count as others, which is why a failed compilation leaves no trace; in LLVM
  mode every entry of the source does, since a clang that fails removes the file.
- `Complete`: `Spec => []ManifestComplete`.  Adds `Names`: the lists have no
  repetitions, and so as many elements as positions.
- `NothingOld`: `Spec => []NoOldBlocks`.  Needs `Clean`: from the moment one
  entry has truncated an output, no writer brings an old block back.
- `SidecarsOfListed`: `Spec => []SidecarsWhole`.  Needs `Indexed`: past its scan
  a worker finds its sidecar whole, or truncated by another worker of the same
  source that is still to write it or has raised, and after a raise there is no
  manifest.
- `Implements`: `Spec => ImplementsContract`.  Every step that ends entries is a
  `Decide` of the contract; `Unwinds` (main unwinds only after a worker raised)
  gives its `Abort`.

`TranslationQueueProofs`, for any queue, selection and number of invocations:

- `Typing`: `Spec => []TypeOK`; `Counters` keeps the loops on members.
- `OwnBindings`: `Spec => []Provenance`.  Needs `Fresh`: at step `bind` the
  member's C bindings, and from step `emit` on its Rust bindings too, are of
  this member and this invocation.  Nothing is assumed about directories of
  other members, nor about what earlier invocations left.
- `ZeroMeansAll`: `Spec => []ExitZeroMeansAll`.  Needs `Taken` (unless something
  did not pass, every chosen member behind the loops is in the results) and
  `Written` (the file of a PASS stays there).
- `StopsAll`: `Spec => StopsTheBatch`.  Needs `Stopped`: after a failure under
  `--stop-on-fail` both loops are at their end.
- `FreshPass`: `Spec => []PassIsFresh`.  Needs `Kept`: what is at the path of a
  PASS was left by a result at or after it that shares the path, whose emit
  completed the file, or tore it and failed at that step, or, between emit and the
  check, by the member in hand, whose result is not there yet.  Members for which
  the engine may write nothing (`Silent`) are left out: `queue_stale` shows why.

`AstTensorProofs`, for any manifest whose dumps are well formed (every child is
a node of the tree and every node has a kind, a name and a reference) and any
limits.  The invariant `TensorInv` has five parts: types (`Base`), vocabularies
without repetition (`Vocabs`), rows that decode (`Rows`), frames that work at the
node of their row (`Frames`) and lie on the stack in the order of their indices
(`Order`):

- `Typing`: `Spec => []TypeOK`.
- `Decodes`: `Spec => []VocabsDecode`.  Interning only extends a vocabulary
  (`Interned`), and a row that decodes does so in every extension (`RowGrows`).
- `SetOnce`: `Spec => LinksSetOnce`.  A return sets `next_sibling` of the child
  its parent's frame linked last.  That child has none yet, and by `Order` no
  other frame has it as its own node or as its last child, so that this still
  holds of the frames that stay (`Returning`).
- `ChildrenWritten`: `Spec => []ChildrenAsWritten`.  Needs `Links`, which accounts
  for every visit, active or returned: the chain of a row leads through the rows
  of what the filter kept of the entries its frame is past (of the whole list, if
  no frame is at it), no other row has it as its parent but the one its frame is
  visiting, and a child's depth and unit follow from its parent's.  A return
  lengthens one chain by one row (`LinkOne`) and touches no other
  (`OthersStay`).
- `OneRootEach`: `Spec => []RootPerDump`.  Needs `OneRoot`: as long as the run has
  not died, the roots and the sources are those of the readable dumps begun,
  however many that cannot be read lie between them.

`RustBindingsProofs`, for any C bindings and overrides:

- `Typing`, `Exact`, `Loud`: `PolicySpec => []PolicyTypeOK`, `[]TableIsExact`
  and `[]FailsOnlyWhenAmbiguous`.  The invariant: while the loops run, the graph
  of the bindings is exactly what the places passed ask for, and, as it is a
  function, these do not contradict one another.

`IrEquivProofs`, for any two files, renames and symbols:

- `Typing`; `OwnSizes`: `Spec => []SizesAreOfTheBody`; `OneName`:
  `Spec => []NotSharedBySymbols`.  The invariant: the function being read lies
  between its first line and the reader, its counters are those of the lines in
  between (`Reads`), and the functions found before it lie before it (`Order`).
- `Backed`: `Spec => []PassesOnlyTheAlike`, and `Exact`:
  `Spec => []VerdictIsExact`.  What they say is up to what the tool erases: the
  names of types, and all but the last word of a return type.  Both from `Kept`.  While a file is read, the reader
  is outside of every function or in one that starts outside of the others
  (`Placed`), and what lies behind it is filed under its own name, the last of a
  name over the others (`AllFiled`, `OwnNames`, `ReadC`).  While the renames are
  applied, if they are apart, a name the pairs behind have not touched stands
  for what the file defines, and each of these pairs has had its effect
  (`Standing`).  A symbol is failing exactly when what the two maps hold for it
  does not agree, and the exit status says whether one is (`Judged`,
  `Sentenced`).

`CompdbFlagsProofs`, for any sets of flags, recorded command and extra options:

- `Typing`: `Spec => []TypeOK`.
- `SameMeaning`: `Spec => []FlagsMeanTheSame`, which is about plain commands only
  and says nothing of those the filter gets wrong.  For plain commands, the flags
  kept and what is left of the recorded command, read from where the filter is,
  say what the whole command says of the options worth keeping (`Filters`); the
  filter is at the beginning of an option, or at the argument of one it dropped.
  The same holds of what is substituted and the flags left (`Substitutes`).  The
  reader of a command is unfolded by induction over the distance to its end, and
  two sequences of tokens read one after the other mean what they mean alone
  when no flag waits at the end of the first (`Complete`).

`BindingsPipelineProofs`, for any tensor, overrides and reading of names:

- `ReportExact`: `Spec => []ReportIsExact`.  The walk has compared a set V of
  pairs (`Walked`): V and the pairs to do are disjoint, the pairs to do are
  distinct, every pair of both corresponds, the children of every compared pair
  of one shape are in one of them, and the report is exact on V.  No pair is met
  twice because a node has one parent and the roots have none among the pairs
  (ranks grow downwards).  When nothing is to do, V is closed, and what
  corresponds is the least closed set.
- `LooseComplete`: `Spec => []LooseNamesComplete`.  What `collect_subtree_leaves`
  lists is by induction over the ranks the names of the generations below.
- `PipelineTyping`, `PipelineExact`: `TypeOK`, `TableIsExact` and
  `FailsOnlyWhenAmbiguous` hold in the composition, which hands the second tool
  a well-typed input.
- `EndToEnd`, `FailsEndToEnd`: `Spec => []PositionsAreRenamed` and
  `[]FailsOnAmbiguousPositions`.  After the diff the policy's input is the
  report, read (`PipeInv`); the report is exact, the table is exact for its
  input, and reading is injective, so that two names differ after it if they
  did before.

`AstToTtlProofs`, for any dumps:

- `Typing`: `Spec => []TypeOK`.
- `ClosedAlways`: `Spec => []GraphIsClosed`.  Every IRI an item of the stack hangs
  below, and every IRI recorded, has a class already; that what `Extracted`
  collects are pairs of an edge and an id is the induction over the forest.
- `ResolvedAlways`: `Spec => []KnownIdsResolve`.  An id that the dump still has to
  declare is not referred to by anything on the stack before it, nor by the
  graph: declarations come first.
- `OneNodeAlways`: `Spec => []OneNodePerIri`.  The counter is above the number of
  every IRI made of it, and an IRI made of a place determines its node.
- `NestingAlways`: `Spec => []NestingIsTheDumps`.  `Nested`: what is visited on
  behalf of an IRI lies below the statement that IRI was written for, with no
  statement between; every `hasChild` joins such a pair; every statement of the
  dump has one or will be come to.  Two nodes that enclose a statement enclose
  one another (`EnclosersNest`), so that the nearest is one.
- `EdgesAlways`: `Spec => []EdgesAreExact`, with callees as the code finds them (see
  `ttl_callee`), and with what is below a statement inside an expression counted
  for both statements.  That `Extracted`, which comes down,
  collects what `Searched` and `Callee`, which go up, describe is by induction
  over the forest (`OpenUnfolds`, `TargetIs`, `ExtractedIs`, `EdgesAre`).
  `Exact`: every edge written is one of its statement's by the table of ids as it
  is now, and a statement with a `hasChild` has all of its edges, since an id that
  an earlier statement refers to is not recorded any more (`Order`).

Only model-checked: the liveness properties `Terminates`, `RunEnds` and
`Completes`, which are out of the provers' reach (fairness and `ENABLED`).
That the runs of kind "violation" are violated is TLC's finding as well.

## 5. Plan

All modules of the inventory that have behaviour of their own are there, and every
safety property of the passing runs is a theorem.  What is left is to weaken what
the theorems assume of their inputs where the tools would stand it: dumps with
GNU's `x ?: y`.

## 6. Not modelled

- The C rules (`rules/c/*.bzl`), the SQL and the AION rules (`polyglot/`,
  `rules/*.bzl`) are Starlark that Bazel evaluates once at analysis time, in one
  thread, into declared actions: they keep no state, and what they compute is a
  list of files and command lines, whose wording is all there is to check.
- `tools/emit/manifest_packer.py` copies its arguments and files into a message.
- The protocol buffers, Lean statements, documents and smoke tests have no
  behaviour of their own.

Of the modelled tools, the following is abstracted: the text of diagnostics and
summaries; how strings are spelled; source positions in the tensor and the graph;
the decoding of the tensor's files and the syntax of Turtle and TOML; the
regular expressions of the IR parser, but for what they capture; and the
writing of the manifest and of the corpus, which happens after everything the
properties speak of, in one step.
