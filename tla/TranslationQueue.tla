-------------------------- MODULE TranslationQueue --------------------------
(***************************************************************************)
(* rules/c/cli/translation_queue.py: the batch driver that takes every     *)
(* member of every cluster of a queue through three external tools         *)
(*     c_cluster_diff -> c_to_rust_bindings -> translate-engine emit       *)
(* over a file system that outlives an invocation.  The driver may be      *)
(* killed at any point and invoked again on the same directories.          *)
(*                                                                         *)
(* A file's content is its provenance: which member, in which invocation,  *)
(* wrote it, and from what it was made.                                    *)
(***************************************************************************)
EXTENDS Integers, Sequences

CONSTANTS
  Clusters,      \* load_queue's clusters: <<[name, out, members: Seq(fn)], ...>>
  Only,          \* --cluster, or "*" when it is not given
  MaxRuns,       \* bound: how many times the driver is invoked
  Silent         \* the members for which an emit that exits 0 may have written nothing

ASSUME QueueAssumption ==
  /\ Clusters \in Seq([name : STRING, out : STRING, members : Seq(STRING)])
  /\ MaxRuns \in Nat
  /\ Silent \subseteq Nat \X Nat

Chosen(c) == Only \in {"*", Clusters[c].name}
Member ==
  UNION {{<<c, m>> : m \in 1..Len(Clusters[c].members)} : c \in 1..Len(Clusters)}
Fn(j) == Clusters[j[1]].members[j[2]]

\* run_member's work directory and output path.
WorkOf(j) == <<Clusters[j[1]].name, Fn(j)>>
OutOf(j) == <<Clusters[j[1]].out, Fn(j)>>
Works == {WorkOf(j) : j \in Member}
Outs == {OutOf(j) : j \in Member}

VARIABLES
  run,       \* number of the current (or last) invocation
  dry, stop, \* its --dry-run and --stop-on-fail
  phase,     \* "idle", "run", "exit", or how it ended without a summary:
             \* "died" of an exception, or "killed"
  pos,       \* <<c, m>>: the two loops, over clusters and their members
  step,      \* "loop", or the step run_member is at with member pos
  results,   \* this invocation's results, one per member taken up
  code,      \* exit status of the last invocation that returned one
  cbind,     \* cbind[w]: c_bindings.toml of work directory w
  rbind,     \* rbind[w]: rust_bindings.toml, and the c_bindings behind it
  rs         \* rs[o]: the emitted Rust file, and the bindings behind it

opts == <<run, dry, stop>>
loop == <<phase, pos, step, results, code>>
files == <<cbind, rbind, rs>>
vars == <<opts, loop, files>>
-----------------------------------------------------------------------------
\* Who completed a file, in which invocation; who truncated it and did not
\* complete it, in the negative of the invocation; no file.
None == [by |-> <<0, 0>>, run |-> 0]
Mine == [by |-> pos, run |-> run]
Torn == [by |-> pos, run |-> -run]
Stamps == [by : Member, run : (-MaxRuns)..MaxRuns] \cup {None}
Whole(stamp) == stamp.run > 0

\* A bindings or Rust file written now, from the files it reads.
Derived(w) == [own |-> Mine, cb |-> cbind[w]]
Emitted(w) == [own |-> Mine, cb |-> rbind[w].cb, rb |-> rbind[w].own]
NoBindings == [own |-> None, cb |-> None]
TornBindings == [own |-> Torn, cb |-> None]
NoRust == [own |-> None, cb |-> None, rb |-> None]
TornRust == [own |-> Torn, cb |-> None, rb |-> None]

Init ==
  /\ run = 0 /\ dry = FALSE /\ stop = FALSE
  /\ phase = "idle" /\ pos = <<1, 1>> /\ step = "loop"
  /\ results = <<>> /\ code = 0
  /\ cbind = [w \in Works |-> None]
  /\ rbind = [w \in Works |-> NoBindings]
  /\ rs = [o \in Outs |-> NoRust]

\* The user invokes the driver.  It returns 2 at once when the queue file is
\* not there, or when no cluster has the name asked for.
Invoke ==
  /\ phase # "run" /\ run < MaxRuns
  /\ run' = run + 1
  /\ dry' \in BOOLEAN /\ stop' \in BOOLEAN
  /\ pos' = <<1, 1>> /\ step' = "loop" /\ results' = <<>>
  /\ \E queueExists \in BOOLEAN :
       IF queueExists /\ \E c \in 1..Len(Clusters) : Chosen(c)
       THEN phase' = "run" /\ code' = code
       ELSE phase' = "exit" /\ code' = 2
  /\ UNCHANGED files
-----------------------------------------------------------------------------
(* main's loops. *)

AtCluster == phase = "run" /\ step = "loop" /\ pos[1] <= Len(Clusters)
AtMember == AtCluster /\ Chosen(pos[1]) /\ pos[2] <= Len(Clusters[pos[1]].members)

\* Mutated form: the outer loop does not advance.
NextClusterStuck ==
  /\ AtCluster
  /\ Chosen(pos[1]) => pos[2] > Len(Clusters[pos[1]].members)
  /\ UNCHANGED vars

NextCluster ==
  /\ AtCluster
  /\ Chosen(pos[1]) => pos[2] > Len(Clusters[pos[1]].members)
  /\ pos' = <<pos[1] + 1, 1>>
  /\ UNCHANGED <<opts, phase, step, results, code, files>>

\* Mutated form: the break leaves the inner loop only.
ReturnBreakingOnce(status) ==
  /\ results' = Append(results, [member |-> pos, status |-> status, last |-> step])
  /\ step' = "loop"
  /\ pos' = IF stop /\ status = "FAIL" THEN <<pos[1] + 1, 1>>
            ELSE <<pos[1], pos[2] + 1>>
  /\ UNCHANGED <<opts, phase, code>>

\* run_member returns, from the last step it ran: main records the result, and
\* after a FAIL under --stop-on-fail leaves both loops.
Return(status) ==
  /\ results' = Append(results, [member |-> pos, status |-> status, last |-> step])
  /\ step' = "loop"
  /\ pos' = IF stop /\ status = "FAIL" THEN <<Len(Clusters) + 1, 1>>
            ELSE <<pos[1], pos[2] + 1>>
  /\ UNCHANGED <<opts, phase, code>>

At(s) == phase = "run" /\ step = s

\* Mutated form: only a FAIL makes the exit status 1.
SummariseIgnoringSkips ==
  /\ At("loop") /\ pos[1] > Len(Clusters)
  /\ phase' = "exit"
  /\ code' = IF dry \/ \A i \in 1..Len(results) : results[i].status # "FAIL"
             THEN 0 ELSE 1
  /\ UNCHANGED <<opts, pos, step, results, files>>

Summarise ==
  /\ At("loop") /\ pos[1] > Len(Clusters)
  /\ phase' = "exit"
  /\ code' = IF dry \/ \A i \in 1..Len(results) : results[i].status = "PASS"
             THEN 0 ELSE 1
  /\ UNCHANGED <<opts, pos, step, results, files>>
-----------------------------------------------------------------------------
(* run_member. *)

DryRun == AtMember /\ dry /\ Return("DRY") /\ UNCHANGED files

\* One of tensor, engine, canonical_rs, sibling_rs, overrides_toml is missing.
Skip == AtMember /\ ~dry /\ Return("SKIP") /\ UNCHANGED files

\* Mutated form: one member past the end of the cluster.
BeginPastEnd ==
  /\ AtCluster /\ Chosen(pos[1]) /\ ~dry
  /\ pos[2] <= Len(Clusters[pos[1]].members) + 1
  /\ step' = "diff"
  /\ UNCHANGED <<opts, phase, pos, results, code, files>>

Begin ==
  /\ AtMember /\ ~dry
  /\ step' = "diff"
  /\ UNCHANGED <<opts, phase, pos, results, code, files>>

GoOn(s) == step' = s /\ UNCHANGED <<opts, phase, pos, results, code>>

\* The driver ends inside a step: the tool cannot be executed, an exception
\* _run lets through, or somebody kills the process.
Die == phase' \in {"died", "killed"} /\ UNCHANGED <<opts, pos, step, results, code>>

\* Steps 1 and 2 redirect the tool's output: the file is truncated first, and
\* stays incomplete when the tool fails, cannot be run, or is killed.
Diff ==
  /\ At("diff")
  /\ \E content \in {Mine, Torn} :
       /\ cbind' = [cbind EXCEPT ![WorkOf(pos)] = content]
       /\ IF content = Mine THEN GoOn("bind") ELSE Return("FAIL") \/ Die
  /\ UNCHANGED <<rbind, rs>>

\* Mutated form: an existing rust_bindings.toml is taken as up to date.
BindCached ==
  /\ At("bind")
  /\ IF Whole(rbind[WorkOf(pos)].own)
     THEN UNCHANGED rbind
     ELSE rbind' = [rbind EXCEPT ![WorkOf(pos)] = Derived(WorkOf(pos))]
  /\ GoOn("emit")
  /\ UNCHANGED <<cbind, rs>>

Bind ==
  /\ At("bind")
  /\ \E content \in {Derived(WorkOf(pos)), TornBindings} :
       /\ rbind' = [rbind EXCEPT ![WorkOf(pos)] = content]
       /\ IF content = TornBindings THEN Return("FAIL") \/ Die ELSE GoOn("emit")
  /\ UNCHANGED <<cbind, rs>>

\* Mutated form: the exit status of emit is not looked at.
EmitUnchecked ==
  /\ At("emit")
  /\ rs' \in {rs, [rs EXCEPT ![OutOf(pos)] = TornRust],
             [rs EXCEPT ![OutOf(pos)] = Emitted(WorkOf(pos))]}
  /\ GoOn("check")
  /\ UNCHANGED <<cbind, rbind>>

\* Step 3 leaves the writing to the engine.
Emit ==
  /\ At("emit")
  /\ \/ /\ rs' = [rs EXCEPT ![OutOf(pos)] = Emitted(WorkOf(pos))]
        /\ GoOn("check")
     \/ pos \in Silent /\ UNCHANGED rs /\ GoOn("check")
     \/ /\ rs' \in {rs, [rs EXCEPT ![OutOf(pos)] = TornRust]}
        /\ Return("FAIL") \/ Die
  /\ UNCHANGED <<cbind, rbind>>

Check ==
  /\ At("check")
  /\ Return(IF rs[OutOf(pos)] = NoRust THEN "FAIL" ELSE "PASS")
  /\ UNCHANGED files

\* Killed between two steps.
Interrupt ==
  /\ phase = "run"
  /\ phase' = "killed"
  /\ UNCHANGED <<opts, pos, step, results, code, files>>

\* The user is done invoking the driver.
Rest == phase # "run" /\ run = MaxRuns /\ UNCHANGED vars

RunMember == DryRun \/ Skip \/ Begin \/ Diff \/ Bind \/ Emit \/ Check
Next == Invoke \/ NextCluster \/ RunMember \/ Summarise \/ Interrupt \/ Rest

Spec == Init /\ [][Next]_vars

\* The driver is one sequential process, and the tools it waits for terminate.
FairSpec == Spec /\ WF_vars(NextCluster \/ RunMember \/ Summarise)
-----------------------------------------------------------------------------
Statuses == {"PASS", "FAIL", "SKIP", "DRY"}
Steps == {"loop", "diff", "bind", "emit", "check"}

TypeOK ==
  /\ run \in 0..MaxRuns /\ dry \in BOOLEAN /\ stop \in BOOLEAN
  /\ phase \in {"idle", "run", "exit", "died", "killed"}
  /\ pos \in Nat \X Nat
  /\ step \in Steps
  /\ step # "loop" => pos \in Member
  /\ results \in Seq([member : Member, status : Statuses, last : Steps])
  /\ code \in 0..2
  /\ cbind \in [Works -> Stamps]
  /\ rbind \in [Works -> [own : Stamps, cb : Stamps]]
  /\ rs \in [Outs -> [own : Stamps, cb : Stamps, rb : Stamps]]

\* A Rust file that an emit completed was made for the member whose output it
\* is, from Rust bindings and C bindings which that same invocation had derived
\* for that same member: never from what a failed tool, a killed driver, an
\* earlier invocation or a namesake left in the work directory.
Provenance ==
  \A o \in Outs : Whole(rs[o].own) =>
    /\ rs[o].cb = rs[o].own /\ rs[o].rb = rs[o].own
    /\ OutOf(rs[o].own.by) = o

\* Exit status 0 of a real invocation speaks for the whole selection: every
\* member of every chosen cluster was taken up, passed, and has an output file.
ExitZeroMeansAll ==
  phase = "exit" /\ code = 0 /\ ~dry =>
    \A j \in Member : Chosen(j[1]) =>
      /\ \E i \in 1..Len(results) : results[i].member = j /\ results[i].status = "PASS"
      /\ rs[OutOf(j)] # NoRust

\* What an invocation leaves at the path of a member that passed is its own: the
\* Rust file which the emit of that member, or of a later one that shares the path,
\* completed in this invocation, or what a later sharer's failing emit made of
\* it; never a file, whole or torn, of an earlier invocation.  That holds whatever
\* the exit status, of the members for which the engine writes what it says.
LeftBy(k, stamp) ==
  \/ stamp = [by |-> results[k].member, run |-> run]
  \/ /\ stamp = [by |-> results[k].member, run |-> -run]
     /\ results[k].status = "FAIL" /\ results[k].last = "emit"

PassIsFresh ==
  phase = "exit" =>
    \A i \in 1..Len(results) : results[i].status = "PASS" /\ results[i].member \notin Silent =>
      LET o == OutOf(results[i].member)
      IN \E k \in i..Len(results) : OutOf(results[k].member) = o /\ LeftBy(k, rs[o].own)

\* --stop-on-fail "Abort after the first member failure": from then on the
\* invocation takes up no member of any cluster and touches no file.
HasFailed == \E i \in 1..Len(results) : results[i].status = "FAIL"
StopsTheBatch ==
  [][phase = "run" /\ stop /\ HasFailed => UNCHANGED <<results, files>>]_vars

\* Every invocation ends.
RunEnds == (phase = "run") ~> (phase # "run")
\* "emit produced no file at ..." fails a member: a PASS says that this
\* invocation's emit wrote the member's Rust file.
PassIsWritten ==
  [][At("check") /\ results' # results /\ results'[Len(results')].status = "PASS"
       => rs[OutOf(pos)].own = Mine]_vars
=============================================================================
