-------------------------- MODULE CompdbDumpProofs --------------------------
(***************************************************************************)
(* What CompdbDump guarantees for every database, filter, number of        *)
(* workers and mode.                                                       *)
(***************************************************************************)
EXTENDS CompdbDump, FiniteSetTheorems, TLAPS

Blk == Entry \cup {Old, Hole}

\* Appending to a sequence adds one element to its range.
LEMMA RangeAppend ==
  ASSUME NEW S, NEW s \in Seq(S), NEW x \in S
  PROVE  /\ Append(s, x) \in Seq(S)
         /\ Range(Append(s, x)) = Range(s) \cup {x}
<1>1. Append(s, x) \in Seq(S)
  OBVIOUS
<1>2. DOMAIN s = 1..Len(s) /\ DOMAIN Append(s, x) = 1..(Len(s) + 1) /\ Len(s) \in Nat
  OBVIOUS
<1>3. Append(s, x)[Len(s) + 1] = x /\ \A i \in 1..Len(s) : Append(s, x)[i] = s[i]
  OBVIOUS
<1>4. Range(Append(s, x)) = Range(s) \cup {x}
  BY <1>2, <1>3, Z3 DEF Range
<1> QED BY <1>1, <1>4

\* A function on 1..n is a sequence.
LEMMA FunctionIsSeq ==
  ASSUME NEW S, NEW n \in Nat, NEW f, f \in [1..n -> S]
  PROVE  f \in Seq(S)
OBVIOUS

\* Writing a block leaves a text of blocks.
LEMMA PutBlockType ==
  ASSUME NEW text \in Seq(Blk), NEW e \in Entry, NEW k \in Nat
  PROVE  PutBlock(text, e, k) \in Seq(Blk)
<1> DEFINE n == IF k > Len(text) THEN k ELSE Len(text)
<1>1. n \in Nat
  OBVIOUS
<1>2. ASSUME NEW i \in 1..Len(text) PROVE text[i] \in Blk
  OBVIOUS
<1>3. PutBlock(text, e, k) \in [1..n -> Blk]
  BY <1>1, <1>2 DEF PutBlock, Blk
<1> QED BY <1>1, <1>3, FunctionIsSeq
-----------------------------------------------------------------------------
(* Types.  done[e] stays within Blocks[e] only because a worker leaves the *)
(* "write" step with its last block: Counts says so.                       *)

BeforeWrite == {"queued", "scan", "index", "clang", "open"}

Counts ==
  \A e \in Selected :
    /\ pc[e] \in BeforeWrite => done[e] = 0
    /\ pc[e] = "write" => done[e] < Blocks[e]

TypeInv == TypeOK /\ Counts

LEMMA SelectedFacts ==
  ASSUME NEW e \in Selected
  PROVE  e \in Entry /\ Source[e] \in Sources /\ Blocks[e] \in Nat /\ Blocks[e] > 0
BY CompdbAssumption DEF Selected, Sources, Range

LEMMA FirstStepType ==
  ASSUME NEW e \in Selected
  PROVE  FirstStep(e) \in {"raised", "err", "scan", "clang"}
BY DEF FirstStep

\* Whatever clang does to the output of an entry, texts stay texts.
LEMMA EmitType ==
  ASSUME TypeInv, NEW e \in Selected,
         UNCHANGED file \/ EmitTo(e, <<>>) \/ ClangUnheard(e) \/ EmitTo(e, Text(e))
  PROVE  file' \in [Sources -> Seq(Entry \cup {Old, Hole})]
<1>1. Text(e) \in Seq(Entry \cup {Old, Hole}) /\ <<>> \in Seq(Entry \cup {Old, Hole})
  <2>1. Text(e) \in [1..Blocks[e] -> Entry \cup {Old, Hole}]
    BY SelectedFacts DEF Text
  <2> QED BY <2>1, SelectedFacts, FunctionIsSeq
<1>2. file \in [Sources -> Seq(Entry \cup {Old, Hole})]
  BY DEF TypeInv, TypeOK
<1>3. UNCHANGED file \/ EmitTo(e, <<>>) \/ EmitTo(e, Text(e))
  BY DEF ClangUnheard
<1>4. ASSUME NEW t \in Seq(Entry \cup {Old, Hole}), EmitTo(e, t)
      PROVE  file' \in [Sources -> Seq(Entry \cup {Old, Hole})]
  BY <1>2, <1>4, SelectedFacts DEF EmitTo
<1> QED BY <1>1, <1>2, <1>3, <1>4

LEMMA TypeInit == Init => TypeInv
<1> SUFFICES ASSUME Init PROVE TypeInv
  OBVIOUS
<1>1. \A t \in {<<>>, <<Old>>, <<Old, Old>>} : t \in Seq(Entry \cup {Old, Hole})
  <2> DEFINE B == Entry \cup {Old, Hole}
  <2>1. Old \in B
    OBVIOUS
  <2> HIDE DEF B
  <2>2. <<>> \in Seq(B) /\ <<Old>> \in Seq(B) /\ <<Old, Old>> \in Seq(B)
    BY <2>1
  <2> QED BY <2>2 DEF B
<1>2. file \in [Sources -> Seq(Entry \cup {Old, Hole})]
  BY <1>1, Zenon DEF Init
<1>3. pc \in [Selected -> Steps] /\ done \in [Selected -> Nat]
  BY DEF Init, Steps
<1>4. \A e \in Selected : done[e] = 0 /\ pc[e] = "queued" /\ Blocks[e] \in Nat
  BY SelectedFacts DEF Init
<1>5. sidecar \in [Sources -> {"absent", "empty", "whole"}]
  BY DEF Init
<1>6. phase \in {"load", "collect", "unwind"} \cup Final /\ ok \in Seq(Selected) /\ failed \in Seq(Selected)
     /\ orphans \subseteq Selected
  BY DEF Init
<1>7. TypeOK
  BY <1>2, <1>3, <1>4, <1>5, <1>6 DEF TypeOK
<1>8. Counts
  BY <1>4 DEF Counts, BeforeWrite
<1> QED BY <1>7, <1>8 DEF TypeInv

\* A step of entry e that leaves the files and the count alone.
LEMMA TypeGoto ==
  ASSUME TypeInv, NEW e \in Selected, NEW s \in Steps,
         s \in BeforeWrite => pc[e] \in BeforeWrite,
         s = "write" => pc[e] \in BeforeWrite,
         Goto(e, s), UNCHANGED done
  PROVE  /\ pc' \in [Selected -> Steps]
         /\ done' \in [Selected -> Nat] /\ \A d \in Selected : done'[d] <= Blocks[d]
         /\ Counts'
<1>1. pc' \in [Selected -> Steps] /\ \A d \in Selected : pc'[d] = IF d = e THEN s ELSE pc[d]
  BY DEF TypeInv, TypeOK, Goto
<1>2. done' \in [Selected -> Nat] /\ \A d \in Selected : done'[d] <= Blocks[d]
  BY DEF TypeInv, TypeOK
<1>3. Counts'
  BY <1>1, SelectedFacts DEF TypeInv, Counts, BeforeWrite
<1> QED BY <1>1, <1>2, <1>3

LEMMA TypeNext == TypeInv /\ [Next]_vars => TypeInv'
<1> SUFFICES ASSUME TypeInv, [Next]_vars PROVE TypeInv'
  OBVIOUS
<1> USE DEF TypeInv
<1>1. CASE UNCHANGED vars
  BY <1>1 DEF vars, TypeOK, Counts
<1>2. CASE Load
  BY <1>2 DEF Load, TypeOK, Counts, Final
<1>3. CASE Publish
  BY <1>3 DEF Publish, TypeOK, Counts, Final
<1>4. CASE Abort
  BY <1>4 DEF Abort, TypeOK, Counts, Final
<1>5. CASE Exited
  BY <1>5, <1>1 DEF Exited
<1>6. ASSUME NEW e \in Selected, Start(e) PROVE TypeInv'
  <2>1. FirstStep(e) \in Steps /\ FirstStep(e) # "write"
    BY FirstStepType DEF Steps, Ended
  <2>2. pc[e] \in BeforeWrite
    BY <1>6 DEF Start, BeforeWrite
  <2> QED BY <1>6, <2>1, <2>2, TypeGoto DEF Start, TypeOK, Final
<1>7. ASSUME NEW e \in Selected, OpenSidecar(e) PROVE TypeInv'
  <2>1. pc[e] \in BeforeWrite /\ "index" \in Steps
    BY <1>7 DEF OpenSidecar, BeforeWrite, Steps
  <2> QED BY <1>7, <2>1, TypeGoto DEF OpenSidecar, TypeOK
<1>8. ASSUME NEW e \in Selected, WriteSidecar(e) PROVE TypeInv'
  <2>1. pc[e] \in BeforeWrite /\ "clang" \in Steps
    BY <1>8 DEF WriteSidecar, BeforeWrite, Steps
  <2> QED BY <1>8, <2>1, TypeGoto DEF WriteSidecar, TypeOK
<1>9. ASSUME NEW e \in Selected, ClangFails(e) PROVE TypeInv'
  <2>1. pc[e] \in BeforeWrite /\ "err" \in Steps
    BY <1>9 DEF ClangFails, BeforeWrite, Steps, Ended
  <2>2. file' \in [Sources -> Seq(Entry \cup {Old, Hole})]
    BY <1>9, EmitType DEF ClangFails
  <2> QED BY <1>9, <2>1, <2>2, TypeGoto DEF ClangFails, TypeOK
<1>10. ASSUME NEW e \in Selected, ClangDumps(e) PROVE TypeInv'
  <2>1. pc[e] \in BeforeWrite /\ "open" \in Steps
    BY <1>10 DEF ClangDumps, BeforeWrite, Steps
  <2> QED BY <1>10, <2>1, TypeGoto DEF ClangDumps, TypeOK
<1>11. ASSUME NEW e \in Selected, ClangEmits(e) PROVE TypeInv'
  <2>1. pc[e] \in BeforeWrite /\ "ok" \in Steps
    BY <1>11 DEF ClangEmits, BeforeWrite, Steps, Ended
  <2>3. file' \in [Sources -> Seq(Entry \cup {Old, Hole})]
    BY <1>11, EmitType DEF ClangEmits
  <2> QED BY <1>11, <2>1, <2>3, TypeGoto DEF ClangEmits, TypeOK
<1>12. ASSUME NEW e \in Selected, OpenOutput(e) PROVE TypeInv'
  <2>1. pc[e] \in BeforeWrite /\ "write" \in Steps
    BY <1>12 DEF OpenOutput, BeforeWrite, Steps
  <2>2. file' \in [Sources -> Seq(Entry \cup {Old, Hole})]
    BY <1>12, SelectedFacts DEF OpenOutput, TypeOK
  <2> QED BY <1>12, <2>1, <2>2, TypeGoto DEF OpenOutput, TypeOK
<1>13. ASSUME NEW e \in Selected, WriteBlock(e) PROVE TypeInv'
  <2>1. done[e] \in Nat /\ done[e] < Blocks[e] /\ Blocks[e] \in Nat
    BY <1>13, SelectedFacts DEF WriteBlock, TypeOK, Counts
  <2>2. file' \in [Sources -> Seq(Entry \cup {Old, Hole})]
    <3>1. file \in [Sources -> Seq(Blk)] /\ Source[e] \in Sources /\ e \in Entry
      BY SelectedFacts DEF TypeOK, Blk
    <3>2. file[Source[e]] \in Seq(Blk) /\ done[e] + 1 \in Nat
      BY <2>1, <3>1
    <3>3. PutBlock(file[Source[e]], e, done[e] + 1) \in Seq(Blk)
      BY <3>1, <3>2, PutBlockType, Zenon
    <3>4. file' \in [Sources -> Seq(Blk)]
      BY <1>13, <3>1, <3>3 DEF WriteBlock
    <3> QED BY <3>4 DEF Blk
  <2>3. /\ done' \in [Selected -> Nat]
        /\ \A d \in Selected : done'[d] = IF d = e THEN done[e] + 1 ELSE done[d]
    BY <1>13, <2>1 DEF WriteBlock, TypeOK
  <2>4. /\ pc' \in [Selected -> Steps]
        /\ \A d \in Selected :
             pc'[d] = IF d = e THEN IF done[e] + 1 = Blocks[e] THEN "ok" ELSE "write"
                      ELSE pc[d]
    BY <1>13 DEF WriteBlock, Goto, TypeOK, Steps, Ended
  <2>5. Counts'
    BY <2>1, <2>3, <2>4 DEF Counts, BeforeWrite
  <2>6. \A d \in Selected : done'[d] <= Blocks[d]
    <3>1. \A d \in Selected : done[d] \in Nat /\ done[d] <= Blocks[d]
      BY DEF TypeOK
    <3> QED BY <2>1, <2>3, <3>1
  <2> QED BY <1>13, <2>2, <2>3, <2>4, <2>5, <2>6 DEF WriteBlock, TypeOK
<1>14. ASSUME NEW e \in Selected, WorkerRaises(e) PROVE TypeInv'
  <2>1. "raised" \in Steps /\ "raised" \notin BeforeWrite
    BY DEF BeforeWrite, Steps, Ended
  <2>2. file' \in [Sources -> Seq(Entry \cup {Old, Hole})]
    BY <1>14, EmitType DEF WorkerRaises
  <2> QED BY <1>14, <2>1, <2>2, TypeGoto DEF WorkerRaises, TypeOK
<1>15. ASSUME NEW e \in Selected, PoolBreaks(e) PROVE TypeInv'
  <2>1. /\ pc' \in [Selected -> Steps]
        /\ \A d \in Selected : pc'[d] = IF pc[d] \in Ended THEN pc[d] ELSE "raised"
    BY <1>15 DEF PoolBreaks, TypeOK, Steps, Ended
  <2>2. Counts'
    BY <1>15, <2>1 DEF PoolBreaks, Counts, BeforeWrite, Ended
  <2> QED BY <1>15, <2>1, <2>2 DEF PoolBreaks, TypeOK
<1>16. ASSUME NEW e \in Selected, CollectOk(e) PROVE TypeInv'
  <2>1. ok' \in Seq(Selected)
    BY <1>16 DEF CollectOk, TypeOK
  <2> QED BY <1>16, <2>1 DEF CollectOk, TypeOK, Counts
<1>17. ASSUME NEW e \in Selected, CollectFailed(e) PROVE TypeInv'
  <2>1. failed' \in Seq(Selected)
    BY <1>17 DEF CollectFailed, TypeOK
  <2> QED BY <1>17, <2>1 DEF CollectFailed, TypeOK, Counts
<1>18. ASSUME NEW e \in Selected, CollectRaised(e) PROVE TypeInv'
  BY <1>18 DEF CollectRaised, TypeOK, Counts
<1>19. ASSUME NEW e \in Selected, OrphanEnds(e) PROVE TypeInv'
  <2>1. file' \in [Sources -> Seq(Entry \cup {Old, Hole})]
    BY <1>19, EmitType DEF OrphanEnds
  <2> QED BY <1>19, <2>1 DEF OrphanEnds, TypeOK, Counts
<1> QED
  BY <1>1, <1>2, <1>3, <1>4, <1>5, <1>6, <1>7, <1>8, <1>9, <1>10, <1>11, <1>12, <1>13,
     <1>14, <1>15, <1>16, <1>17, <1>18, <1>19 DEF Next, Worker, Progress, Collect

\* Every state of a dump is well typed; in particular no worker writes past the
\* end of its text (_process, main).
THEOREM Typing == Spec => []TypeOK
<1>1. TypeInv => TypeOK
  BY DEF TypeInv
<1> QED BY <1>1, TypeInit, TypeNext, PTL DEF Spec
-----------------------------------------------------------------------------
(* The lists, and when a run may exit: a collected entry has the verdict   *)
(* of its list, which no later step changes; the manifest is written only  *)
(* when all are collected; before the pool exists nothing has started, and *)
(* after the exit every worker has ended or never started.  Of a clang      *)
(* that outlives its worker, the worker's entry has raised.                *)

Lists ==
  /\ \A e \in Range(ok) : e \in Selected /\ pc[e] = "ok"
  /\ \A e \in Range(failed) : e \in Selected /\ pc[e] = "err"

Exits ==
  /\ phase \in {"load", "rejected"} => \A e \in Selected : pc[e] = "queued"
  /\ phase = "published" => Selected \subseteq Collected
  /\ phase \in Final => \A e \in Selected : pc[e] \in Ended \cup {"queued"}
  /\ \A e \in orphans : pc[e] = "raised"

ListInv == TypeInv /\ Lists /\ Exits

LEMMA ListInit == Init => ListInv
<1> SUFFICES ASSUME Init PROVE ListInv
  OBVIOUS
<1>1. Range(ok) = {} /\ Range(failed) = {}
  BY DEF Init, Range
<1> QED BY <1>1, TypeInit DEF Init, ListInv, Lists, Exits, Final

\* A step of entry e, not yet ended, that leaves the lists and main alone.
LEMMA ListGoto ==
  ASSUME ListInv, NEW e \in Selected, pc[e] \notin Ended,
         \A d \in Selected \ {e} : pc'[d] = pc[d],
         phase \notin Final \cup {"load"}, UNCHANGED <<phase, ok, failed, orphans>>
  PROVE  Lists' /\ Exits'
<1>1. e \notin Range(ok) /\ e \notin Range(failed)
  BY DEF ListInv, Lists, Ended
<1>2. Lists'
  BY <1>1 DEF ListInv, Lists
<1>3. Exits'
  <2>1. e \notin orphans
    BY DEF ListInv, Exits, Ended
  <2>2. \A d \in orphans : d \in Selected
    BY DEF ListInv, TypeInv, TypeOK
  <2> QED BY <2>1, <2>2 DEF ListInv, Exits, Final
<1> QED BY <1>2, <1>3

LEMMA ListNext == ListInv /\ [Next]_vars => ListInv'
<1> SUFFICES ASSUME ListInv, [Next]_vars PROVE ListInv'
  OBVIOUS
<1>0. TypeInv' /\ TypeInv /\ pc \in [Selected -> Steps] /\ ok \in Seq(Selected) /\ failed \in Seq(Selected)
  BY TypeNext DEF ListInv, TypeInv, TypeOK
<1> SUFFICES Lists' /\ Exits'
  BY <1>0 DEF ListInv
<1>1. CASE UNCHANGED vars
  BY <1>1 DEF vars, ListInv, Lists, Exits, Collected
<1>2. CASE Load
  BY <1>2 DEF Load, ListInv, Lists, Exits, Final
<1>3. CASE Publish
  <2>1. \A e \in Selected : pc[e] \in Ended
    BY <1>3 DEF Publish, ListInv, Lists, Collected, Ended
  <2> QED BY <1>3, <2>1 DEF Publish, ListInv, Lists, Exits, Collected
<1>4. CASE Abort
  BY <1>4 DEF Abort, ListInv, Lists, Exits, Collected
<1>5. CASE Exited
  BY <1>5, <1>1 DEF Exited
<1>6. ASSUME NEW e \in Selected, Progress(e) \/ WorkerRaises(e) PROVE Lists' /\ Exits'
  <2>1. pc[e] \notin Ended /\ \A d \in Selected \ {e} : pc'[d] = pc[d]
    BY <1>0, <1>6 DEF Progress, Start, OpenSidecar, WriteSidecar, ClangFails, ClangDumps,
         ClangEmits, OpenOutput, WriteBlock, WorkerRaises, Goto, Ended
  <2>2. UNCHANGED <<phase, ok, failed, orphans>>
    BY <1>6 DEF Progress, Start, OpenSidecar, WriteSidecar, ClangFails, ClangDumps,
         ClangEmits, OpenOutput, WriteBlock, WorkerRaises
  <2>3. phase \notin Final \cup {"load"}
    BY <1>6 DEF Progress, Start, OpenSidecar, WriteSidecar, ClangFails, ClangDumps,
         ClangEmits, OpenOutput, WriteBlock, WorkerRaises, ListInv, Exits, Final, Ended
  <2> QED BY <2>1, <2>2, <2>3, ListGoto
<1>7. ASSUME NEW e \in Selected, PoolBreaks(e) PROVE Lists' /\ Exits'
  <2>1. \A d \in Selected : pc'[d] = IF pc[d] \in Ended THEN pc[d] ELSE "raised"
    BY <1>7 DEF PoolBreaks
  <2>2. phase \notin Final \cup {"load"}
    BY <1>7 DEF PoolBreaks, Running, ListInv, Exits
  <2>3. Lists'
    BY <1>7, <2>1 DEF PoolBreaks, ListInv, Lists, Ended
  <2>4. \A d \in orphans' : d \in Selected /\ pc'[d] = "raised"
    BY <1>7, <2>1 DEF PoolBreaks, Ended
  <2> QED BY <1>7, <2>2, <2>3, <2>4 DEF PoolBreaks, Exits, Final
<1>8. ASSUME NEW e \in Selected, CollectOk(e) PROVE Lists' /\ Exits'
  <2>1. Range(ok') = Range(ok) \cup {e}
    BY <1>0, <1>8, RangeAppend DEF CollectOk
  <2> QED BY <1>8, <2>1 DEF CollectOk, ListInv, Lists, Exits, Final
<1>9. ASSUME NEW e \in Selected, CollectFailed(e) PROVE Lists' /\ Exits'
  <2>1. Range(failed') = Range(failed) \cup {e}
    BY <1>0, <1>9, RangeAppend DEF CollectFailed
  <2> QED BY <1>9, <2>1 DEF CollectFailed, ListInv, Lists, Exits, Final
<1>10. ASSUME NEW e \in Selected, CollectRaised(e) PROVE Lists' /\ Exits'
  BY <1>10 DEF CollectRaised, ListInv, Lists, Exits, Final
<1>11. ASSUME NEW e \in Selected, OrphanEnds(e) PROVE Lists' /\ Exits'
  BY <1>11 DEF OrphanEnds, ListInv, Lists, Exits, Collected, Final
<1> QED
  BY <1>1, <1>2, <1>3, <1>4, <1>5, <1>6, <1>7, <1>8, <1>9, <1>10, <1>11
     DEF Next, Worker, Collect

\* An output that changes under OrphanEnds(e) is that of e.
LEMMA UnheardOutput ==
  ASSUME TypeInv, NEW e \in Selected, ClangUnheard(e), NEW s \in Sources, file'[s] # file[s]
  PROVE  Mode = "llvm" /\ Source[e] = s
<1>1. CASE UNCHANGED file
  BY <1>1
<1>2. ASSUME NEW t, EmitTo(e, t) PROVE Source[e] = s
  BY <1>2 DEF EmitTo, TypeInv, TypeOK
<1> QED BY <1>1, <1>2 DEF ClangUnheard

\* Once main has exited no verdict and no sidecar changes (the executor's exit
\* waits for the pool), and an output only if the run was aborted in llvm mode
\* and the clang of a killed worker ends after it.
THEOREM Frozen == Spec => FrozenAfterExit
<1>1. ListInv /\ [Next]_vars => [(phase \in Final) => OrphanAtMost]_vars
  <2> SUFFICES ASSUME ListInv, [Next]_vars, phase \in Final PROVE OrphanAtMost
    OBVIOUS
  <2>1. \A e \in Selected : pc[e] \in Ended \cup {"queued"}
    BY DEF ListInv, Exits
  <2>2. ~Load /\ ~Publish /\ ~Abort
    BY DEF Load, Publish, Abort, Final
  <2>3. \A e \in Selected : ~Progress(e) /\ ~WorkerRaises(e)
    BY <2>1 DEF Progress, Start, OpenSidecar, WriteSidecar, ClangFails, ClangDumps,
         ClangEmits, OpenOutput, WriteBlock, WorkerRaises, Final, Ended
  <2>4. \A e \in Selected : ~PoolBreaks(e)
    BY <2>1 DEF PoolBreaks, Running
  <2>5. \A e \in Selected : ~Collect(e)
    BY DEF Collect, CollectOk, CollectFailed, CollectRaised, Final
  <2>6. UNCHANGED vars \/ \E e \in Selected : OrphanEnds(e)
    BY <2>2, <2>3, <2>4, <2>5 DEF Next, Worker, Exited
  <2>7. CASE UNCHANGED vars
    BY <2>7 DEF vars, OrphanAtMost
  <2>8. ASSUME NEW e \in Selected, OrphanEnds(e) PROVE OrphanAtMost
    <3>1. pc[e] = "raised" /\ e \in orphans
      BY <2>8 DEF OrphanEnds, ListInv, Exits
    <3>2. phase # "published"
      BY <3>1 DEF ListInv, Lists, Exits, Collected
    <3>3. phase = "aborted"
      BY <3>1, <3>2 DEF ListInv, Exits, Final
    <3> QED BY <2>8, <3>1, <3>3, UnheardOutput DEF OrphanEnds, OrphanAtMost, ListInv
  <2> QED BY <2>6, <2>7, <2>8
<1> QED BY <1>1, ListInit, ListNext, PTL DEF Spec, FrozenAfterExit
-----------------------------------------------------------------------------
(* The text of an output.  While no other entry of the same source has     *)
(* opened it (ast mode), or may have its clang write or remove it (llvm    *)
(* mode), an entry that has finds in it what it has written so far.        *)

Opened == {"write", "ok", "raised"}

Written(e) == [i \in 1..(IF pc[e] = "ok" THEN Blocks[e] ELSE done[e]) |-> e]

Alone(e) ==
  /\ Mode = "llvm" => e \notin Elsewhere
  /\ \A d \in Selected \ {e} : Source[d] = Source[e] =>
       IF Mode = "llvm" THEN d \in Elsewhere ELSE pc[d] \notin Opened

Owns(e) == pc[e] \in {"write", "ok"} /\ Alone(e) => file[Source[e]] = Written(e)

Captures == \A e \in Selected : pc[e] \in {"open", "write"} => Mode = "ast"

OwnInv == ListInv /\ Captures /\ \A e \in Selected : Owns(e)

\* The next block of a text that is being written in order.
LEMMA PutNext ==
  ASSUME NEW e, NEW k \in Nat
  PROVE  PutBlock([i \in 1..k |-> e], e, k + 1) = [i \in 1..(k + 1) |-> e]
<1> DEFINE s == [i \in 1..k |-> e]
<1>1. s \in Seq({e}) /\ Len(s) = k /\ \A i \in 1..k : s[i] = e
  OBVIOUS
<1>2. (IF k + 1 > Len(s) THEN k + 1 ELSE Len(s)) = k + 1
  BY <1>1
<1>3. \A i \in 1..(k + 1) :
        (IF i = k + 1 THEN e ELSE IF i <= Len(s) THEN s[i] ELSE Hole) = e
  BY <1>1
<1> HIDE DEF s
<1>4. PutBlock(s, e, k + 1) = [i \in 1..(k + 1) |-> e]
  BY <1>2, <1>3 DEF PutBlock
<1> QED BY <1>4 DEF s

\* A step of entry e that changes no file and opens none keeps every text.
LEMMA OwnGoto ==
  ASSUME OwnInv, NEW e \in Selected, NEW s, s \notin {"write", "ok"},
         Goto(e, s), UNCHANGED <<done, file>>,
         pc[e] \in Opened => s \in Opened
  PROVE  \A d \in Selected : Owns(d)'
<1> SUFFICES ASSUME NEW d \in Selected, pc'[d] \in {"write", "ok"}, Alone(d)'
             PROVE  file'[Source[d]] = Written(d)'
  BY DEF Owns
<1>1. \A x \in Selected : pc'[x] = IF x = e THEN s ELSE pc[x]
  BY DEF Goto, OwnInv, ListInv, TypeInv, TypeOK
<1>2. d # e /\ pc'[d] = pc[d]
  BY <1>1
<1>3. Alone(d)
  BY <1>1, <1>2 DEF Alone
<1> QED BY <1>2, <1>3 DEF OwnInv, Owns, Written

\* Another entry's write to a file: that entry has opened it, so no other is
\* alone there.
LEMMA OwnOthers ==
  ASSUME OwnInv, NEW e \in Selected, NEW d \in Selected \ {e}, NEW text,
         \A x \in Selected \ {e} : pc'[x] = pc[x] /\ done'[x] = done[x],
         IF Mode = "llvm" THEN e \notin Elsewhere
                          ELSE pc'[e] \in Opened /\ pc[e] \notin {"err", "raised"},
         file' = [file EXCEPT ![Source[e]] = text]
  PROVE  Owns(d)'
<1> SUFFICES ASSUME pc'[d] \in {"write", "ok"}, Alone(d)'
             PROVE  file'[Source[d]] = Written(d)'
  BY DEF Owns
<1>1. Source[d] # Source[e]
  BY DEF Alone
<1>2. Alone(d)
  <2> SUFFICES ASSUME NEW x \in Selected \ {d}, Source[x] = Source[d]
               PROVE  IF Mode = "llvm" THEN x \in Elsewhere ELSE pc[x] \notin Opened
    BY DEF Alone
  <2> QED BY <1>1 DEF Alone
<1>3. file'[Source[d]] = file[Source[d]]
  BY <1>1, SelectedFacts DEF OwnInv, ListInv, TypeInv, TypeOK
<1> QED BY <1>2, <1>3 DEF OwnInv, Owns, Written

\* A clang that nothing but its own entry, now ended without output, waits for.
LEMMA OwnClang ==
  ASSUME OwnInv, NEW e \in Selected, ClangUnheard(e), pc'[e] \in {"err", "raised"},
         \A x \in Selected \ {e} : pc'[x] = pc[x],
         pc[e] \in Opened => pc'[e] \in Opened,
         UNCHANGED done
  PROVE  \A d \in Selected : Owns(d)'
<1> SUFFICES ASSUME NEW d \in Selected \ {e} PROVE Owns(d)'
  BY DEF Owns
<1>1. CASE UNCHANGED file
  <2> SUFFICES ASSUME pc'[d] \in {"write", "ok"}, Alone(d)'
               PROVE  file'[Source[d]] = Written(d)'
    BY DEF Owns
  <2>1. Alone(d)
    BY DEF Alone
  <2> QED BY <1>1, <2>1 DEF OwnInv, Owns, Written
<1>2. ASSUME NEW t, Mode = "llvm", EmitTo(e, t) PROVE Owns(d)'
  <2>1. CASE e \notin Elsewhere
    BY <1>2, <2>1, OwnOthers DEF EmitTo
  <2>2. CASE e \in Elsewhere
    <3> SUFFICES ASSUME pc'[d] \in {"write", "ok"}, Alone(d)'
                 PROVE  file'[Source[d]] = Written(d)'
      BY DEF Owns
    <3>1. Alone(d) /\ UNCHANGED file
      BY <1>2, <2>2 DEF Alone, EmitTo
    <3> QED BY <3>1 DEF OwnInv, Owns, Written
  <2> QED BY <2>1, <2>2
<1> QED BY <1>1, <1>2 DEF ClangUnheard

LEMMA CapturesNext == TypeInv /\ Captures /\ [Next]_vars => Captures'
<1> SUFFICES ASSUME TypeInv, Captures, [Next]_vars PROVE Captures'
  OBVIOUS
<1>1. CASE UNCHANGED pc
  BY <1>1 DEF Captures
<1>2. ASSUME NEW e \in Selected, Progress(e) \/ WorkerRaises(e) PROVE Captures'
  <2>1. \A d \in Selected \ {e} : pc'[d] = pc[d]
    BY <1>2 DEF Progress, Start, OpenSidecar, WriteSidecar, ClangFails, ClangDumps, ClangEmits,
       OpenOutput, WriteBlock, WorkerRaises, Goto, TypeInv, TypeOK
  <2>2. pc'[e] \in {"open", "write"} => Mode = "ast"
    BY <1>2, FirstStepType DEF Progress, Start, OpenSidecar, WriteSidecar, ClangFails, ClangDumps,
       ClangEmits, OpenOutput, WriteBlock, WorkerRaises, Goto, TypeInv, TypeOK, Captures
  <2> QED BY <2>1, <2>2 DEF Captures
<1>3. ASSUME NEW e \in Selected, PoolBreaks(e) PROVE Captures'
  BY <1>3 DEF PoolBreaks, Captures
<1> QED
  BY <1>1, <1>2, <1>3 DEF vars, Next, Load, Publish, Abort, Exited, Worker, OrphanEnds, Collect,
     CollectOk, CollectFailed, CollectRaised

LEMMA OwnNext == OwnInv /\ [Next]_vars => OwnInv'
<1> SUFFICES ASSUME OwnInv, [Next]_vars PROVE OwnInv'
  OBVIOUS
<1>0. TypeInv /\ ListInv' /\ Captures
  BY ListNext DEF OwnInv, ListInv
<1>16. Captures'
  BY <1>0, CapturesNext
<1> SUFFICES \A d \in Selected : Owns(d)'
  BY <1>0, <1>16 DEF OwnInv
<1>1. CASE UNCHANGED <<pc, done, file>>
  BY <1>1 DEF OwnInv, Owns, Alone, Written
<1>2. CASE Load \/ Publish \/ Abort \/ Exited
  BY <1>1, <1>2 DEF Load, Publish, Abort, Exited, vars
<1>3. ASSUME NEW e \in Selected, Start(e) PROVE \A d \in Selected : Owns(d)'
  <2>1. FirstStep(e) \notin {"write", "ok"} /\ pc[e] \notin Opened
    BY <1>3, FirstStepType DEF Start, Opened
  <2> QED BY <1>3, <2>1, OwnGoto DEF Start
<1>4. ASSUME NEW e \in Selected, OpenSidecar(e) PROVE \A d \in Selected : Owns(d)'
  BY <1>4, OwnGoto DEF OpenSidecar, Opened
<1>5. ASSUME NEW e \in Selected, WriteSidecar(e) PROVE \A d \in Selected : Owns(d)'
  BY <1>5, OwnGoto DEF WriteSidecar, Opened
<1>6. ASSUME NEW e \in Selected, ClangFails(e) PROVE \A d \in Selected : Owns(d)'
  <2>1. ClangUnheard(e) /\ pc[e] = "clang"
    BY <1>6 DEF ClangFails, ClangUnheard
  <2>2. pc'[e] = "err" /\ \A x \in Selected \ {e} : pc'[x] = pc[x]
    BY <1>6, <1>0 DEF ClangFails, Goto, TypeInv, TypeOK
  <2> QED BY <1>6, <2>1, <2>2, OwnClang DEF ClangFails, Opened
<1>7. ASSUME NEW e \in Selected, ClangDumps(e) PROVE \A d \in Selected : Owns(d)'
  BY <1>7, OwnGoto DEF ClangDumps, Opened
<1>8. ASSUME NEW e \in Selected, WorkerRaises(e) PROVE \A d \in Selected : Owns(d)'
  <2>1. ClangUnheard(e)
    BY <1>8 DEF WorkerRaises, ClangUnheard
  <2>2. pc'[e] = "raised" /\ \A x \in Selected \ {e} : pc'[x] = pc[x]
    BY <1>8, <1>0 DEF WorkerRaises, Goto, TypeInv, TypeOK
  <2> QED BY <1>8, <2>1, <2>2, OwnClang DEF WorkerRaises, Opened
<1>9. ASSUME NEW e \in Selected, ClangEmits(e) PROVE \A d \in Selected : Owns(d)'
  <2>1. /\ pc[e] = "clang" /\ pc'[e] = "ok" /\ Mode = "llvm"
        /\ \A x \in Selected \ {e} : pc'[x] = pc[x] /\ done'[x] = done[x]
    BY <1>9, <1>0 DEF ClangEmits, Goto, TypeInv, TypeOK
  <2>2. CASE e \in Elsewhere
    <3>1. UNCHANGED <<done, file>>
      BY <1>9, <2>2 DEF ClangEmits, EmitTo
    <3>2. ~Alone(e)'
      BY <2>1, <2>2 DEF Alone
    <3>3. ASSUME NEW d \in Selected \ {e}, pc'[d] \in {"write", "ok"}, Alone(d)'
          PROVE  file'[Source[d]] = Written(d)'
      <4>1. Alone(d)
        BY <2>1, <3>3 DEF Alone
      <4> QED BY <2>1, <3>1, <3>3, <4>1 DEF OwnInv, Owns, Written
    <3> QED BY <3>2, <3>3 DEF Owns
  <2>3. CASE e \notin Elsewhere
    <3>1. file' = [file EXCEPT ![Source[e]] = Text(e)]
      BY <1>9, <2>3 DEF ClangEmits, EmitTo
    <3>2. file'[Source[e]] = Written(e)'
      BY <2>1, <3>1, <1>0, SelectedFacts DEF Written, Text, TypeInv, TypeOK
    <3>3. \A d \in Selected \ {e} : Owns(d)'
      BY <2>1, <2>3, <3>1, OwnOthers
    <3> QED BY <3>2, <3>3 DEF Owns
  <2> QED BY <2>2, <2>3
<1>10. ASSUME NEW e \in Selected, OpenOutput(e) PROVE \A d \in Selected : Owns(d)'
  <2>1. /\ pc[e] = "open" /\ pc'[e] = "write" /\ done' = done
        /\ \A x \in Selected \ {e} : pc'[x] = pc[x] /\ done'[x] = done[x]
        /\ file' = [file EXCEPT ![Source[e]] = <<>>]
    BY <1>10, <1>0 DEF OpenOutput, Goto, TypeInv, TypeOK
  <2>2. done[e] = 0
    BY <2>1, <1>0 DEF TypeInv, Counts, BeforeWrite
  <2>3. file'[Source[e]] = <<>> /\ Written(e)' = <<>>
    <3>1. Written(e)' = [i \in 1..0 |-> e]
      BY <2>1, <2>2 DEF Written
    <3>2. [i \in 1..0 |-> e] = <<>>
      OBVIOUS
    <3> QED BY <2>1, <3>1, <3>2, <1>0, SelectedFacts DEF TypeInv, TypeOK
  <2>5. Mode # "llvm" /\ pc'[e] \in Opened /\ pc[e] \notin {"err", "raised"}
    BY <2>1, <1>0 DEF Captures, Opened
  <2>4. \A d \in Selected \ {e} : Owns(d)'
    BY <2>1, <2>5, OwnOthers
  <2> QED BY <2>3, <2>4 DEF Owns
<1>11. ASSUME NEW e \in Selected, WriteBlock(e) PROVE \A d \in Selected : Owns(d)'
  <2>1. /\ pc[e] = "write"
        /\ pc'[e] = IF done[e] + 1 = Blocks[e] THEN "ok" ELSE "write"
        /\ \A x \in Selected \ {e} : pc'[x] = pc[x] /\ done'[x] = done[x]
        /\ done'[e] = done[e] + 1 /\ done[e] \in Nat
        /\ file' = [file EXCEPT ![Source[e]] = PutBlock(file[Source[e]], e, done[e] + 1)]
    BY <1>11, <1>0 DEF WriteBlock, Goto, TypeInv, TypeOK
  <2>2. ASSUME Alone(e)' PROVE file'[Source[e]] = Written(e)'
    <3>1. Alone(e)
      BY <2>1, <2>2 DEF Alone
    <3>2. file[Source[e]] = [i \in 1..done[e] |-> e]
      BY <2>1, <3>1 DEF OwnInv, Owns, Written
    <3>3. file'[Source[e]] = [i \in 1..(done[e] + 1) |-> e]
      <4>1. PutBlock(file[Source[e]], e, done[e] + 1) = [i \in 1..(done[e] + 1) |-> e]
        <5>1. done[e] \in Nat
          BY <2>1
        <5>2. PutBlock([i \in 1..done[e] |-> e], e, done[e] + 1) = [i \in 1..(done[e] + 1) |-> e]
          BY <5>1, PutNext
        <5> QED BY <3>2, <5>2
      <4>2. Source[e] \in DOMAIN file
        BY <1>0, SelectedFacts DEF TypeInv, TypeOK
      <4> QED BY <2>1, <4>1, <4>2, Zenon
    <3> QED BY <2>1, <3>3 DEF Written
  <2>4. Mode # "llvm" /\ pc'[e] \in Opened /\ pc[e] \notin {"err", "raised"}
    BY <2>1, <1>0 DEF Captures, Opened
  <2>3. \A d \in Selected \ {e} : Owns(d)'
    BY <2>1, <2>4, OwnOthers
  <2> QED BY <2>2, <2>3 DEF Owns
<1>12. ASSUME NEW e \in Selected, PoolBreaks(e) PROVE \A d \in Selected : Owns(d)'
  <2>1. /\ UNCHANGED <<done, file>>
        /\ \A d \in Selected : pc'[d] = IF pc[d] \in Ended THEN pc[d] ELSE "raised"
    BY <1>12 DEF PoolBreaks
  <2> SUFFICES ASSUME NEW d \in Selected, pc'[d] \in {"write", "ok"}, Alone(d)'
               PROVE  file'[Source[d]] = Written(d)'
    BY DEF Owns
  <2>2. pc[d] = "ok" /\ pc'[d] = "ok"
    BY <2>1 DEF Ended
  <2>3. Alone(d)
    BY <2>1 DEF Alone, Opened, Ended
  <2> QED BY <2>1, <2>2, <2>3 DEF OwnInv, Owns, Written
<1>13. ASSUME NEW e \in Selected, Collect(e) PROVE \A d \in Selected : Owns(d)'
  BY <1>1, <1>13 DEF Collect, CollectOk, CollectFailed, CollectRaised
<1>14. CASE UNCHANGED vars
  BY <1>1, <1>14 DEF vars
<1>15. ASSUME NEW e \in Selected, OrphanEnds(e) PROVE \A d \in Selected : Owns(d)'
  <2>1. pc[e] = "raised" /\ UNCHANGED <<pc, done>>
    BY <1>15 DEF OrphanEnds, OwnInv, ListInv, Exits
  <2> QED BY <1>15, <2>1, OwnClang DEF OrphanEnds
<1> QED
  BY <1>2, <1>3, <1>4, <1>5, <1>6, <1>7, <1>8, <1>9, <1>10, <1>11, <1>12, <1>13, <1>14, <1>15
     DEF Next, Worker, Progress

\* A listed output that no other entry touches holds its entry's text, whole and
\* alone, whatever earlier runs and, in ast mode, failed compilations of the same
\* source did to the path.
THEOREM SoleOutput == Spec => []SoleOutputWhole
<1>1. Init => OwnInv
  BY ListInit DEF Init, OwnInv, Owns, Captures
<1>2. OwnInv => SoleOutputWhole
  <2> SUFFICES ASSUME OwnInv, phase = "published", NEW e \in Range(ok), SoleWriter(e)
               PROVE  file[Source[e]] = Text(e)
    BY DEF SoleOutputWhole
  <2>1. e \in Selected /\ pc[e] = "ok"
    BY DEF OwnInv, ListInv, Lists
  <2>2. ASSUME NEW d \in Selected \ {e}, Source[d] = Source[e], Mode # "llvm"
        PROVE  pc[d] \notin Opened
    <3>1. d \notin Range(ok)
      BY <2>2 DEF SoleWriter, Touches
    <3>2. d \in Range(failed)
      BY <3>1 DEF OwnInv, ListInv, Exits, Collected
    <3> QED BY <3>2 DEF OwnInv, ListInv, Lists, Opened
  <2>3. Alone(e)
    BY <2>2 DEF SoleWriter, Touches, Alone
  <2> QED BY <2>1, <2>3 DEF OwnInv, Owns, Written, Text
<1> QED BY <1>1, <1>2, OwnNext, PTL DEF Spec
-----------------------------------------------------------------------------
(* The lists name no entry twice: main takes a verdict from as_completed   *)
(* only for an entry it has not recorded.                                  *)

Names(list) == IsFiniteSet(Range(list)) /\ Cardinality(Range(list)) = Len(list)

NameInv == ListInv /\ Names(ok) /\ Names(failed)

LEMMA NamesAppend ==
  ASSUME NEW S, NEW s \in Seq(S), NEW x \in S, x \notin Range(s), Names(s)
  PROVE  Names(Append(s, x))
<1>1. Range(Append(s, x)) = Range(s) \cup {x}
  BY RangeAppend
<1>2. IsFiniteSet(Range(s) \cup {x}) /\ Cardinality(Range(s) \cup {x}) = Cardinality(Range(s)) + 1
  BY FS_AddElement DEF Names
<1>3. Len(Append(s, x)) = Len(s) + 1
  OBVIOUS
<1> QED BY <1>1, <1>2, <1>3 DEF Names

LEMMA NameInit == Init => NameInv
<1> SUFFICES ASSUME Init PROVE NameInv
  OBVIOUS
<1>1. ok = <<>> /\ failed = <<>> /\ Range(<<>>) = {} /\ Len(<<>>) = 0
  BY DEF Init, Range
<1> QED BY <1>1, ListInit, FS_EmptySet DEF NameInv, Names

LEMMA NameNext == NameInv /\ [Next]_vars => NameInv'
<1> SUFFICES ASSUME NameInv, [Next]_vars PROVE NameInv'
  OBVIOUS
<1>0. ListInv' /\ ok \in Seq(Selected) /\ failed \in Seq(Selected)
  BY ListNext DEF NameInv, ListInv, TypeInv, TypeOK
<1>1. CASE UNCHANGED <<ok, failed>>
  BY <1>0, <1>1 DEF NameInv, Names
<1>2. ASSUME NEW e \in Selected, CollectOk(e) PROVE NameInv'
  BY <1>0, <1>2, NamesAppend DEF CollectOk, NameInv
<1>3. ASSUME NEW e \in Selected, CollectFailed(e) PROVE NameInv'
  BY <1>0, <1>3, NamesAppend DEF CollectFailed, NameInv
<1>4. ASSUME NEW e \in Selected, Worker(e) \/ CollectRaised(e) PROVE NameInv'
  BY <1>1, <1>4 DEF Worker, Progress, Start, OpenSidecar, WriteSidecar, ClangFails,
     ClangDumps, ClangEmits, OpenOutput, WriteBlock, WorkerRaises, PoolBreaks, OrphanEnds,
     CollectRaised
<1>5. CASE Load \/ Publish \/ Abort \/ Exited \/ UNCHANGED vars
  BY <1>1, <1>5 DEF Load, Publish, Abort, Exited, vars
<1> QED BY <1>2, <1>3, <1>4, <1>5 DEF Next, Collect

\* A manifest accounts for every selected entry exactly once, under the verdict
\* its worker returned (main's as_completed loop and the exception it lets pass).
THEOREM Complete == Spec => []ManifestComplete
<1>1. NameInv => ManifestComplete
  <2> SUFFICES ASSUME NameInv, phase = "published"
               PROVE  /\ Range(ok) = {e \in Selected : pc[e] = "ok"}
                      /\ Range(failed) = {e \in Selected : pc[e] = "err"}
                      /\ Range(ok) \cup Range(failed) = Selected
                      /\ Len(ok) + Len(failed) = Cardinality(Selected)
    BY DEF ManifestComplete
  <2>1. /\ \A e \in Range(ok) : e \in Selected /\ pc[e] = "ok"
        /\ \A e \in Range(failed) : e \in Selected /\ pc[e] = "err"
        /\ Selected \subseteq Range(ok) \cup Range(failed)
    BY DEF NameInv, ListInv, Lists, Exits, Collected
  <2>2. Range(ok) = {e \in Selected : pc[e] = "ok"}
    BY <2>1
  <2>3. Range(failed) = {e \in Selected : pc[e] = "err"}
    BY <2>1
  <2>4. Range(ok) \cup Range(failed) = Selected
    BY <2>1
  <2>5. Range(ok) \cap Range(failed) = {}
    BY <2>1
  <2>6. Len(ok) + Len(failed) = Cardinality(Range(ok) \cup Range(failed))
    <3>1. Cardinality(Range(ok) \cap Range(failed)) = 0
      BY <2>5, FS_EmptySet
    <3>2. Len(ok) \in Nat /\ Len(failed) \in Nat
      BY DEF NameInv, ListInv, TypeInv, TypeOK
    <3>3. /\ IsFiniteSet(Range(ok)) /\ Cardinality(Range(ok)) = Len(ok)
          /\ IsFiniteSet(Range(failed)) /\ Cardinality(Range(failed)) = Len(failed)
      BY DEF NameInv, Names
    <3>4. Cardinality(Range(ok) \cup Range(failed))
            = Cardinality(Range(ok)) + Cardinality(Range(failed))
                - Cardinality(Range(ok) \cap Range(failed))
      BY <3>3, FS_Union, Zenon
    <3> QED BY <3>1, <3>2, <3>3, <3>4
  <2> QED BY <2>2, <2>3, <2>4, <2>6
<1> QED BY <1>1, NameInit, NameNext, PTL DEF Spec
-----------------------------------------------------------------------------
(* Refinement.  Under the mapping of CompdbDump's Contract, a step that     *)
(* ends entries is a Decide, main's exits are the contract's, and every     *)
(* other step stutters.                                                     *)

Verdict == [e \in Selected |-> IF pc[e] \in Ended THEN pc[e] ELSE "open"]
Outcome == IF phase \in Final THEN phase ELSE "running"
Manifest == IF phase = "published" THEN [ok |-> Range(ok), failed |-> Range(failed)]
                                   ELSE [ok |-> {}, failed |-> {}]

\* main unwinds only from an exception of a worker.
Unwinds == phase = "unwind" => \E e \in Selected : pc[e] = "raised"

RefInv == ListInv /\ Unwinds

LEMMA RefInvNext == RefInv /\ [Next]_vars => RefInv'
<1> SUFFICES ASSUME RefInv, [Next]_vars PROVE Unwinds'
  BY ListNext DEF RefInv
<1>0. pc \in [Selected -> Steps]
  BY DEF RefInv, ListInv, TypeInv, TypeOK
<1>1. CASE UNCHANGED <<phase, pc>>
  BY <1>1 DEF RefInv, Unwinds
<1>2. CASE Load \/ Publish \/ Abort \/ Exited \/ UNCHANGED vars
  BY <1>1, <1>2 DEF Load, Publish, Abort, Exited, vars, Unwinds
<1>3. ASSUME NEW e \in Selected, Progress(e) \/ WorkerRaises(e) PROVE Unwinds'
  <2>1. pc[e] # "raised" /\ phase' = phase /\ \A d \in Selected \ {e} : pc'[d] = pc[d]
    BY <1>0, <1>3 DEF Progress, Start, OpenSidecar, WriteSidecar, ClangFails, ClangDumps,
         ClangEmits, OpenOutput, WriteBlock, WorkerRaises, Goto
  <2> QED BY <2>1 DEF RefInv, Unwinds
<1>4. ASSUME NEW e \in Selected, PoolBreaks(e) \/ OrphanEnds(e) PROVE Unwinds'
  BY <1>4 DEF PoolBreaks, OrphanEnds, RefInv, Unwinds, Ended
<1>5. ASSUME NEW e \in Selected, Collect(e) PROVE Unwinds'
  BY <1>5 DEF Collect, CollectOk, CollectFailed, CollectRaised, RefInv, Unwinds
<1> QED BY <1>2, <1>3, <1>4, <1>5 DEF Next, Worker

\* Ending the entries of a set S under one verdict, while main has not exited.
LEMMA Decides ==
  ASSUME NEW S \in SUBSET Selected, NEW v \in Ended,
         phase \notin Final, UNCHANGED phase,
         \A e \in S : pc[e] \notin Ended /\ pc'[e] = v,
         \A e \in Selected \ S : pc'[e] = pc[e] \/ {pc[e], pc'[e]} \cap Ended = {}
  PROVE  Contract!Next
<1>1. S \in SUBSET Contract!With("open")
  BY DEF Contract!With, Ended
<1>2. v \in Contract!Verdicts
  BY DEF Contract!Verdicts, Ended
<1>3. Verdict' = [e \in Selected |-> IF e \in S THEN v ELSE Verdict[e]]
  BY DEF Verdict
<1>4. Outcome = "running" /\ UNCHANGED <<Outcome, Manifest>>
  BY DEF Outcome, Manifest, Final
<1>5. Contract!Decide
  BY <1>1, <1>2, <1>3, <1>4 DEF Contract!Decide, Verdict, Outcome, Manifest
<1> QED BY <1>5 DEF Contract!Next

LEMMA RefNext == RefInv /\ [Next]_vars => [Contract!Next]_(Contract!vars)
<1> SUFFICES ASSUME RefInv, [Next]_vars PROVE Contract!Next \/ UNCHANGED Contract!vars
  OBVIOUS
<1>0. pc \in [Selected -> Steps]
  BY DEF RefInv, ListInv, TypeInv, TypeOK
<1>1. UNCHANGED <<Verdict, Outcome, Manifest>> => UNCHANGED Contract!vars
  BY DEF Contract!vars, Verdict, Outcome, Manifest
<1>2. CASE Exited \/ UNCHANGED vars
  BY <1>1, <1>2 DEF Exited, vars, Verdict, Outcome, Manifest
<1>3. CASE Load
  <2>1. \A e \in Selected : pc[e] = "queued"
    BY <1>3 DEF Load, RefInv, ListInv, Exits
  <2>2. CASE phase' = "collect"
    BY <1>1, <1>3, <2>2 DEF Load, Verdict, Outcome, Manifest, Final
  <2>3. CASE phase' = "rejected"
    <3>1. Contract!With("open") = Selected
      BY <2>1 DEF Contract!With, Ended
    <3>2. Outcome = "running" /\ Outcome' = "rejected" /\ UNCHANGED <<Verdict, Manifest>>
      BY <1>3, <2>3 DEF Load, Outcome, Verdict, Manifest, Final
    <3>3. Contract!Reject
      BY <3>1, <3>2 DEF Contract!Reject, Verdict, Outcome, Manifest
    <3> QED BY <3>3 DEF Contract!Next
  <2> QED BY <1>3, <2>2, <2>3 DEF Load
<1>4. CASE Publish
  <2>1. /\ Range(ok) = {e \in Selected : pc[e] = "ok"}
        /\ Range(failed) = {e \in Selected : pc[e] = "err"}
        /\ \A e \in Selected : pc[e] \in {"ok", "err"}
    BY <1>4 DEF Publish, Collected, RefInv, ListInv, Lists
  <2>2. Contract!With("open") = {} /\ Contract!With("raised") = {}
    BY <2>1 DEF Contract!With, Ended
  <2>3. Contract!With("ok") = Range(ok) /\ Contract!With("err") = Range(failed)
    BY <2>1 DEF Contract!With, Ended
  <2>4. /\ Outcome = "running" /\ Outcome' = "published" /\ UNCHANGED Verdict
        /\ Manifest' = [ok |-> Range(ok), failed |-> Range(failed)]
    BY <1>4 DEF Publish, Outcome, Verdict, Manifest, Final
  <2>5. Contract!Publish
    BY <2>2, <2>3, <2>4 DEF Contract!Publish, Verdict, Outcome, Manifest
  <2> QED BY <2>5 DEF Contract!Next
<1>5. CASE Abort
  <2>1. Contract!With("open") = {} /\ Contract!With("raised") # {}
    BY <1>5 DEF Abort, Contract!With, Ended, RefInv, Unwinds
  <2>2. Outcome = "running" /\ Outcome' = "aborted" /\ UNCHANGED <<Verdict, Manifest>>
    BY <1>5 DEF Abort, Outcome, Verdict, Manifest, Final
  <2>3. Contract!Abort
    BY <2>1, <2>2 DEF Contract!Abort, Verdict, Outcome, Manifest
  <2> QED BY <2>3 DEF Contract!Next
<1>6. ASSUME NEW e \in Selected, Progress(e) \/ WorkerRaises(e)
      PROVE  Contract!Next \/ UNCHANGED Contract!vars
  <2>1. /\ pc[e] \notin Ended /\ \A d \in Selected \ {e} : pc'[d] = pc[d]
        /\ phase \notin Final
        /\ UNCHANGED <<phase, ok, failed>>
    BY <1>0, <1>6 DEF Progress, Start, OpenSidecar, WriteSidecar, ClangFails, ClangDumps,
         ClangEmits, OpenOutput, WriteBlock, WorkerRaises, Goto, Ended, Final,
         RefInv, ListInv, Exits
  <2>2. CASE pc'[e] \in Ended
    <3>1. /\ {e} \in SUBSET Selected
          /\ \A d \in {e} : pc[d] \notin Ended /\ pc'[d] = pc'[e]
          /\ \A d \in Selected \ {e} : pc'[d] = pc[d]
      BY <2>1
    <3>2. ASSUME NEW v, v = pc'[e] PROVE Contract!Next
      BY <2>1, <2>2, <3>1, <3>2, Decides
    <3> QED BY <3>2
  <2>3. CASE pc'[e] \notin Ended
    BY <1>1, <2>1, <2>3 DEF Verdict, Outcome, Manifest
  <2> QED BY <2>2, <2>3
<1>7. ASSUME NEW e \in Selected, PoolBreaks(e) PROVE Contract!Next
  <2> DEFINE S == {d \in Selected : pc[d] \notin Ended}
  <2>1. /\ \A d \in Selected : pc'[d] = IF pc[d] \in Ended THEN pc[d] ELSE "raised"
        /\ phase \notin Final /\ UNCHANGED phase
    BY <1>7 DEF PoolBreaks, Running, RefInv, ListInv, Exits
  <2>2. /\ "raised" \in Ended /\ S \in SUBSET Selected
        /\ \A d \in S : pc[d] \notin Ended /\ pc'[d] = "raised"
        /\ \A d \in Selected \ S : pc'[d] = pc[d]
    BY <2>1 DEF Ended
  <2> QED BY <2>1, <2>2, Decides
<1>8. ASSUME NEW e \in Selected, Collect(e) PROVE UNCHANGED Contract!vars
  BY <1>1, <1>8 DEF Collect, CollectOk, CollectFailed, CollectRaised, Verdict, Outcome,
     Manifest, Final
<1>9. ASSUME NEW e \in Selected, OrphanEnds(e) PROVE UNCHANGED Contract!vars
  BY <1>1, <1>9 DEF OrphanEnds, Verdict, Outcome, Manifest
<1> QED BY <1>2, <1>3, <1>4, <1>5, <1>6, <1>7, <1>8, <1>9 DEF Next, Worker

\* A run of the dump implements DumpContract: verdicts are final, and the
\* manifest appears after the last of them, whole, or not at all.
THEOREM Implements == Spec => ImplementsContract
<1>1. Init => RefInv /\ Contract!Init
  <2> SUFFICES ASSUME Init PROVE Contract!Init
    BY ListInit DEF Init, RefInv, Unwinds
  <2>1. /\ Verdict = [e \in Selected |-> "open"] /\ Outcome = "running"
        /\ Manifest = [ok |-> {}, failed |-> {}]
    BY DEF Init, Verdict, Outcome, Manifest, Ended, Final
  <2> QED BY <2>1 DEF Contract!Init, Contract!NoManifest, Verdict, Outcome, Manifest
<1> QED BY <1>1, RefInvNext, RefNext, PTL DEF Spec, ImplementsContract, Contract!Spec
-----------------------------------------------------------------------------
(* Blocks of an earlier run.  Once one entry of a source has truncated or    *)
(* replaced the output, no writer of that output brings an old block back.   *)

Clean ==
  Elsewhere = {} =>
    \A e \in Selected : pc[e] \in {"write", "ok"} => Old \notin Range(file[Source[e]])
CleanInv == ListInv /\ Clean

\* A block written to a text adds no old block to it.
LEMMA PutClean ==
  ASSUME NEW text \in Seq(Blk), NEW e \in Entry, NEW k \in Nat, Old \notin Range(text)
  PROVE  Old \notin Range(PutBlock(text, e, k))
<1> DEFINE n == IF k > Len(text) THEN k ELSE Len(text)
           put == PutBlock(text, e, k)
<1>1. /\ DOMAIN put = 1..n /\ DOMAIN text = 1..Len(text) /\ Len(text) \in Nat
      /\ \A i \in 1..n : put[i] = IF i = k THEN e ELSE IF i <= Len(text) THEN text[i] ELSE Hole
  BY DEF PutBlock
<1>2. e # Old /\ Hole # Old
  BY CompdbAssumption DEF Entry, Old, Hole
<1>3. \A i \in 1..n : put[i] # Old
  BY <1>1, <1>2 DEF Range
<1> HIDE DEF put
<1>4. Old \notin Range(put)
  BY <1>1, <1>3 DEF Range
<1> QED BY <1>4 DEF put

\* A step of entry e that brings no old block into a text, from which e goes on
\* writing, or ends, only with a text that has none.
LEMMA CleanStep ==
  ASSUME CleanInv, Elsewhere = {}, NEW e \in Selected,
         \A d \in Selected \ {e} : pc'[d] = pc[d],
         \A s \in Sources : Old \notin Range(file[s]) => Old \notin Range(file'[s]),
         pc'[e] \in {"write", "ok"} => Old \notin Range(file'[Source[e]])
  PROVE  Clean'
<1>1. \A d \in Selected : Source[d] \in Sources
  BY SelectedFacts
<1> QED BY <1>1 DEF CleanInv, Clean

\* Nor does a clang, whether it writes the output or removes it.
LEMMA UnheardClean ==
  ASSUME CleanInv, NEW e \in Selected, ClangUnheard(e), NEW s \in Sources,
         Old \notin Range(file[s])
  PROVE  Old \notin Range(file'[s])
<1>1. Old \notin Range(Text(e)) /\ Old \notin Range(<<>>)
  BY CompdbAssumption DEF Text, Range, Old, Entry, Selected
<1>2. CASE UNCHANGED file
  BY <1>2
<1>3. ASSUME NEW t, EmitTo(e, t) PROVE file'[s] = t \/ file'[s] = file[s]
  BY <1>3 DEF EmitTo, CleanInv, ListInv, TypeInv, TypeOK
<1>4. CASE EmitTo(e, Text(e))
  BY <1>1, <1>3, <1>4
<1>5. CASE EmitTo(e, <<>>)
  BY <1>1, <1>3, <1>5
<1> QED BY <1>2, <1>4, <1>5 DEF ClangUnheard

LEMMA CleanNext == CleanInv /\ [Next]_vars => CleanInv'
<1> SUFFICES ASSUME CleanInv, [Next]_vars, Elsewhere = {} PROVE Clean'
  BY ListNext DEF CleanInv, Clean
<1>0. /\ pc \in [Selected -> Steps] /\ file \in [Sources -> Seq(Blk)]
      /\ TypeInv
  BY DEF CleanInv, ListInv, TypeInv, TypeOK, Blk
<1>1. CASE UNCHANGED <<pc, file>>
  BY <1>1 DEF CleanInv, Clean
<1>2. ASSUME NEW e \in Selected,
             \/ Start(e) \/ OpenSidecar(e) \/ WriteSidecar(e)
             \/ ClangFails(e) \/ ClangDumps(e) \/ WorkerRaises(e)
      PROVE  Clean'
  <2>1. /\ \A d \in Selected \ {e} : pc'[d] = pc[d]
        /\ pc'[e] \notin {"write", "ok"}
    BY <1>0, <1>2, FirstStepType DEF Start, OpenSidecar, WriteSidecar, ClangFails, ClangDumps,
         WorkerRaises, Goto
  <2>2. ClangUnheard(e)
    BY <1>2 DEF Start, OpenSidecar, WriteSidecar, ClangFails, ClangDumps, WorkerRaises, ClangUnheard
  <2> QED BY <2>1, <2>2, UnheardClean, CleanStep
<1>3. ASSUME NEW e \in Selected, ClangEmits(e) PROVE Clean'
  <2>1. /\ \A d \in Selected \ {e} : pc'[d] = pc[d]
        /\ file' = [file EXCEPT ![Source[e]] = Text(e)]
        /\ ClangUnheard(e)
    BY <1>0, <1>3 DEF ClangEmits, EmitTo, ClangUnheard, Goto
  <2>2. Old \notin Range(Text(e))
    BY CompdbAssumption DEF Text, Range, Old, Entry, Selected
  <2>3. file'[Source[e]] = Text(e)
    BY <1>0, <2>1, SelectedFacts
  <2> QED BY <2>1, <2>2, <2>3, UnheardClean, CleanStep
<1>4. ASSUME NEW e \in Selected, OpenOutput(e) PROVE Clean'
  <2>1. /\ \A d \in Selected \ {e} : pc'[d] = pc[d]
        /\ file' = [file EXCEPT ![Source[e]] = <<>>]
    BY <1>0, <1>4 DEF OpenOutput, Goto
  <2>2. Old \notin Range(<<>>)
    BY DEF Range
  <2>3. \A s \in Sources : file'[s] = IF s = Source[e] THEN <<>> ELSE file[s]
    BY <1>0, <2>1
  <2> QED BY <2>1, <2>2, <2>3, SelectedFacts, CleanStep
<1>5. ASSUME NEW e \in Selected, WriteBlock(e) PROVE Clean'
  <2>1. /\ \A d \in Selected \ {e} : pc'[d] = pc[d]
        /\ file' = [file EXCEPT ![Source[e]] = PutBlock(@, e, done[e] + 1)]
        /\ pc[e] = "write"
    BY <1>0, <1>5 DEF WriteBlock, Goto
  <2>2. /\ e \in Entry /\ Source[e] \in Sources /\ done[e] + 1 \in Nat
        /\ file[Source[e]] \in Seq(Blk)
    BY <1>0, SelectedFacts DEF TypeInv, TypeOK
  <2>3. Old \notin Range(file[Source[e]])
    BY <2>1 DEF CleanInv, Clean
  <2>4. Old \notin Range(PutBlock(file[Source[e]], e, done[e] + 1))
    BY <2>2, <2>3, PutClean, Zenon
  <2>5. \A s \in Sources :
          file'[s] = IF s = Source[e] THEN PutBlock(file[Source[e]], e, done[e] + 1) ELSE file[s]
    BY <1>0, <2>1
  <2> QED BY <2>1, <2>2, <2>4, <2>5, CleanStep
<1>6. ASSUME NEW e \in Selected, PoolBreaks(e) PROVE Clean'
  <2>1. /\ UNCHANGED file
        /\ \A d \in Selected : pc'[d] = IF pc[d] \in Ended THEN pc[d] ELSE "raised"
    BY <1>6 DEF PoolBreaks
  <2> QED BY <2>1 DEF CleanInv, Clean
<1>9. ASSUME NEW e \in Selected, OrphanEnds(e) PROVE Clean'
  <2>1. pc[e] = "raised" /\ UNCHANGED pc /\ ClangUnheard(e)
    BY <1>9 DEF OrphanEnds, CleanInv, ListInv, Exits
  <2> QED BY <2>1, UnheardClean, CleanStep
<1>7. \/ UNCHANGED <<pc, file>>
      \/ \E e \in Selected : Progress(e) \/ WorkerRaises(e) \/ PoolBreaks(e) \/ OrphanEnds(e)
  BY DEF vars, Next, Load, Publish, Abort, Exited, Worker, Collect, CollectOk, CollectFailed,
         CollectRaised
<1>8. ASSUME NEW e \in Selected, Progress(e) \/ WorkerRaises(e) PROVE Clean'
  BY <1>2, <1>3, <1>4, <1>5, <1>8 DEF Progress, Start, OpenSidecar, WriteSidecar, ClangFails,
     ClangDumps, WorkerRaises
<1> QED BY <1>1, <1>6, <1>7, <1>8, <1>9

\* However many listed entries share an output, and however their blocks mix in
\* it, nothing of an earlier run survives there (_process's open(..., "w")).
THEOREM NothingOld == Spec => []NoOldBlocks
<1>1. Init => CleanInv
  BY ListInit DEF Init, CleanInv, Clean
<1>2. CleanInv => NoOldBlocks
  BY DEF CleanInv, Clean, ListInv, Lists, NoOldBlocks
<1> QED BY <1>1, <1>2, CleanNext, PTL DEF Spec
-----------------------------------------------------------------------------
(* The macro indexes.  A worker past its scan finds its sidecar whole, or    *)
(* truncated by another worker of the same source that has not written it    *)
(* yet, or raised before it did: and then no manifest is written.            *)

Scanned == {"clang", "open", "write", "ok", "err"}
Indexed ==
  EmitMacros =>
    \A e \in Selected : pc[e] \in Scanned /\ Source[e] \notin Missing =>
      \/ sidecar[Source[e]] = "whole"
      \/ \E d \in Selected : Source[d] = Source[e] /\ pc[d] \in {"index", "raised"}
SideInv == ListInv /\ Indexed

LEMMA SideNext == SideInv /\ [Next]_vars => SideInv'
<1> SUFFICES ASSUME SideInv, [Next]_vars, EmitMacros PROVE Indexed'
  BY ListNext DEF SideInv, Indexed
<1>0. /\ pc \in [Selected -> Steps]
      /\ sidecar \in [Sources -> {"absent", "empty", "whole"}]
  BY DEF SideInv, ListInv, TypeInv, TypeOK
<1>1. CASE UNCHANGED <<pc, sidecar>>
  BY <1>1 DEF SideInv, Indexed
<1>2. ASSUME NEW e \in Selected, Start(e) PROVE Indexed'
  <2>1. /\ UNCHANGED sidecar /\ pc[e] = "queued"
        /\ \A d \in Selected : pc'[d] = IF d = e THEN FirstStep(e) ELSE pc[d]
    BY <1>0, <1>2 DEF Start, Goto
  <2>2. FirstStep(e) \in Scanned => Source[e] \in Missing
    BY DEF FirstStep, Scanned, SideInv
  <2> QED BY <2>1, <2>2 DEF SideInv, Indexed
<1>3. ASSUME NEW e \in Selected, OpenSidecar(e) PROVE Indexed'
  <2>1. /\ \A d \in Selected : pc'[d] = IF d = e THEN "index" ELSE pc[d]
        /\ \A s \in Sources : s # Source[e] => sidecar'[s] = sidecar[s]
        /\ pc[e] = "scan"
    BY <1>0, <1>3 DEF OpenSidecar, Goto
  <2> QED BY <2>1, SelectedFacts DEF SideInv, Indexed, Scanned
<1>4. ASSUME NEW e \in Selected, WriteSidecar(e) PROVE Indexed'
  <2>1. /\ \A d \in Selected : pc'[d] = IF d = e THEN "clang" ELSE pc[d]
        /\ \A s \in Sources : sidecar'[s] = IF s = Source[e] THEN "whole" ELSE sidecar[s]
    BY <1>0, <1>4 DEF WriteSidecar, Goto
  <2> QED BY <2>1, SelectedFacts DEF SideInv, Indexed
<1>5. ASSUME NEW e \in Selected,
             \/ ClangFails(e) \/ ClangDumps(e) \/ ClangEmits(e)
             \/ OpenOutput(e) \/ WriteBlock(e)
      PROVE  Indexed'
  <2>1. /\ UNCHANGED sidecar /\ pc[e] \in {"clang", "open", "write"}
        /\ \A d \in Selected \ {e} : pc'[d] = pc[d]
    BY <1>0, <1>5 DEF ClangFails, ClangDumps, ClangEmits, OpenOutput, WriteBlock, Goto
  <2>2. pc[e] \in Scanned /\ pc[e] \notin {"index", "raised"}
    BY <2>1 DEF Scanned
  <2> QED BY <2>1, <2>2 DEF SideInv, Indexed
<1>6. ASSUME NEW e \in Selected, WorkerRaises(e) \/ PoolBreaks(e) PROVE Indexed'
  <2>1. /\ UNCHANGED sidecar
        /\ \A d \in Selected : pc'[d] = pc[d] \/ (pc'[d] = "raised" /\ pc[d] # "raised")
    BY <1>0, <1>6 DEF WorkerRaises, PoolBreaks, Goto, Ended
  <2>2. \A d \in Selected : pc'[d] \in Scanned => pc'[d] = pc[d]
    BY <2>1 DEF Scanned
  <2>3. \A d \in Selected : pc[d] \in {"index", "raised"} => pc'[d] \in {"index", "raised"}
    BY <2>1
  <2> QED BY <2>1, <2>2, <2>3 DEF SideInv, Indexed
<1> QED
  BY <1>1, <1>2, <1>3, <1>4, <1>5, <1>6 DEF vars, Next, Load, Publish, Abort, Exited, Worker,
     Progress, Collect, CollectOk, CollectFailed, CollectRaised, OrphanEnds

\* A published manifest vouches for the macro indexes: that of every listed entry
\* whose source exists is complete, also under workers that share a source, a
\* failing clang and a broken pool (_process's scan before clang runs).
THEOREM SidecarsOfListed == Spec => []SidecarsWhole
<1>1. Init => SideInv
  <2>1. Init => \A e \in Selected : pc[e] \notin Scanned
    BY DEF Init, Scanned
  <2> QED BY <2>1, ListInit DEF SideInv, Indexed
<1>2. SideInv => SidecarsWhole
  <2> SUFFICES ASSUME SideInv, phase = "published", EmitMacros,
                      NEW e \in Selected, Source[e] \notin Missing
               PROVE  sidecar[Source[e]] = "whole"
    BY DEF SidecarsWhole
  <2>1. \A d \in Selected : pc[d] \in {"ok", "err"}
    BY DEF SideInv, ListInv, Lists, Exits, Collected
  <2> QED BY <2>1 DEF SideInv, Indexed, Scanned
<1> QED BY <1>1, <1>2, SideNext, PTL DEF Spec
=============================================================================
