----------------------- MODULE TranslationQueueProofs -----------------------
(***************************************************************************)
(* What TranslationQueue guarantees for every queue, selection and number  *)
(* of invocations, whatever the tools do and whenever the driver is        *)
(* killed.                                                                 *)
(***************************************************************************)
EXTENDS TranslationQueue, TLAPS

\* The loops are past no member they have not started, and an invocation that
\* runs has a number.
Counters ==
  /\ pos[1] >= 1 /\ pos[2] >= 1
  /\ phase = "run" => run >= 1

TypeInv == TypeOK /\ Counters

LEMMA MemberPaths ==
  ASSUME NEW j \in Member
  PROVE  WorkOf(j) \in Works /\ OutOf(j) \in Outs
BY DEF Works, Outs

LEMMA LoopMember == TypeInv /\ AtMember => pos \in Member
<1> SUFFICES ASSUME TypeInv, AtMember PROVE pos \in Member
  OBVIOUS
<1>1. pos = <<pos[1], pos[2]>> /\ pos[1] \in Nat /\ pos[2] \in Nat
  BY DEF TypeInv, TypeOK
<1>2. Len(Clusters) \in Nat /\ pos[1] \in 1..Len(Clusters)
  BY <1>1, QueueAssumption DEF TypeInv, Counters, AtMember, AtCluster
<1>3. Len(Clusters[pos[1]].members) \in Nat
  BY <1>2, QueueAssumption
<1>4. pos[2] \in 1..Len(Clusters[pos[1]].members)
  BY <1>1, <1>3 DEF TypeInv, Counters, AtMember
<1> QED BY <1>1, <1>2, <1>4 DEF Member

\* run_member returning leaves the loops in place and records the member.
LEMMA ReturnType ==
  ASSUME TypeInv, pos \in Member, NEW status \in Statuses, Return(status)
  PROVE  /\ results' \in Seq([member : Member, status : Statuses, last : Steps])
         /\ step' = "loop" /\ pos' \in Nat \X Nat /\ pos'[1] >= 1 /\ pos'[2] >= 1
         /\ UNCHANGED <<run, dry, stop, phase, code>>
<1>1. [member |-> pos, status |-> status, last |-> step] \in [member : Member, status : Statuses, last : Steps]
  BY DEF TypeInv, TypeOK
<1>2. results' \in Seq([member : Member, status : Statuses, last : Steps])
  BY <1>1 DEF Return, TypeInv, TypeOK
<1>3. Len(Clusters) \in Nat
  BY QueueAssumption
<1>4. pos' \in Nat \X Nat /\ pos'[1] >= 1 /\ pos'[2] >= 1
  BY <1>3 DEF Return, TypeInv, TypeOK, Counters
<1> QED BY <1>2, <1>4 DEF Return, opts

\* The three ways a step of run_member can leave the loops.
LEMMA LoopType ==
  ASSUME TypeInv, pos \in Member,
         \/ \E status \in Statuses : Return(status)
         \/ \E s \in {"diff", "bind", "emit", "check"} : GoOn(s)
         \/ Die
  PROVE  /\ run' \in 0..MaxRuns /\ dry' \in BOOLEAN /\ stop' \in BOOLEAN
         /\ phase' \in {"idle", "run", "exit", "died", "killed"}
         /\ pos' \in Nat \X Nat
         /\ step' \in Steps
         /\ step' # "loop" => pos' \in Member
         /\ results' \in Seq([member : Member, status : Statuses, last : Steps])
         /\ code' \in 0..2
         /\ Counters'
<1>1. CASE \E status \in Statuses : Return(status)
  BY <1>1, ReturnType DEF TypeInv, TypeOK, Counters, Steps
<1>2. CASE \E s \in {"diff", "bind", "emit", "check"} : GoOn(s)
  BY <1>2 DEF GoOn, opts, TypeInv, TypeOK, Counters, Steps
<1>3. CASE Die
  BY <1>3 DEF Die, opts, TypeInv, TypeOK, Counters
<1> QED BY <1>1, <1>2, <1>3

LEMMA StampTypes ==
  ASSUME TypeInv, phase = "run", pos \in Member
  PROVE  /\ Mine \in Stamps /\ None \in Stamps /\ Torn \in Stamps
         /\ cbind[WorkOf(pos)] \in Stamps
         /\ rbind[WorkOf(pos)].own \in Stamps /\ rbind[WorkOf(pos)].cb \in Stamps
<1>1. run \in 1..MaxRuns
  BY QueueAssumption DEF TypeInv, TypeOK, Counters
<1>2. Mine \in Stamps /\ None \in Stamps /\ Torn \in Stamps
  <2>1. {run, -run} \subseteq (-MaxRuns)..MaxRuns
    BY <1>1, QueueAssumption
  <2> QED BY <2>1 DEF Mine, Torn, Stamps
<1>3. /\ cbind[WorkOf(pos)] \in Stamps
      /\ rbind[WorkOf(pos)] \in [own : Stamps, cb : Stamps]
  BY MemberPaths DEF TypeInv, TypeOK
<1> QED BY <1>2, <1>3

LEMMA TypeInit == Init => TypeInv
<1> SUFFICES ASSUME Init PROVE TypeInv
  OBVIOUS
<1>1. None \in Stamps
  BY DEF Stamps
<1>2. /\ cbind \in [Works -> Stamps]
      /\ rbind \in [Works -> [own : Stamps, cb : Stamps]]
      /\ rs \in [Outs -> [own : Stamps, cb : Stamps, rb : Stamps]]
  BY <1>1 DEF Init, NoBindings, NoRust
<1>3. /\ run \in 0..MaxRuns /\ dry \in BOOLEAN /\ stop \in BOOLEAN /\ code \in 0..2
      /\ pos \in Nat \X Nat /\ pos[1] >= 1 /\ pos[2] >= 1
  <2>1. run = 0 /\ dry = FALSE /\ stop = FALSE /\ code = 0 /\ pos = <<1, 1>>
    BY DEF Init
  <2>2. 0 \in 0..MaxRuns
    BY QueueAssumption
  <2>3. dry \in BOOLEAN /\ stop \in BOOLEAN
    BY <2>1, Zenon
  <2>4. run \in 0..MaxRuns
    BY <2>1, <2>2, Zenon
  <2>5. code \in 0..2 /\ pos \in Nat \X Nat /\ pos[1] >= 1 /\ pos[2] >= 1
    BY <2>1
  <2> QED BY <2>3, <2>4, <2>5
<1>4. results \in Seq([member : Member, status : Statuses, last : Steps])
  BY DEF Init
<1> QED BY <1>2, <1>3, <1>4 DEF Init, TypeInv, TypeOK, Counters, Steps

LEMMA TypeNext == TypeInv /\ [Next]_vars => TypeInv'
<1> SUFFICES ASSUME TypeInv, [Next]_vars PROVE TypeInv'
  OBVIOUS
<1>1. CASE UNCHANGED vars
  BY <1>1 DEF vars, opts, loop, files, TypeInv, TypeOK, Counters
<1>2. CASE Invoke
  <2>1. results' \in Seq([member : Member, status : Statuses, last : Steps])
    BY <1>2 DEF Invoke
  <2>2. /\ run' \in 0..MaxRuns /\ run' >= 1 /\ dry' \in BOOLEAN /\ stop' \in BOOLEAN
        /\ pos' = <<1, 1>> /\ step' = "loop" /\ UNCHANGED files
        /\ phase' \in {"run", "exit"} /\ code' \in 0..2
    BY <1>2, QueueAssumption DEF Invoke, TypeInv, TypeOK
  <2> QED BY <2>1, <2>2 DEF TypeInv, TypeOK, Counters, files, Steps
<1>3. CASE NextCluster
  <2>1. /\ pos' = <<pos[1] + 1, 1>> /\ pos[1] \in Nat
        /\ UNCHANGED <<opts, phase, step, results, code, files>> /\ step = "loop"
    BY <1>3 DEF NextCluster, AtCluster, TypeInv, TypeOK
  <2> QED BY <2>1 DEF TypeInv, TypeOK, Counters, opts, files
<1>4. CASE Summarise
  <2>1. phase' = "exit" /\ code' \in 0..2 /\ UNCHANGED <<opts, pos, step, results, files>>
    BY <1>4 DEF Summarise
  <2> QED BY <2>1 DEF TypeInv, TypeOK, Counters, opts, files
<1>5. CASE Interrupt
  BY <1>5 DEF Interrupt, opts, files, TypeInv, TypeOK, Counters
<1>6. CASE DryRun \/ Skip \/ Begin
  <2>1. pos \in Member
    BY <1>6, LoopMember DEF DryRun, Skip, Begin
  <2>2. \/ \E status \in Statuses : Return(status)
        \/ \E s \in {"diff", "bind", "emit", "check"} : GoOn(s)
    BY <1>6 DEF DryRun, Skip, Begin, GoOn, Statuses
  <2>3. UNCHANGED files
    BY <1>6 DEF DryRun, Skip, Begin
  <2> QED BY <2>1, <2>2, <2>3, LoopType DEF TypeInv, TypeOK, files
<1>7. CASE Diff \/ Bind \/ Emit \/ Check
  <2>1. pos \in Member /\ phase = "run"
    BY <1>7 DEF Diff, Bind, Emit, Check, At, TypeInv, TypeOK
  <2>2. \/ \E status \in Statuses : Return(status)
        \/ \E s \in {"diff", "bind", "emit", "check"} : GoOn(s)
        \/ Die
    BY <1>7 DEF Diff, Bind, Emit, Check, Statuses
  <2>3. WorkOf(pos) \in Works /\ OutOf(pos) \in Outs
    BY <2>1, MemberPaths
  <2>4. CASE Diff
    <3>1. cbind' \in [Works -> Stamps]
      BY <2>1, <2>4, StampTypes DEF Diff, TypeInv, TypeOK
    <3> QED BY <2>1, <2>2, <2>4, <3>1, LoopType DEF Diff, TypeInv, TypeOK
  <2>5. CASE Bind
    <3>1. {Derived(WorkOf(pos)), TornBindings} \subseteq [own : Stamps, cb : Stamps]
      BY <2>1, StampTypes DEF Derived, TornBindings
    <3>2. rbind' \in [Works -> [own : Stamps, cb : Stamps]]
      BY <2>5, <3>1 DEF Bind, TypeInv, TypeOK
    <3> QED BY <2>1, <2>2, <2>5, <3>2, LoopType DEF Bind, TypeInv, TypeOK
  <2>6. CASE Emit
    <3>1. {Emitted(WorkOf(pos)), TornRust} \subseteq [own : Stamps, cb : Stamps, rb : Stamps]
      BY <2>1, StampTypes DEF Emitted, TornRust
    <3>2. rs' \in [Outs -> [own : Stamps, cb : Stamps, rb : Stamps]]
      BY <2>6, <3>1 DEF Emit, TypeInv, TypeOK
    <3> QED BY <2>1, <2>2, <2>6, <3>2, LoopType DEF Emit, TypeInv, TypeOK
  <2>7. CASE Check
    BY <2>1, <2>2, <2>7, LoopType DEF Check, TypeInv, TypeOK, files
  <2> QED BY <1>7, <2>4, <2>5, <2>6, <2>7
<1> QED
  BY <1>1, <1>2, <1>3, <1>4, <1>5, <1>6, <1>7 DEF Next, RunMember, Rest

\* Every state of the driver and its directories is well typed; in particular
\* run_member only ever works on a member of the queue (main's loops).
THEOREM Typing == Spec => []TypeOK
<1>1. TypeInv => TypeOK
  BY DEF TypeInv
<1> QED BY <1>1, TypeInit, TypeNext, PTL DEF Spec
-----------------------------------------------------------------------------
(* Provenance.  Between two steps of run_member nobody else writes the     *)
(* member's work directory, so that what a step left there for the next is *)
(* still this member's, of this invocation.  Nothing is said of the        *)
(* directories of other members: those may hold anything.                  *)

Fresh ==
  /\ step \in {"bind", "emit", "check"} => cbind[WorkOf(pos)] = Mine
  /\ step \in {"emit", "check"} => rbind[WorkOf(pos)] = [own |-> Mine, cb |-> Mine]

ProvInv == TypeInv /\ Fresh /\ Provenance

LEMMA FreshLoop ==
  ASSUME step' = "loop"
  PROVE  Fresh'
BY DEF Fresh

LEMMA ProvNext == ProvInv /\ [Next]_vars => ProvInv'
<1> SUFFICES ASSUME ProvInv, [Next]_vars PROVE Fresh' /\ Provenance'
  BY TypeNext DEF ProvInv
<1>0. TypeInv
  BY DEF ProvInv
<1>1. CASE UNCHANGED vars
  BY <1>1 DEF vars, opts, loop, files, ProvInv, Fresh, Provenance, Mine
<1>2. ASSUME UNCHANGED rs PROVE Provenance'
  BY <1>2 DEF ProvInv, Provenance
<1>3. CASE Invoke \/ NextCluster \/ DryRun \/ Skip
  <2>1. step' = "loop"
    BY <1>3 DEF Invoke, NextCluster, AtCluster, DryRun, Skip, Return
  <2>2. UNCHANGED rs
    BY <1>3 DEF Invoke, NextCluster, DryRun, Skip, files
  <2> QED BY <1>2, <2>1, <2>2, FreshLoop
<1>4. CASE Begin
  BY <1>2, <1>4 DEF Begin, files, Fresh
<1>5. CASE Summarise \/ Interrupt
  <2>1. UNCHANGED <<run, pos, step, cbind, rbind, rs>>
    BY <1>5 DEF Summarise, Interrupt, opts, files
  <2> QED BY <1>2, <2>1 DEF ProvInv, Fresh, Mine
<1>6. CASE Diff
  <2>1. UNCHANGED <<rbind, rs>> /\ step = "diff"
    BY <1>6 DEF Diff, At
  <2>2. PICK content \in {Mine, Torn} :
          /\ cbind' = [cbind EXCEPT ![WorkOf(pos)] = content]
          /\ IF content = Mine THEN GoOn("bind") ELSE Return("FAIL") \/ Die
    BY <1>6 DEF Diff
  <2>3. CASE content = Mine
    <3>1. step' = "bind" /\ pos' = pos /\ Mine' = Mine
      BY <2>2, <2>3 DEF GoOn, opts, Mine
    <3>2. WorkOf(pos) \in Works
      BY <1>0, <2>1, MemberPaths DEF TypeInv, TypeOK
    <3>3. cbind'[WorkOf(pos)] = Mine
      BY <1>0, <2>2, <2>3, <3>2 DEF TypeInv, TypeOK
    <3> QED BY <1>2, <2>1, <3>1, <3>3 DEF Fresh
  <2>4. CASE content # Mine
    <3>1. step' \in {"loop", "diff"}
      BY <2>1, <2>2, <2>4 DEF Return, Die
    <3> QED BY <1>2, <2>1, <3>1 DEF Fresh
  <2> QED BY <2>3, <2>4
<1>7. CASE Bind
  <2>1. UNCHANGED <<cbind, rs>> /\ step = "bind"
    BY <1>7 DEF Bind, At
  <2>2. PICK content \in {Derived(WorkOf(pos)), TornBindings} :
          /\ rbind' = [rbind EXCEPT ![WorkOf(pos)] = content]
          /\ IF content = TornBindings THEN Return("FAIL") \/ Die ELSE GoOn("emit")
    BY <1>7 DEF Bind
  <2>3. cbind[WorkOf(pos)] = Mine
    BY <2>1 DEF ProvInv, Fresh
  <2>4. CASE content # TornBindings
    <3>1. step' = "emit" /\ pos' = pos /\ Mine' = Mine
      BY <2>2, <2>4 DEF GoOn, opts, Mine
    <3>2. WorkOf(pos) \in Works
      BY <1>0, <2>1, MemberPaths DEF TypeInv, TypeOK
    <3>3. content = [own |-> Mine, cb |-> Mine]
      BY <2>2, <2>3, <2>4 DEF Derived
    <3>4. rbind'[WorkOf(pos)] = [own |-> Mine, cb |-> Mine]
      BY <1>0, <2>2, <3>2, <3>3 DEF TypeInv, TypeOK
    <3> QED BY <1>2, <2>1, <2>3, <3>1, <3>4 DEF Fresh
  <2>5. CASE content = TornBindings
    <3>1. CASE Return("FAIL")
      BY <1>2, <2>1, <3>1, FreshLoop DEF Return
    <3>2. CASE Die
      <4>1. step' = "bind" /\ pos' = pos /\ Mine' = Mine
        BY <2>1, <3>2 DEF Die, opts, Mine
      <4> QED BY <1>2, <2>1, <2>3, <4>1 DEF Fresh
    <3> QED BY <2>2, <2>5, <3>1, <3>2
  <2> QED BY <2>4, <2>5
<1>8. CASE Emit
  <2>1. UNCHANGED <<cbind, rbind>> /\ step = "emit" /\ pos \in Member /\ OutOf(pos) \in Outs
    BY <1>0, <1>8, MemberPaths DEF Emit, At, TypeInv, TypeOK
  <2>2. rbind[WorkOf(pos)] = [own |-> Mine, cb |-> Mine] /\ cbind[WorkOf(pos)] = Mine
    BY <2>1 DEF ProvInv, Fresh
  <2>3. \/ rs' = [rs EXCEPT ![OutOf(pos)] = Emitted(WorkOf(pos))]
        \/ rs' = rs
        \/ rs' = [rs EXCEPT ![OutOf(pos)] = TornRust]
    BY <1>8 DEF Emit
  <2>4. Emitted(WorkOf(pos)) = [own |-> Mine, cb |-> Mine, rb |-> Mine]
    BY <2>2 DEF Emitted
  <2>5. ASSUME NEW o \in Outs, Whole(rs'[o].own)
        PROVE  /\ rs'[o].cb = rs'[o].own /\ rs'[o].rb = rs'[o].own
               /\ OutOf(rs'[o].own.by) = o
    <3>1. CASE rs'[o] = rs[o]
      BY <2>5, <3>1 DEF ProvInv, Provenance
    <3>2. CASE o = OutOf(pos) /\ rs'[o] = Emitted(WorkOf(pos))
      BY <2>4, <3>2 DEF Mine
    <3>3. ~(o = OutOf(pos) /\ rs'[o] = TornRust)
      <4>1. run \in Nat /\ ~(-run > 0)
        BY <1>0, QueueAssumption DEF TypeInv, TypeOK
      <4>2. ~Whole(TornRust.own)
        BY <4>1 DEF Whole, TornRust, Torn
      <4> QED BY <2>5, <4>2
    <3> QED BY <1>0, <2>1, <2>3, <3>1, <3>2, <3>3 DEF TypeInv, TypeOK
  <2>6. Fresh'
    <3>1. \/ step' = "loop"
          \/ step' \in {"check", "emit"} /\ UNCHANGED <<run, pos>>
      BY <1>8, <2>1 DEF Emit, GoOn, Return, Die, opts
    <3> QED BY <2>1, <2>2, <3>1 DEF Fresh, Mine
  <2> QED BY <2>5, <2>6 DEF Provenance
<1>9. CASE Check
  BY <1>2, <1>9, FreshLoop DEF Check, Return, files
<1> QED
  BY <1>1, <1>3, <1>4, <1>5, <1>6, <1>7, <1>8, <1>9 DEF Next, RunMember, Rest

\* No emitted Rust file is made from anything but bindings of its own member,
\* derived in the invocation that emitted it (run_member's order of steps, its
\* early returns, and the truncation of what a step rewrites).
THEOREM OwnBindings == Spec => []Provenance
<1>1. Init => ProvInv
  <2> SUFFICES ASSUME Init PROVE Fresh /\ Provenance
    BY TypeInit DEF ProvInv
  <2> QED BY DEF Init, Fresh, Provenance, NoRust, None, Whole
<1>2. ProvInv => Provenance
  BY DEF ProvInv
<1> QED BY <1>1, <1>2, ProvNext, PTL DEF Spec
-----------------------------------------------------------------------------
(* What the results say.  The loops leave no member of the selection behind *)
(* unless one failed, and a Rust file that is there stays.                  *)

Behind(j) == j[1] < pos[1] \/ (j[1] = pos[1] /\ j[2] < pos[2])
AllPassed == \A i \in 1..Len(results) : results[i].status = "PASS"
Recorded(j) == \E i \in 1..Len(results) : results[i].member = j

Taken ==
  phase = "run" /\ ~dry /\ AllPassed =>
    \A j \in Member : Chosen(j[1]) /\ Behind(j) => Recorded(j)
Written ==
  phase = "run" =>
    \A i \in 1..Len(results) : results[i].status = "PASS" => rs[OutOf(results[i].member)] # NoRust
\* The end of both loops, once a member failed under --stop-on-fail.
Stopped == phase = "run" /\ stop /\ HasFailed => step = "loop" /\ pos[1] > Len(Clusters)

ResultInv == TypeInv /\ Taken /\ Written /\ Stopped /\ ExitZeroMeansAll

LEMMA ResultTyped ==
  ASSUME TypeInv, NEW i \in 1..Len(results)
  PROVE  /\ results[i] \in [member : Member, status : Statuses, last : Steps]
         /\ results[i].member \in Member
<1>1. results \in Seq([member : Member, status : Statuses, last : Steps])
  BY DEF TypeInv, TypeOK
<1>2. ASSUME NEW S, NEW seq \in Seq(S), NEW k \in 1..Len(seq)
      PROVE  seq[k] \in S
  OBVIOUS
<1>3. results[i] \in [member : Member, status : Statuses, last : Steps]
  BY <1>1, <1>2, Zenon
<1> QED BY <1>3

\* The results after a member was recorded.
LEMMA Appended ==
  ASSUME TypeInv, NEW status, results' = Append(results, [member |-> pos, status |-> status, last |-> step])
  PROVE  /\ Len(results) \in Nat /\ Len(results') = Len(results) + 1
         /\ \A i \in 1..Len(results) : results'[i] = results[i]
         /\ results'[Len(results) + 1] = [member |-> pos, status |-> status, last |-> step]
BY DEF TypeInv, TypeOK

LEMMA ReturnResults ==
  ASSUME ResultInv, phase = "run", pos \in Member, NEW status \in Statuses, Return(status),
         status = "PASS" => rs'[OutOf(pos)] # NoRust,
         status = "DRY" => dry,
         \A o \in Outs : rs[o] # NoRust => rs'[o] # NoRust,
         ~(stop /\ HasFailed)
  PROVE  Taken' /\ Written' /\ Stopped' /\ ExitZeroMeansAll'
<1>0. /\ TypeInv /\ phase' = "run" /\ dry' = dry /\ stop' = stop /\ step' = "loop"
      /\ results' = Append(results, [member |-> pos, status |-> status, last |-> step])
  BY DEF ResultInv, Return, opts
<1>1. /\ Len(results) \in Nat /\ Len(results') = Len(results) + 1
      /\ \A i \in 1..Len(results) : results'[i] = results[i]
      /\ results'[Len(results) + 1] = [member |-> pos, status |-> status, last |-> step]
  BY <1>0, Appended
<1>2. \A i \in 1..Len(results) : results[i].member \in Member
  BY <1>0, ResultTyped
<1>3. Written'
  <2> SUFFICES ASSUME NEW i \in 1..Len(results'), results'[i].status = "PASS"
               PROVE  rs'[OutOf(results'[i].member)] # NoRust
    BY DEF Written, OutOf, Fn
  <2>1. CASE i = Len(results) + 1
    BY <1>1, <2>1
  <2>2. CASE i \in 1..Len(results)
    BY <1>1, <1>2, <2>2, MemberPaths DEF ResultInv, Written
  <2> QED BY <1>1, <2>1, <2>2
<1>4. Taken'
  <2> SUFFICES ASSUME ~dry, AllPassed', NEW j \in Member, Chosen(j[1]), Behind(j)'
               PROVE  Recorded(j)'
    BY <1>0 DEF Taken
  <2>1. status = "PASS" /\ AllPassed
    BY <1>1 DEF AllPassed
  <2>2. pos' = <<pos[1], pos[2] + 1>>
    BY <2>1 DEF Return
  <2>3. j[1] \in Nat /\ j[2] \in Nat /\ j = <<j[1], j[2]>>
    BY QueueAssumption DEF Member
  <2>4. pos = <<pos[1], pos[2]>> /\ pos[1] \in Nat /\ pos[2] \in Nat
    BY <1>0 DEF TypeInv, TypeOK
  <2>5. CASE j = pos
    BY <1>1, <2>5 DEF Recorded
  <2>6. CASE Behind(j)
    <3>1. Recorded(j)
      BY <2>1, <2>6 DEF ResultInv, Taken
    <3> QED BY <1>1, <3>1 DEF Recorded
  <2> QED BY <2>2, <2>3, <2>4, <2>5, <2>6 DEF Behind
<1>5. Stopped'
  <2> SUFFICES ASSUME stop, HasFailed' PROVE pos'[1] > Len(Clusters)
    BY <1>0 DEF Stopped
  <2>1. ~HasFailed
    OBVIOUS
  <2>2. status = "FAIL"
    BY <1>1, <2>1 DEF HasFailed
  <2>3. pos' = <<Len(Clusters) + 1, 1>> /\ Len(Clusters) \in Nat
    BY <2>2, QueueAssumption DEF Return
  <2> QED BY <2>3
<1> QED BY <1>0, <1>3, <1>4, <1>5 DEF ExitZeroMeansAll

LEMMA ResultInit == Init => ResultInv
<1> SUFFICES ASSUME Init PROVE ResultInv
  OBVIOUS
<1>1. phase = "idle"
  BY DEF Init
<1> QED BY <1>1, TypeInit DEF ResultInv, Taken, Written, Stopped, ExitZeroMeansAll

\* Steps that record nothing and move no loop.
LEMMA SameResults ==
  ASSUME ResultInv, UNCHANGED <<dry, stop, pos, results, code>>, phase' = phase, phase = "run",
         \A o \in Outs : rs[o] # NoRust => rs'[o] # NoRust,
         stop /\ HasFailed => step' = "loop"
  PROVE  Taken' /\ Written' /\ Stopped' /\ ExitZeroMeansAll'
<1>1. Taken'
  BY DEF ResultInv, Taken, AllPassed, Behind, Recorded
<1>2. Written'
  <2>1. \A i \in 1..Len(results) : results[i].member \in Member
    BY ResultTyped DEF ResultInv
  <2> QED BY <2>1, MemberPaths DEF ResultInv, Written, OutOf, Fn
<1>3. Stopped'
  BY DEF ResultInv, Stopped, HasFailed
<1> QED BY <1>1, <1>2, <1>3 DEF ExitZeroMeansAll

\* Not in the driver any more, by an exception or a kill.
LEMMA NotRunning ==
  ASSUME phase' \notin {"run", "exit"}
  PROVE  Taken' /\ Written' /\ Stopped' /\ ExitZeroMeansAll'
BY DEF Taken, Written, Stopped, ExitZeroMeansAll

\* What a step of run_member may do to the emitted files.
LEMMA RustStays ==
  ASSUME TypeInv, At("emit"), Emit
  PROVE  \A o \in Outs : rs[o] # NoRust => rs'[o] # NoRust
<1>1. pos \in Member /\ OutOf(pos) \in Outs /\ phase = "run" /\ run >= 1 /\ run \in Int
  BY QueueAssumption, MemberPaths DEF At, TypeInv, TypeOK, Counters
<1>2. Emitted(WorkOf(pos)) # NoRust /\ TornRust # NoRust
  <2>1. Mine # None /\ Torn # None
    BY <1>1 DEF Mine, None, Torn
  <2> QED BY <2>1 DEF Emitted, NoRust, TornRust
<1>3. \/ rs' = rs
      \/ rs' = [rs EXCEPT ![OutOf(pos)] = Emitted(WorkOf(pos))]
      \/ rs' = [rs EXCEPT ![OutOf(pos)] = TornRust]
  BY DEF Emit
<1>4. \A o \in Outs : rs'[o] \in {rs[o], Emitted(WorkOf(pos)), TornRust}
  BY <1>3 DEF TypeInv, TypeOK
<1> QED BY <1>2, <1>4

LEMMA ResultNext == ResultInv /\ [Next]_vars => ResultInv'
<1> SUFFICES ASSUME ResultInv, [Next]_vars PROVE Taken' /\ Written' /\ Stopped' /\ ExitZeroMeansAll'
  BY TypeNext DEF ResultInv
<1>0. TypeInv
  BY DEF ResultInv
<1>1. CASE UNCHANGED vars
  BY <1>1 DEF vars, opts, loop, files, ResultInv, Taken, Written, Stopped, ExitZeroMeansAll,
              AllPassed, Behind, Recorded, HasFailed, OutOf, Fn
<1>2. CASE Invoke
  <2>1. /\ results' = <<>> /\ pos' = <<1, 1>> /\ Len(results') = 0
        /\ \/ phase' = "run"
           \/ phase' = "exit" /\ code' = 2
    BY <1>2 DEF Invoke
  <2>2. Taken'
    BY <2>1, QueueAssumption DEF Taken, Behind, Member
  <2> QED BY <2>1, <2>2 DEF Written, Stopped, HasFailed, ExitZeroMeansAll
<1>3. CASE NextCluster
  <2>1. /\ pos' = <<pos[1] + 1, 1>> /\ UNCHANGED <<dry, stop, results, phase, rs>>
        /\ phase = "run" /\ pos[1] <= Len(Clusters) /\ pos \in Nat \X Nat
        /\ Chosen(pos[1]) => pos[2] > Len(Clusters[pos[1]].members)
    BY <1>0, <1>3 DEF NextCluster, AtCluster, opts, files, TypeInv, TypeOK
  <2>2. Taken'
    <3> SUFFICES ASSUME ~dry, AllPassed, NEW j \in Member, Chosen(j[1]), Behind(j)'
                 PROVE  Recorded(j)'
      BY <2>1 DEF Taken, AllPassed
    <3>1. j[1] \in Nat /\ j[2] \in Nat /\ j[2] <= Len(Clusters[j[1]].members)
          /\ Len(Clusters[j[1]].members) \in Nat
      BY QueueAssumption DEF Member
    <3>2. pos'[1] = pos[1] + 1 /\ pos'[2] = 1 /\ pos[1] \in Nat /\ pos[2] \in Nat
      BY <2>1
    <3>3. j[1] < pos[1] + 1
      BY <3>1, <3>2, QueueAssumption DEF Behind, Member
    <3>4. j[1] = pos[1] => j[2] < pos[2]
      BY <2>1, <3>1, <3>2
    <3>6. Behind(j)
      BY <3>1, <3>2, <3>3, <3>4 DEF Behind
    <3> QED BY <2>1, <3>6 DEF ResultInv, Taken, Recorded
  <2>3. Stopped'
    BY <2>1, QueueAssumption DEF ResultInv, Stopped, HasFailed
  <2>4. Written'
    BY <2>1 DEF ResultInv, Written, OutOf, Fn
  <2> QED BY <2>1, <2>2, <2>3, <2>4 DEF ExitZeroMeansAll
<1>4. CASE Summarise
  <2>1. /\ phase = "run" /\ phase' = "exit" /\ pos[1] > Len(Clusters) /\ pos[1] \in Nat
        /\ UNCHANGED <<dry, results, rs>>
        /\ code' = 0 => dry \/ AllPassed
    BY <1>0, <1>4 DEF Summarise, At, opts, files, AllPassed, TypeInv, TypeOK
  <2>2. ExitZeroMeansAll'
    <3> SUFFICES ASSUME code' = 0, ~dry, NEW j \in Member, Chosen(j[1])
                 PROVE  /\ \E i \in 1..Len(results) : results[i].member = j /\ results[i].status = "PASS"
                        /\ rs[OutOf(j)] # NoRust
      BY <2>1 DEF ExitZeroMeansAll, OutOf, Fn
    <3>1. Behind(j)
      BY <2>1, QueueAssumption DEF Behind, Member
    <3>2. PICK i \in 1..Len(results) : results[i].member = j
      BY <2>1, <3>1 DEF ResultInv, Taken, Recorded
    <3>3. results[i].status = "PASS" /\ results[i] \in [member : Member, status : Statuses, last : Steps]
      BY <1>0, <2>1, ResultTyped DEF AllPassed
    <3>4. results[i].member = j /\ results[i].status = "PASS"
      BY <3>2, <3>3
    <3> QED BY <2>1, <3>2, <3>3, <3>4 DEF ResultInv, Written
  <2> QED BY <2>1, <2>2 DEF Taken, Written, Stopped
<1>5. CASE Interrupt
  BY <1>5, NotRunning DEF Interrupt
<1>6. ASSUME RunMember PROVE phase = "run" /\ pos \in Member /\ ~(stop /\ HasFailed)
  <2>1. phase = "run" /\ pos \in Member
    BY <1>0, <1>6, LoopMember DEF RunMember, DryRun, Skip, Begin, AtMember, AtCluster,
       Diff, Bind, Emit, Check, At, TypeInv, TypeOK
  <2>2. pos[1] \in Nat /\ pos[1] <= Len(Clusters) /\ Len(Clusters) \in Nat
    BY <2>1, QueueAssumption DEF Member
  <2> QED BY <2>1, <2>2 DEF ResultInv, Stopped
<1>7. CASE DryRun \/ Skip
  <2>1. UNCHANGED rs /\ RunMember
    BY <1>7 DEF DryRun, Skip, files, RunMember
  <2>2. \/ dry /\ Return("DRY")
        \/ Return("SKIP")
    BY <1>7 DEF DryRun, Skip
  <2>3. {"DRY", "SKIP"} \subseteq Statuses
    BY DEF Statuses
  <2> QED BY <1>6, <2>1, <2>2, <2>3, ReturnResults
<1>8. CASE Begin
  <2>1. UNCHANGED <<dry, stop, pos, results, code, phase, rs>> /\ RunMember
    BY <1>8 DEF Begin, opts, files, RunMember
  <2> QED BY <1>6, <2>1, SameResults
<1>9. CASE Diff \/ Bind
  <2>1. RunMember /\ UNCHANGED rs
    BY <1>9 DEF RunMember, Diff, Bind
  <2>2. \/ Return("FAIL") \/ Die \/ GoOn("bind") \/ GoOn("emit")
    BY <1>9 DEF Diff, Bind
  <2>3. CASE Return("FAIL")
    BY <1>6, <2>1, <2>3, ReturnResults DEF Statuses
  <2>4. CASE Die
    BY <2>4, NotRunning DEF Die
  <2>5. CASE GoOn("bind") \/ GoOn("emit")
    BY <1>6, <2>1, <2>5, SameResults DEF GoOn, opts
  <2> QED BY <2>2, <2>3, <2>4, <2>5
<1>10. CASE Emit
  <2>1. RunMember /\ At("emit")
    BY <1>10 DEF RunMember, Emit
  <2>2. \A o \in Outs : rs[o] # NoRust => rs'[o] # NoRust
    BY <1>0, <1>10, <2>1, RustStays
  <2>3. \/ Return("FAIL") \/ Die \/ GoOn("check")
    BY <1>10 DEF Emit
  <2>4. CASE Return("FAIL")
    BY <1>6, <2>1, <2>2, <2>4, ReturnResults DEF Statuses
  <2>5. CASE Die
    BY <2>5, NotRunning DEF Die
  <2>6. CASE GoOn("check")
    BY <1>6, <2>1, <2>2, <2>6, SameResults DEF GoOn, opts
  <2> QED BY <2>3, <2>4, <2>5, <2>6
<1>11. CASE Check
  <2>1. RunMember /\ UNCHANGED rs
    BY <1>11 DEF RunMember, Check, files
  <2>2. CASE rs[OutOf(pos)] = NoRust
    BY <1>6, <1>11, <2>1, <2>2, ReturnResults DEF Check, Statuses
  <2>3. CASE rs[OutOf(pos)] # NoRust
    BY <1>6, <1>11, <2>1, <2>3, ReturnResults DEF Check, Statuses
  <2> QED BY <2>2, <2>3
<1> QED
  BY <1>1, <1>2, <1>3, <1>4, <1>5, <1>7, <1>8, <1>9, <1>10, <1>11 DEF Next, RunMember, Rest

LEMMA Results == Spec => []ResultInv
BY ResultInit, ResultNext, PTL DEF Spec

\* Exit status 0 means that the whole selection was taken up and passed, for every
\* queue, whatever is skipped, fails, is stopped or interrupted (main's last lines).
THEOREM ZeroMeansAll == Spec => []ExitZeroMeansAll
<1>1. ResultInv => ExitZeroMeansAll
  BY DEF ResultInv
<1> QED BY <1>1, Results, PTL

\* After the first failure under --stop-on-fail no member is taken up and no file
\* touched, over any clusters (the break, the else and the continue of main's loops).
THEOREM StopsAll == Spec => StopsTheBatch
<1>1. ResultInv /\ [Next]_vars =>
        [phase = "run" /\ stop /\ HasFailed => UNCHANGED <<results, files>>]_vars
  <2> SUFFICES ASSUME ResultInv, [Next]_vars, phase = "run", stop, HasFailed
               PROVE  UNCHANGED <<results, files>>
    OBVIOUS
  <2>1. step = "loop" /\ pos[1] > Len(Clusters) /\ Len(Clusters) \in Nat /\ pos[1] \in Nat
    BY QueueAssumption DEF ResultInv, Stopped, TypeInv, TypeOK
  <2>2. ~(Invoke \/ NextCluster \/ RunMember \/ Rest)
    BY <2>1 DEF Invoke, NextCluster, AtCluster, RunMember, DryRun, Skip, Begin, AtMember,
       Diff, Bind, Emit, Check, At, Rest
  <2>3. CASE UNCHANGED vars
    BY <2>3 DEF vars, loop
  <2> QED BY <2>2, <2>3 DEF Next, Summarise, Interrupt
<1> QED BY <1>1, Results, PTL DEF Spec, StopsTheBatch
-----------------------------------------------------------------------------
(* What a PASS says of the file system.  Between emit and the check on its   *)
(* file, the file behind an earlier PASS may belong to the member at hand,   *)
(* which is in the results only after the check.                             *)

Claims(i) == results[i].status = "PASS" /\ results[i].member \notin Silent
Backed(i) ==
  \E k \in i..Len(results) :
    /\ OutOf(results[k].member) = OutOf(results[i].member)
    /\ LeftBy(k, rs[OutOf(results[i].member)].own)
InFlight(i) ==
  /\ step = "check" /\ OutOf(pos) = OutOf(results[i].member)
  /\ rs[OutOf(pos)].own = Mine

Kept == phase = "run" => \A i \in 1..Len(results) : Claims(i) => Backed(i) \/ InFlight(i)
Emits == phase = "run" /\ step = "check" /\ pos \notin Silent => rs[OutOf(pos)].own = Mine
PassInv == TypeInv /\ Kept /\ Emits /\ PassIsFresh

LEMMA BackedStays ==
  ASSUME run' = run, results' = results, NEW i \in 1..Len(results), Backed(i),
         rs'[OutOf(results[i].member)] = rs[OutOf(results[i].member)]
  PROVE  Backed(i)'
BY DEF Backed, LeftBy, OutOf, Fn

\* A witness for i among the results is one after another result was appended.
LEMMA BackedAppend ==
  ASSUME TypeInv, NEW status, results' = Append(results, [member |-> pos, status |-> status, last |-> step]),
         run' = run, NEW i \in 1..Len(results), Backed(i),
         rs'[OutOf(results[i].member)] = rs[OutOf(results[i].member)]
  PROVE  Backed(i)'
<1>1. /\ Len(results) \in Nat /\ Len(results') = Len(results) + 1
      /\ \A k \in 1..Len(results) : results'[k] = results[k]
  BY Appended
<1>2. PICK k \in i..Len(results) :
        /\ OutOf(results[k].member) = OutOf(results[i].member)
        /\ LeftBy(k, rs[OutOf(results[i].member)].own)
  BY DEF Backed
<1>3. k \in i..Len(results') /\ results'[k] = results[k] /\ results'[i] = results[i]
  BY <1>1
<1> QED BY <1>2, <1>3 DEF Backed, LeftBy, OutOf, Fn

\* The member that is appended backs an earlier one whose output it shares, when
\* the file is its own, and when its emit failed and left the file torn.
LEMMA BackedByLast ==
  ASSUME TypeInv, NEW status, results' = Append(results, [member |-> pos, status |-> status, last |-> step]),
         run' = run, NEW i \in 1..Len(results),
         OutOf(results[i].member) = OutOf(pos),
         \/ rs'[OutOf(pos)].own = Mine
         \/ status = "FAIL" /\ step = "emit" /\ rs'[OutOf(pos)].own = Torn
  PROVE  Backed(i)'
<1>1. /\ Len(results) \in Nat /\ Len(results') = Len(results) + 1
      /\ results'[i] = results[i]
      /\ results'[Len(results) + 1] = [member |-> pos, status |-> status, last |-> step]
  BY Appended
<1>2. Len(results) + 1 \in i..Len(results')
  BY <1>1
<1>3. /\ results'[Len(results) + 1].member = pos
      /\ results'[Len(results) + 1].status = status
      /\ results'[Len(results) + 1].last = step
  BY <1>1
<1> QED BY <1>1, <1>2, <1>3 DEF Backed, LeftBy, OutOf, Fn, Mine, Torn

\* Returns with a status other than PASS from a step before the check, which left
\* the emitted files as they were but for what a failed emit did to its own.
LEMMA PassKept ==
  ASSUME PassInv, phase = "run", step # "check", NEW status, status # "PASS", Return(status),
         \/ \A o \in Outs : rs'[o] = rs[o]
         \/ /\ status = "FAIL" /\ step = "emit" /\ rs'[OutOf(pos)].own = Torn
            /\ \A o \in Outs : o # OutOf(pos) => rs'[o] = rs[o]
  PROVE  Kept' /\ Emits' /\ PassIsFresh'
<1>0. /\ TypeInv /\ phase' = "run" /\ step' = "loop" /\ run' = run
      /\ results' = Append(results, [member |-> pos, status |-> status, last |-> step])
  BY DEF PassInv, Return, opts
<1>1. /\ Len(results) \in Nat /\ Len(results') = Len(results) + 1
      /\ \A k \in 1..Len(results) : results'[k] = results[k]
      /\ results'[Len(results) + 1] = [member |-> pos, status |-> status, last |-> step]
  BY <1>0, Appended
<1>2. ASSUME NEW i \in 1..Len(results'), Claims(i)' PROVE Backed(i)'
  <2>1. i # Len(results) + 1
    BY <1>1, <1>2 DEF Claims
  <2>2. i \in 1..Len(results) /\ results'[i] = results[i]
    BY <1>1, <2>1
  <2>3. Claims(i)
    BY <1>2, <2>2 DEF Claims
  <2>4. Backed(i)
    BY <2>2, <2>3 DEF PassInv, Kept, InFlight
  <2>5. OutOf(results[i].member) \in Outs
    BY <1>0, <2>2, ResultTyped, MemberPaths
  <2>6. CASE rs'[OutOf(results[i].member)] = rs[OutOf(results[i].member)]
    BY <1>0, <2>2, <2>4, <2>6, BackedAppend
  <2>7. CASE /\ status = "FAIL" /\ step = "emit" /\ rs'[OutOf(pos)].own = Torn
             /\ OutOf(results[i].member) = OutOf(pos)
    BY <1>0, <2>2, <2>7, BackedByLast
  <2> QED BY <2>5, <2>6, <2>7
<1> QED BY <1>0, <1>2 DEF Kept, Emits, PassIsFresh

\* Steps that record nothing and leave the emitted files alone.
LEMMA PassSame ==
  ASSUME PassInv, UNCHANGED <<run, results, rs>>, phase = "run", phase' = "run",
         step # "check", step' # "check"
  PROVE  Kept' /\ Emits' /\ PassIsFresh'
<1>1. ASSUME NEW i \in 1..Len(results'), Claims(i)' PROVE Backed(i)'
  <2>1. i \in 1..Len(results) /\ Claims(i)
    BY <1>1 DEF Claims
  <2>2. Backed(i)
    BY <2>1 DEF PassInv, Kept, InFlight
  <2> QED BY <2>1, <2>2, BackedStays
<1> QED BY <1>1 DEF Kept, Emits, PassIsFresh

LEMMA PassGone ==
  ASSUME phase' \notin {"run", "exit"} PROVE Kept' /\ Emits' /\ PassIsFresh'
BY DEF Kept, Emits, PassIsFresh

LEMMA PassInit == Init => PassInv
<1> SUFFICES ASSUME Init PROVE PassInv
  OBVIOUS
<1>1. phase = "idle"
  BY DEF Init
<1> QED BY <1>1, TypeInit DEF PassInv, Kept, Emits, PassIsFresh

\* emit: the file it may change is the member's own.
LEMMA PassEmit ==
  ASSUME PassInv, Emit
  PROVE  Kept' /\ Emits' /\ PassIsFresh'
<1>0. /\ TypeInv /\ phase = "run" /\ step = "emit" /\ pos \in Member /\ OutOf(pos) \in Outs
  BY MemberPaths DEF PassInv, Emit, At, TypeInv, TypeOK
<1>1. \/ /\ rs' = [rs EXCEPT ![OutOf(pos)] = Emitted(WorkOf(pos))] /\ GoOn("check")
      \/ pos \in Silent /\ UNCHANGED rs /\ GoOn("check")
      \/ /\ rs' \in {rs, [rs EXCEPT ![OutOf(pos)] = TornRust]}
         /\ Return("FAIL") \/ Die
  BY DEF Emit
<1>2. \A o \in Outs : o # OutOf(pos) => rs'[o] = rs[o]
  BY <1>0, <1>1 DEF TypeInv, TypeOK
<1>3. CASE Return("FAIL")
  <2>1. rs' \in {rs, [rs EXCEPT ![OutOf(pos)] = TornRust]}
    BY <1>0, <1>1, <1>3 DEF GoOn, Return
  <2>2. CASE rs' = rs
    BY <1>0, <1>3, <2>2, PassKept
  <2>3. CASE rs' = [rs EXCEPT ![OutOf(pos)] = TornRust]
    <3>1. rs'[OutOf(pos)] = TornRust
      BY <1>0, <2>3 DEF TypeInv, TypeOK
    <3>2. rs'[OutOf(pos)].own = Torn
      BY <3>1 DEF TornRust
    <3> QED BY <1>0, <1>2, <1>3, <3>2, PassKept
  <2> QED BY <2>1, <2>2, <2>3
<1>4. CASE Die
  BY <1>4, PassGone DEF Die
<1>5. CASE GoOn("check")
  <2>1. /\ phase' = "run" /\ step' = "check"
        /\ UNCHANGED <<run, pos, results>>
    BY <1>0, <1>5 DEF GoOn, opts
  <2>2. \/ rs'[OutOf(pos)].own = Mine
        \/ pos \in Silent /\ rs' = rs
    <3>1. CASE rs' = [rs EXCEPT ![OutOf(pos)] = Emitted(WorkOf(pos))]
      <4>1. rs'[OutOf(pos)] = Emitted(WorkOf(pos))
        BY <1>0, <3>1 DEF TypeInv, TypeOK
      <4> QED BY <4>1 DEF Emitted
    <3>2. ~(Return("FAIL") \/ Die)
      BY <1>0, <1>5 DEF GoOn, Return, Die
    <3> QED BY <1>1, <3>1, <3>2
  <2>3. Emits'
    BY <2>1, <2>2 DEF Emits, Mine, OutOf, Fn
  <2>4. ASSUME NEW i \in 1..Len(results), Claims(i) PROVE Backed(i)' \/ InFlight(i)'
    <3>1. Backed(i)
      BY <1>0, <2>4 DEF PassInv, Kept, InFlight
    <3>2. OutOf(results[i].member) \in Outs
      BY <1>0, <2>4, ResultTyped, MemberPaths
    <3>3. CASE OutOf(results[i].member) = OutOf(pos) /\ rs'[OutOf(pos)].own = Mine
      BY <2>1, <3>3 DEF InFlight, Mine, OutOf, Fn
    <3>4. CASE rs'[OutOf(results[i].member)] = rs[OutOf(results[i].member)]
      BY <2>1, <2>4, <3>1, <3>4, BackedStays
    <3> QED BY <1>2, <2>2, <3>2, <3>3, <3>4
  <2>5. Kept'
    BY <2>1, <2>4 DEF Kept, Claims
  <2> QED BY <2>1, <2>3, <2>5 DEF PassIsFresh
<1> QED BY <1>1, <1>3, <1>4, <1>5

\* The check records the member that is in flight, and touches no file.
LEMMA PassCheck ==
  ASSUME PassInv, Check
  PROVE  Kept' /\ Emits' /\ PassIsFresh'
<1>0. /\ TypeInv /\ phase = "run" /\ step = "check" /\ pos \in Member
      /\ UNCHANGED rs
  BY DEF PassInv, Check, At, files, TypeInv, TypeOK
<1>1. PICK status \in {"PASS", "FAIL"} : Return(status)
  BY DEF Check
<1>2. /\ phase' = "run" /\ step' = "loop" /\ run' = run
      /\ results' = Append(results, [member |-> pos, status |-> status, last |-> step])
  BY <1>0, <1>1 DEF Return, opts
<1>3. /\ Len(results) \in Nat /\ Len(results') = Len(results) + 1
      /\ \A k \in 1..Len(results) : results'[k] = results[k]
      /\ results'[Len(results) + 1] = [member |-> pos, status |-> status, last |-> step]
  BY <1>0, <1>2, Appended
<1>4. ASSUME NEW i \in 1..Len(results'), Claims(i)' PROVE Backed(i)'
  <2>1. CASE i = Len(results) + 1
    <3>1. results'[i].member = pos
      BY <1>3, <2>1
    <3>2. rs'[OutOf(pos)].own = Mine
      BY <1>0, <1>4, <3>1 DEF Claims, PassInv, Emits
    <3>3. i \in i..Len(results')
      BY <1>3, <2>1
    <3> QED BY <1>2, <3>1, <3>2, <3>3 DEF Backed, LeftBy, Mine, OutOf, Fn
  <2>2. CASE i \in 1..Len(results)
    <3>1. Claims(i)
      BY <1>3, <1>4, <2>2 DEF Claims
    <3>2. CASE Backed(i)
      BY <1>0, <1>2, <2>2, <3>2, BackedAppend
    <3>3. CASE InFlight(i)
      <4>1. OutOf(results[i].member) = OutOf(pos) /\ rs'[OutOf(pos)].own = Mine
        BY <1>0, <3>3 DEF InFlight
      <4> QED BY <1>0, <1>2, <2>2, <4>1, BackedByLast
    <3> QED BY <1>0, <2>2, <3>1, <3>2, <3>3 DEF PassInv, Kept
  <2> QED BY <1>3, <2>1, <2>2
<1> QED BY <1>2, <1>4 DEF Kept, Emits, PassIsFresh

LEMMA PassNext == PassInv /\ [Next]_vars => PassInv'
<1> SUFFICES ASSUME PassInv, [Next]_vars PROVE Kept' /\ Emits' /\ PassIsFresh'
  BY TypeNext DEF PassInv
<1>0. TypeInv
  BY DEF PassInv
<1>1. CASE UNCHANGED vars
  <2>1. UNCHANGED <<run, phase, pos, step, results, rs>>
    BY <1>1 DEF vars, opts, loop, files
  <2>2. ASSUME NEW i \in 1..Len(results')
        PROVE  /\ Claims(i)' <=> Claims(i)
               /\ Backed(i) => Backed(i)'
               /\ InFlight(i) => InFlight(i)'
    BY <2>1, <2>2, BackedStays DEF Claims, InFlight, Mine, OutOf, Fn
  <2>3. Kept' /\ Emits'
    BY <2>1, <2>2 DEF PassInv, Kept, Emits, Mine, OutOf, Fn
  <2>4. phase = "exit" => \A i \in 1..Len(results') : Claims(i)' => Backed(i)'
    BY <2>1, <2>2 DEF PassInv, PassIsFresh, Claims, Backed
  <2>5. PassIsFresh'
    BY <2>1, <2>4 DEF PassIsFresh, Claims, Backed
  <2> QED BY <2>3, <2>5
<1>2. CASE Invoke
  <2>1. Len(results') = 0 /\ step' = "loop"
    BY <1>2 DEF Invoke
  <2> QED BY <2>1 DEF Kept, Emits, PassIsFresh
<1>3. CASE NextCluster \/ Begin
  <2>1. /\ UNCHANGED <<run, results, rs>> /\ phase = "run" /\ phase' = "run"
        /\ step # "check" /\ step' # "check"
    BY <1>3 DEF NextCluster, Begin, AtMember, AtCluster, opts, files
  <2> QED BY <2>1, PassSame
<1>4. CASE Summarise
  <2>1. /\ UNCHANGED <<run, results, rs>> /\ phase = "run" /\ phase' = "exit" /\ step = "loop"
    BY <1>4 DEF Summarise, At, opts, files
  <2>2. \A i \in 1..Len(results) : Claims(i) => Backed(i)
    BY <2>1 DEF PassInv, Kept, InFlight
  <2>3. PassIsFresh'
    BY <2>1, <2>2 DEF PassIsFresh, Claims, Backed, LeftBy, OutOf, Fn
  <2> QED BY <2>1, <2>3 DEF Kept, Emits
<1>5. CASE Interrupt
  BY <1>5, PassGone DEF Interrupt
<1>6. CASE DryRun \/ Skip
  <2>1. UNCHANGED rs /\ phase = "run" /\ step # "check"
    BY <1>6 DEF DryRun, Skip, AtMember, AtCluster, files
  <2>2. Return("DRY") \/ Return("SKIP")
    BY <1>6 DEF DryRun, Skip
  <2> QED BY <2>1, <2>2, PassKept
<1>7. CASE Diff \/ Bind
  <2>1. UNCHANGED rs /\ phase = "run" /\ step # "check"
    BY <1>7 DEF Diff, Bind, At
  <2>2. \/ Return("FAIL") \/ Die \/ GoOn("bind") \/ GoOn("emit")
    BY <1>7 DEF Diff, Bind
  <2>3. CASE Return("FAIL")
    BY <2>1, <2>3, PassKept
  <2>4. CASE Die
    BY <2>4, PassGone DEF Die
  <2>5. CASE GoOn("bind") \/ GoOn("emit")
    BY <2>1, <2>5, PassSame DEF GoOn, opts
  <2> QED BY <2>2, <2>3, <2>4, <2>5
<1>8. CASE Emit
  BY <1>8, PassEmit
<1>9. CASE Check
  BY <1>9, PassCheck
<1> QED
  BY <1>1, <1>2, <1>3, <1>4, <1>5, <1>6, <1>7, <1>8, <1>9 DEF Next, RunMember, Rest

\* What an ended invocation left where a member passed is its own: the file the
\* member's emit completed, or that of a later member sharing the path, or the
\* torn file of such a member whose own emit failed.  For every queue, and every
\* member whose engine writes when it exits 0 (run_member's emit and its check, and
\* the loops of main that call it).
THEOREM FreshPass == Spec => []PassIsFresh
<1>1. PassInv => PassIsFresh
  BY DEF PassInv
<1> QED BY <1>1, PassInit, PassNext, PTL DEF Spec
=============================================================================
