---------------------------- MODULE DumpContract ----------------------------
(***************************************************************************)
(* What a dump of a compilation database promises to the rules that read   *)
(* its manifest: every selected entry gets one verdict that never changes, *)
(* and the manifest appears at once, after the last verdict, naming each   *)
(* entry under the verdict it got.  When one worker raised, there is no    *)
(* manifest at all.                                                        *)
(***************************************************************************)
CONSTANT Selected            \* the entries the filters let through

VARIABLES
  verdict,    \* verdict[e]: "open" until entry e is done
  outcome,    \* how the run ended, or "running"
  manifest    \* the published verdicts, or the empty manifest

vars == <<verdict, outcome, manifest>>

Verdicts == {"ok", "err", "raised"}

With(v) == {e \in Selected : verdict[e] = v}

NoManifest == [ok |-> {}, failed |-> {}]

Init ==
  /\ verdict = [e \in Selected |-> "open"]
  /\ outcome = "running"
  /\ manifest = NoManifest

\* One entry is decided, or (a broken pool) several at once are.
Decide ==
  /\ outcome = "running"
  /\ \E S \in SUBSET With("open") : \E v \in Verdicts :
       verdict' = [e \in Selected |-> IF e \in S THEN v ELSE verdict[e]]
  /\ UNCHANGED <<outcome, manifest>>

Publish ==
  /\ outcome = "running"
  /\ With("open") = {} /\ With("raised") = {}
  /\ manifest' = [ok |-> With("ok"), failed |-> With("err")]
  /\ outcome' = "published"
  /\ UNCHANGED verdict

Abort ==
  /\ outcome = "running"
  /\ With("open") = {} /\ With("raised") # {}
  /\ outcome' = "aborted"
  /\ UNCHANGED <<verdict, manifest>>

Reject ==
  /\ outcome = "running"
  /\ With("open") = Selected
  /\ outcome' = "rejected"
  /\ UNCHANGED <<verdict, manifest>>

Next == Decide \/ Publish \/ Abort \/ Reject

Spec == Init /\ [][Next]_vars
=============================================================================
