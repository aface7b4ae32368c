----------------------------- MODULE MCPlatform -----------------------------
(* Services that share no state with each other, on small instances: segment  *)
(* fusion, continuation capsules, admission, the findings of a run and the      *)
(* native bridge.  Each is explored with the others as they start.             *)
EXTENDS Integers, FiniteSets, TLC

CONSTANTS
  Graphs, MaxCrashes,
  Repositories, Files, Artifacts, MaxReferences, MaxMoves,
  Templates, Targets, Attachable, AttachIds, MaxGraphRevisions, MaxOverrides,
  Findings, MaxReports,
  Runs, Sessions, Verdicts, MaxAttempts, MaxQuestions

ASSUME BridgeAssumption ==
  IsFiniteSet(Runs) /\ MaxAttempts \in Nat /\ MaxQuestions \in Nat

VARIABLES
  part,
  graph, segments, decisions, metrics, planned, launched, drive, crashes,
  world, moves, witness, capsule, verdict, handoffs,
  base, schedule, canonical, snapshot, source, sent, ledger, answer, started,
  reports, projection, presented,
  tables, serving, held, pending, outages

fusionVars == <<graph, segments, decisions, metrics, planned, launched, drive, crashes>>
capsuleVars == <<world, moves, witness, capsule, verdict, handoffs>>
admissionVars == <<base, schedule, canonical, snapshot, source, sent, ledger, answer, started>>
findingVars == <<reports, projection, presented>>
bridgeVars == <<tables, serving, held, pending, outages>>

F == INSTANCE SegmentFusion
C == INSTANCE ContinuationCapsules
P == INSTANCE PipelineAdmission
R == INSTANCE ReviewFindings
N == INSTANCE NativeBridge

-----------------------------------------------------------------------------
\* Three stages in a row, in parallel, as a fork and as a join; every mix of two
\* profiles, a fresh session and a stage that is no agent.
Views ==
  {[type |-> "agent", profile |-> "p", policy |-> "resume"],
   [type |-> "agent", profile |-> "q", policy |-> "resume"],
   [type |-> "agent", profile |-> "p", policy |-> "fresh"],
   [type |-> "command", profile |-> "p", policy |-> "resume"]}
Shapes == {<<{}, {1}, {2}>>, <<{}, {1}, {1}>>, <<{}, {}, {1}>>, <<{}, {}, {1, 2}>>}
MCGraphs ==
  {[s \in 1..3 |-> [type |-> view[s].type, profile |-> view[s].profile,
                    policy |-> view[s].policy, preds |-> shape[s]]] :
     view \in [1..3 -> Views], shape \in Shapes}

\* An ordered pair of writers under both stage limits, a single writer, two writers
\* that may run side by side and a cycle; the last two are refused.
Template(edges, reads, writes, limit) ==
  [stages |-> {"a", "b"}, edges |-> edges, reads |-> reads, writes |-> writes, limit |-> 1,
   stageLimit |-> limit, overridable |-> {"mode"}]
MCTemplates ==
  {Template({<<"a", "b">>}, {<<"b", "t">>}, {<<"a", "t">>, <<"b", "t">>}, l) : l \in 1..2}
  \cup {Template({}, {}, {<<"a", "t">>}, 1),
        Template({}, {}, {<<"a", "t">>, <<"b", "t">>}, 1),
        Template({<<"a", "b">>, <<"b", "a">>}, {}, {}, 1)}

\* Parent sessions are interchangeable.
MCSymmetry == Permutations(Sessions)

Parts == {"fusion", "capsules", "admission", "findings", "bridge"}

\* Which graph or template the services at rest were given does not matter.
AtRest(p) ==
  CASE p = "fusion" -> graph = CHOOSE g \in Graphs : TRUE
    [] p = "admission" -> base = (CHOOSE t \in Templates : TRUE) /\ source.artifact
    [] p \in {"capsules", "findings", "bridge"} -> TRUE

Init ==
  /\ part \in Parts
  /\ F!Init /\ C!Init /\ P!Init /\ R!Init /\ N!Init
  /\ \A p \in Parts \ {part} : AtRest(p)

Next ==
  \/ /\ part = "fusion" /\ F!Next
     /\ UNCHANGED <<part, capsuleVars, admissionVars, findingVars, bridgeVars>>
  \/ /\ part = "capsules" /\ C!Next
     /\ UNCHANGED <<part, fusionVars, admissionVars, findingVars, bridgeVars>>
  \/ /\ part = "admission" /\ P!Next
     /\ UNCHANGED <<part, fusionVars, capsuleVars, findingVars, bridgeVars>>
  \/ /\ part = "findings" /\ R!Next
     /\ UNCHANGED <<part, fusionVars, capsuleVars, admissionVars, bridgeVars>>
  \/ /\ part = "bridge" /\ N!Next
     /\ UNCHANGED <<part, fusionVars, capsuleVars, admissionVars, findingVars>>

vars == <<part, fusionVars, capsuleVars, admissionVars, findingVars, bridgeVars>>
Spec == Init /\ [][Next]_vars

-----------------------------------------------------------------------------
\* planFusionDispatch: the session a stage may join is that of the stage before it.
SessionIsLatest == F!SessionIsLatest

\* verifyIncomingContinuation accepts a capsule exactly when the work can go on where
\* the session that wrote it stopped.
ResumesWhereItStopped == C!ResumesWhereItStopped

\* attachAdHocStage: no work that had begun gets an attached stage before it.
AttachedBeforeDependants == P!AttachedBeforeDependants

\* assertReportTransition: a ready final verification leaves no accepted finding open.
ReadyMeansFixed == R!ReadyMeansFixed

\* answerNativeQuestion and the sweeps: a run shown as waiting for its user has a question
\* that is still pending.
WaitingIsAnswerable == N!WaitingIsAnswerable

\* settleNativeDispatch: a parent cannot submit past an answer it was not given.
AnswersPrecedeSubmission == N!AnswersPrecedeSubmission
=============================================================================
