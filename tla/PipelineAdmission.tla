------------------------- MODULE PipelineAdmission -------------------------
(* Admission of one pipeline run (handlePipelineRun) and ad-hoc attachment of  *)
(* a finished stage of another run to it (handlePipelineAttach).  A client      *)
(* composes an attach request from the revisions it read and may deliver it     *)
(* late or twice, while the scheduler moves the run on.  The schedule and the    *)
(* admission snapshot are separate transactions.                            *)
EXTENDS Integers, FiniteSetsExt, SequencesExt

CONSTANTS Templates,    \* base graphs: [stages, edges, reads, writes, limit, stageLimit, overridable]
          Targets,      \* references of the canonical run state that stages read and write
          Attachable,   \* ids of stages that requests attach
          AttachIds,    \* attachment ids
          MaxGraphRevisions, MaxOverrides
VARIABLES
  base,       \* the named definition
  schedule,   \* pipeline_schedule, its current graph and stage projections
  canonical,  \* revision of pipeline_canonical_run_state, 0 when missing
  snapshot,   \* pipeline_run_snapshot: the effective limit, or 0
  source,     \* the source stage: its state and whether it has the artifact
  sent,       \* attach requests clients hold
  ledger,     \* pipeline_attachment_ledger: committed requests
  answer,     \* the last answer: [request, result]
  started     \* stage -> graph revision its first attempt ran under (history)

vars == <<base, schedule, canonical, snapshot, source, sent, ledger, answer, started>>

Scheduled == schedule.graphRevision > 0
StageIds == IF Scheduled THEN DOMAIN schedule.state ELSE {}
NoAnswer == [result |-> "none"]
Unscheduled == [graphRevision |-> 0, revision |-> 0, terminal |-> FALSE]

Init ==
  /\ base \in Templates
  /\ schedule = Unscheduled /\ canonical = 0 /\ snapshot = 0
  /\ source \in [state : {"running"}, artifact : BOOLEAN]
  /\ sent = {} /\ ledger = {} /\ answer = NoAnswer /\ started = [s \in {} |-> 0]

-----------------------------------------------------------------------------
(* admitPipeline *)

(* Overrides of a stage's profile need an allowlist that the daemon never      *)
(* passes.                                                                  *)
OverrideFields == {"max_repair_attempts", "mode", "model", "unknown"}
Overrides == [field : OverrideFields, target : {"pipeline", "stage"}, value : 0..2]

(* the checks of applyOverrides on one override *)
Permitted(o) ==
  \/ o.field = "max_repair_attempts" /\ o.target = "pipeline" /\ o.value >= 1
  \/ o.field = "mode" /\ o.target = "stage" /\ "mode" \in base.overridable

(* coerceLimit and strictestLimit *)
StrictestLimit(existing, next) == Min({existing, next})

(* applyOverrides in order; one error rejects them all.  The effective graph   *)
(* is not validated again.                                                   *)
EffectiveLimit(overrides) ==
  FoldLeft(LAMBDA limit, o : IF o.field = "max_repair_attempts"
                             THEN StrictestLimit(limit, o.value) ELSE limit,
           base.limit, overrides)

(* computeAncestors *)
Ancestors(graph, s) ==
  LET direct(S) == {e[1] : e \in {f \in graph.edges : f[2] \in S}}
      up[k \in 0..Cardinality(graph.stages)] ==
        IF k = 0 THEN direct({s}) ELSE up[k - 1] \cup direct(up[k - 1])
  IN  up[Cardinality(graph.stages)]

(* validateAcyclic; every stage of an acyclic graph is reached from an entry *)
Acyclic(graph) == \A s \in graph.stages : s \notin Ancestors(graph, s)

(* validateReadsAreProduced: by some stage the reader depends on *)
ReadsAreProduced(graph) ==
  \A r \in graph.reads : \E w \in graph.writes : w[2] = r[2] /\ w[1] \in Ancestors(graph, r[1])

(* validateWriteConflicts: two writers of one target run one after the other *)
WritesAreOrdered(graph) ==
  \A v, w \in graph.writes :
    v[1] # w[1] /\ v[2] = w[2] => v[1] \in Ancestors(graph, w[1]) \/ w[1] \in Ancestors(graph, v[1])

(* validatePipelineGraph: stage ids, limits, edge endpoints, and only when those   *)
(* resolve the shape of the graph and its state flow.  The rules on a single     *)
(* stage's fields hold of every definition here.                              *)
Valid(graph) ==
  /\ ~graph.duplicate
  /\ graph.stageLimit <= graph.limit
  /\ \A e \in graph.edges : e[1] # e[2] /\ {e[1], e[2]} \subseteq graph.stages
  /\ Acyclic(graph) /\ ReadsAreProduced(graph) /\ WritesAreOrdered(graph)

BaseGraph == [stages |-> base.stages, edges |-> base.edges, reads |-> base.reads,
              writes |-> base.writes, limit |-> base.limit, stageLimit |-> base.stageLimit,
              duplicate |-> FALSE]

-----------------------------------------------------------------------------
(* handlePipelineRun: createPipelineSchedule, which refuses a run that is      *)
(* there, then buildRunSnapshot and writePipelineRunSnapshot, unless the daemon  *)
(* dies between the two; a retry then throws and the snapshot stays missing.    *)
AdmitRun ==
  /\ ~Scheduled /\ Valid(BaseGraph)
  /\ \E overrides \in SeqOf(Overrides, MaxOverrides) :
       /\ \A i \in DOMAIN overrides : Permitted(overrides[i])
       /\ schedule' = [graphRevision |-> 1, revision |-> 1, terminal |-> FALSE,
                       graph |-> [BaseGraph EXCEPT !.limit = EffectiveLimit(overrides)],
                       state |-> [s \in base.stages |-> "pending"]]
       /\ snapshot' \in {0, EffectiveLimit(overrides)}
  /\ UNCHANGED <<base, canonical, source, sent, ledger, answer, started>>

RejectRun ==
  /\ ~Scheduled
  /\ ~Valid(BaseGraph) \/ \E o \in Overrides : ~Permitted(o)
  /\ answer' = [result |-> "rejected"]
  /\ UNCHANGED <<base, schedule, canonical, snapshot, source, sent, ledger, started>>

-----------------------------------------------------------------------------
(* The scheduler, as far as attachment can tell (PipelineScheduler) *)
Bump(state) == [schedule EXCEPT !.revision = @ + 1, !.state = state]

Dispatch(s) ==
  /\ Scheduled /\ ~schedule.terminal /\ schedule.state[s] = "pending"
  /\ \A e \in schedule.graph.edges : e[2] = s => schedule.state[e[1]] = "succeeded"
  /\ schedule' = Bump([schedule.state EXCEPT ![s] = "running"])
  /\ started' = [t \in DOMAIN started \cup {s} |->
                   IF t = s THEN schedule.graphRevision ELSE started[t]]
  /\ UNCHANGED <<base, canonical, snapshot, source, sent, ledger, answer>>

Finish(s) ==
  /\ Scheduled /\ schedule.state[s] = "running"
  /\ schedule' = [Bump([schedule.state EXCEPT ![s] = "succeeded"]) EXCEPT
                    !.terminal = \A t \in DOMAIN schedule.state :
                                   t = s \/ schedule.state[t] = "succeeded"]
  /\ canonical' = canonical + 1
  /\ UNCHANGED <<base, snapshot, source, sent, ledger, answer, started>>

FinishSource ==
  /\ source.state = "running" /\ source' = [source EXCEPT !.state = "succeeded"]
  /\ UNCHANGED <<base, schedule, canonical, snapshot, sent, ledger, answer, started>>

-----------------------------------------------------------------------------
(* Attachment; the stage's completion requires an artifact of its source *)

Compose(id) ==
  /\ Scheduled /\ (id - 1) \in {r.id : r \in sent} \cup {0} /\ id \notin {r.id : r \in sent}
  /\ \E stage \in Attachable, dependants \in SUBSET base.stages,
        writes \in SUBSET Targets :
       sent' = sent \cup {[id |-> id, stage |-> stage, dependants |-> dependants,
                           writes |-> writes, graphRevision |-> schedule.graphRevision,
                           revision |-> schedule.revision, canonical |-> canonical]}
  /\ UNCHANGED <<base, schedule, canonical, snapshot, source, ledger, answer, started>>

(* augmentGraph *)
Augmented(r) ==
  [schedule.graph EXCEPT
     !.stages = @ \cup {r.stage},
     !.edges = @ \cup {<<r.stage, d>> : d \in r.dependants},
     !.writes = @ \cup {<<r.stage, t>> : t \in r.writes},
     !.duplicate = r.stage \in schedule.graph.stages]

Active == {"queued", "running", "waiting", "retrying"}

(* Mutant of DependantInvalid: a dependant may have run already. *)
DependantUnknown(r) == \E d \in r.dependants : d \notin DOMAIN schedule.state

DependantInvalid(r) ==
  \E d \in r.dependants : d \notin DOMAIN schedule.state \/ schedule.state[d] # "pending"

(* attachAdHocStage, the checks in order *)
LedgerResult(r) ==
  LET checks == <<
        <<r \in ledger, "idempotent-replay">>,
        <<r.id \in {q.id : q \in ledger}, "attachment-id-conflict">>,
        <<r.stage \in {q.stage : q \in ledger}, "source-target-conflict">>,
        <<schedule.terminal, "target-terminal">>,
        <<r.graphRevision # schedule.graphRevision \/ r.revision # schedule.revision,
          "stale-schedule">>,
        <<canonical = 0, "canonical-missing">>,
        <<r.canonical # canonical, "stale-run-revision">>,
        <<\E s \in DOMAIN schedule.state : schedule.state[s] \in Active, "not-quiescent">>,
        <<DependantInvalid(r), "dependant-invalid">>,
        <<r.stage \in DOMAIN schedule.state, "stage-exists">>,
        <<schedule.graphRevision + 1 > MaxGraphRevisions, "graph-revision-limit">>,
        <<TRUE, "committed">> >>
  IN  checks[Min({i \in DOMAIN checks : checks[i][1]})][2]

(* handlePipelineAttach: its own checks come before the ledger is asked *)
AttachResult(r) ==
  LET checks == <<
        <<source.state # "succeeded", "source-stage-not-succeeded">>,
        <<~source.artifact, "completion-artifacts-missing">>,
        <<~Valid(Augmented(r)), "augmented-graph-invalid">>,
        <<TRUE, LedgerResult(r)>> >>
  IN  checks[Min({i \in DOMAIN checks : checks[i][1]})][2]

Attach(r) ==
  LET result == AttachResult(r) IN
  /\ answer' = [request |-> r, result |-> result]
  /\ IF result # "committed" THEN UNCHANGED <<schedule, canonical, ledger>>
     ELSE /\ schedule' =
               [schedule EXCEPT
                  !.graphRevision = @ + 1, !.revision = @ + 1, !.graph = Augmented(r),
                  !.state = [s \in DOMAIN @ \cup {r.stage} |->
                               IF s = r.stage THEN "succeeded" ELSE schedule.state[s]]]
          /\ canonical' = canonical + 1
          /\ ledger' = ledger \cup {r}
  /\ UNCHANGED <<base, snapshot, source, sent, started>>

Next ==
  \/ AdmitRun \/ RejectRun \/ FinishSource
  \/ \E s \in StageIds : Dispatch(s)
  \/ \E s \in StageIds : Finish(s)
  \/ \E id \in AttachIds : Compose(id)
  \/ \E r \in sent : Attach(r)

Spec == Init /\ [][Next]_vars

-----------------------------------------------------------------------------
(* An attached stage never becomes the predecessor of work that had begun: a    *)
(* stage that depends on it was first dispatched under a graph that held it.    *)
(* The request was composed against revisions that the scheduler may have       *)
(* passed since.                                                            *)
AttachedBeforeDependants ==
  \A r \in ledger : \A d \in r.dependants :
    d \in DOMAIN started => started[d] > r.graphRevision

=============================================================================
