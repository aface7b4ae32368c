------------------------- MODULE PipelineScheduler -------------------------
(***************************************************************************)
(* One pipeline run: the deterministic scheduler tick                      *)
(* (packages/pipeline/src/scheduler, packages/pipeline/src/recovery), the   *)
(* store that makes a tick durable (packages/state/src/pipeline/store.ts)   *)
(* and the runner service that drives the dispatched attempts and reports   *)
(* back by recording observations                                           *)
(* (packages/daemon/src/runtime/pipeline-runner-service.ts).                *)
(*                                                                          *)
(* A tick is synchronous: it loads the schedule, computes a plan on a       *)
(* working copy and applies the plan in one transaction.  It is modelled as *)
(* the steps of runTick in their order; nothing else happens while `phase'  *)
(* is not "idle", and a crash drops the working copy.                       *)
(*                                                                          *)
(* An attempt is <<stage, generation, ordinal>>, which is what its id is    *)
(* derived from.  Messages, digests, timestamps, workspaces and artifacts   *)
(* are left out.                                                            *)
(***************************************************************************)
EXTENDS Naturals, Sequences, FiniteSets, FiniteSetsExt, Relation

CONSTANTS
  NStages,        \* the stages are numbered in the order of their ids
  Edges,          \* pairs <<from, to>>
  Condition,      \* [Edges -> {"none", "expression", "evaluator"}]
  Optional,       \* the optional stages
  Operation,      \* stages whose runner is rebuilt from its operation ledger
  Reads, Writes,  \* [stages -> set of names]
  Budget,         \* repair budget of each stage, strictest limit
  Strategy,       \* validation policy: "fail", "pause", "resume" or "fresh"
  Session,        \* session policy for other failures: "resume" or "fresh"
  Hitl,           \* the run proposes recoveries instead of dispatching them
  MaxConcurrent,  \* effective maxConcurrentWorkers
  Failures,       \* what attempt_failed can report
  MaxCancels, MaxReruns, MaxCrashes, HasDeadline   \* bounds

Stages == 1..NStages
None == <<0, 0>>

FailureType == [class : {"fatal", "validation", "other", "bare", "bare_retryable"},
                signature : Nat, resumable : BOOLEAN]

ASSUME GraphAssumption ==
  /\ NStages \in Nat \ {0}
  /\ Edges \subseteq Stages \X Stages
  /\ Condition \in [Edges -> {"none", "expression", "evaluator"}]
  /\ Optional \subseteq Stages /\ Operation \subseteq Stages

ASSUME PolicyAssumption ==
  /\ Budget \in [Stages -> Nat]
  /\ Strategy \in [Stages -> {"fail", "pause", "resume", "fresh"}]
  /\ Session \in [Stages -> {"resume", "fresh"}]
  /\ Hitl \in BOOLEAN /\ HasDeadline \in BOOLEAN
  /\ MaxConcurrent \in Nat /\ MaxCancels \in Nat /\ MaxReruns \in Nat /\ MaxCrashes \in Nat
  /\ Failures \subseteq FailureType

VARIABLES
  (* pipeline_stage_projection joined with pipeline_stage_recovery_state *)
  stages,
  observations,   \* pending observations, oldest first
  evaluated,      \* evaluator intents and decisions, by edge
  canonical,      \* what the canonical run state says, by expression edge
  dispatch,       \* dispatch intents: [attempts -> "pending" | "delivered"]
  cancels,        \* cancel intents, likewise
  terminal,       \* terminal_outcome
  (* the runner service and its attempt ledger *)
  runner,         \* [claimed attempts -> phase]
  (* one tick: TickContext *)
  phase, working, batch, cancelRequested, retryingAtTickStart, plan,
  (* the environment *)
  overdue, cancelCalls, reruns, crashes

storeVars == <<stages, observations, evaluated, canonical, dispatch, cancels, terminal>>
tickVars == <<working, batch, cancelRequested, retryingAtTickStart, plan>>
envVars == <<overdue, cancelCalls, reruns, crashes>>
vars == <<storeVars, runner, phase, tickVars, envVars>>

InFlightStates == {"queued", "running", "waiting"}
TerminalStates == {"succeeded", "failed", "cancelled", "blocked"}
States == InFlightStates \cup TerminalStates \cup {"pending", "ready", "retrying"}

NewStage == [state |-> "pending", reason |-> "none", generation |-> 1, ordinal |-> 0,
             attempt |-> None, selected |-> TRUE,
             repairsUsed |-> 0, identical |-> 0, signature |-> 0, proposal |-> None]

EmptyPlan == [dispatch |-> {}, cancels |-> {}, asked |-> {}, decided |-> <<>>]

ExpressionEdges == {e \in Edges : Condition[e] = "expression"}
EvaluatorEdges == {e \in Edges : Condition[e] = "evaluator"}

(* The rows of f, and those of g that f does not have. *)
Merge(f, g) == [x \in DOMAIN f \cup DOMAIN g |-> IF x \in DOMAIN f THEN f[x] ELSE g[x]]

Put(f, x, value) == [y \in DOMAIN f \cup {x} |-> IF y = x THEN value ELSE f[y]]

Init ==
  /\ stages = [s \in Stages |-> NewStage]
  /\ observations = <<>>
  /\ evaluated = [e \in EvaluatorEdges |-> "unasked"]
  /\ canonical = [e \in ExpressionEdges |-> "missing"]
  /\ dispatch = <<>> /\ cancels = <<>> /\ terminal = "none"
  /\ runner = <<>>
  /\ phase = "idle" /\ working = stages /\ batch = <<>>
  /\ cancelRequested = FALSE /\ retryingAtTickStart = {} /\ plan = EmptyPlan
  /\ overdue = FALSE /\ cancelCalls = 0 /\ reruns = 0 /\ crashes = 0

-----------------------------------------------------------------------------
(* The tick, first part: observations.                                      *)

(* applyTransition: the new state and reason of a stage. *)
ApplyTransition(st, to, reason) == [st EXCEPT !.state = to, !.reason = reason]

(* `observation.attemptId ?? stage.currentAttemptId': an observation that   *)
(* names an attempt makes it the stage's current one, whichever it was.     *)
Naming(st, o) == IF o.attempt = None THEN st ELSE [st EXCEPT !.attempt = o.attempt]

(* toSchedulerInput and createTickContext: a tick over the observations `os'. *)
Load(os) ==
  /\ phase' = "observe"
  /\ working' = stages
  /\ batch' = os
  /\ cancelRequested' = FALSE
  /\ retryingAtTickStart' = {s \in Stages : stages[s].state = "retrying"}
  /\ plan' = EmptyPlan

Observed(kind) == phase = "observe" /\ batch # <<>> /\ Head(batch).kind = kind

(* The stage of the observation becomes `st'; the observation is consumed. *)
Consume(s, st) ==
  /\ working' = [working EXCEPT ![s] = st]
  /\ batch' = Tail(batch)
  /\ UNCHANGED <<storeVars, runner, phase, envVars,
                 cancelRequested, retryingAtTickStart, plan>>

(* A plain observation: it moves a stage in one of the states `from'. *)
Observe(kind, from, to) ==
  LET o == Head(batch)  s == o.stage IN
  /\ Observed(kind)
  /\ Consume(s, IF working[s].state \in from
                THEN Naming(ApplyTransition(working[s], to, kind), o)
                ELSE working[s])

AttemptStarted == Observe("attempt_started", {"queued", "waiting"}, "running")
AttemptWaiting == Observe("attempt_waiting", {"running"}, "waiting")
AttemptSucceeded == Observe("attempt_succeeded", {"running", "waiting"}, "succeeded")
CancellationSettled == Observe("cancellation_settled", InFlightStates, "cancelled")

(* updateSignatureCounters *)
Counted(st, f) ==
  [st EXCEPT !.identical = IF st.signature = f.signature THEN @ + 1 ELSE 1,
             !.signature = f.signature]

(* planValidationStrategy and planNonValidationStrategy *)
PlannedMode(s, f) == IF f.class = "validation" THEN Strategy[s] ELSE Session[s]

(* Faulty: the ceilings are checked one repair late.                        *)
DecideLate(s, st, f) ==
  IF f.class \in {"fatal", "bare"} THEN "fail"
  ELSE IF st.repairsUsed > Budget[s] \/ st.identical > Budget[s] THEN "exhaust"
  ELSE "propose"

(* decideRecovery, and the retry rule for unclassified failures.  `st' has  *)
(* its signature counters updated.                                          *)
DecideRecovery(s, st, f) ==
  CASE f.class \in {"fatal", "bare"} -> "fail"
    [] f.class = "bare_retryable" -> IF st.ordinal - 1 < Budget[s] THEN "rearm" ELSE "exhaust"
    [] f.class \in {"validation", "other"} ->
         IF st.repairsUsed >= Budget[s] \/ st.identical >= Budget[s] THEN "exhaust"
         ELSE IF PlannedMode(s, f) = "fail" THEN "fail"
         ELSE IF PlannedMode(s, f) = "pause" THEN "block"
         ELSE IF PlannedMode(s, f) = "resume" /\ ~f.resumable THEN "block"
         ELSE IF Hitl THEN "propose" ELSE "retry"

(* applyRecoveryDecision *)
ApplyRecoveryDecision(st, decision) ==
  CASE decision = "fail" -> ApplyTransition(st, "failed", "attempt_failed")
    [] decision = "exhaust" -> ApplyTransition(st, "failed", "retry_exhausted")
    [] decision = "block" -> ApplyTransition(st, "blocked", "condition_blocked")
    [] decision = "propose" ->
         [ApplyTransition(st, "waiting", "attempt_waiting")
            EXCEPT !.proposal = <<st.generation, st.ordinal>>]
    [] decision = "retry" ->
         [ApplyTransition(st, "retrying", "retry_scheduled")
            EXCEPT !.repairsUsed = @ + 1, !.proposal = None]
    [] decision = "rearm" -> ApplyTransition(st, "retrying", "retry_scheduled")

(* processAttemptFailed *)
AttemptFailed ==
  LET o == Head(batch)  s == o.stage
      st == IF o.failure.class \in {"bare", "bare_retryable"}
            THEN working[s] ELSE Counted(working[s], o.failure)
  IN /\ Observed("attempt_failed")
     /\ Consume(s, IF working[s].state \in {"running", "waiting"}
                   THEN Naming(ApplyRecoveryDecision(st, DecideRecovery(s, st, o.failure)), o)
                   ELSE working[s])

(* processRecoveryApproved *)
RecoveryApproved ==
  LET o == Head(batch)  s == o.stage IN
  /\ Observed("recovery_approved")
  /\ Consume(s, IF working[s].state = "waiting" /\ working[s].proposal = o.proposal
                THEN ApplyRecoveryDecision(working[s], "retry")
                ELSE working[s])

(* processRecoveryRejected: it applies too when no proposal is pending any more. *)
RecoveryRejected ==
  LET o == Head(batch)  s == o.stage IN
  /\ Observed("recovery_rejected")
  /\ Consume(s, IF working[s].state = "waiting" /\ working[s].proposal \in {None, o.proposal}
                THEN [ApplyTransition(working[s], "failed", "attempt_failed")
                        EXCEPT !.proposal = None]
                ELSE working[s])

CancelObserved ==
  /\ Observed("cancel_requested")
  /\ cancelRequested' = TRUE
  /\ batch' = Tail(batch)
  /\ UNCHANGED <<storeVars, runner, phase, envVars, working, retryingAtTickStart, plan>>

EvaluatorDecided ==
  LET o == Head(batch) IN
  /\ Observed("evaluator_decided")
  /\ plan' = [plan EXCEPT !.decided = Put(@, o.edge, o.answer)]
  /\ batch' = Tail(batch)
  /\ UNCHANGED <<storeVars, runner, phase, envVars, working, cancelRequested,
                 retryingAtTickStart>>

(* buildDescendants *)
Descendants(s) ==
  LET reaches == TransitiveClosure([x, y \in Stages |-> <<x, y>> \in Edges], Stages)
  IN {t \in Stages : reaches[s, t]}

(* processManualRerun: stages in flight, ready or retrying are skipped. *)
ManualRerun ==
  LET s == Head(batch).stage IN
  /\ Observed("manual_rerun")
  /\ working' = [t \in Stages |->
       IF t \in {s} \cup Descendants(s) /\ working[t].state \in TerminalStates \cup {"pending"}
       THEN [NewStage EXCEPT !.generation = working[t].generation + 1,
                             !.reason = "manual_rerun"]
       ELSE working[t]]
  /\ batch' = Tail(batch)
  /\ UNCHANGED <<storeVars, runner, phase, envVars, cancelRequested,
                 retryingAtTickStart, plan>>

-----------------------------------------------------------------------------
(* The tick, second part: cancel, rearm, release, queue, settle.            *)

Stopping == cancelRequested \/ overdue

(* Faulty: a queued stage counts as inactive.                               *)
CancelQueuedToo(w) ==
  [s \in Stages |->
     IF Stopping /\ w[s].state \in {"pending", "ready", "retrying", "queued"}
     THEN [ApplyTransition(w[s], "cancelled", "pipeline_cancelled") EXCEPT !.attempt = None]
     ELSE w[s]]

(* cancelInactiveStage, for every stage *)
CancelInactive(w) ==
  [s \in Stages |->
     IF Stopping /\ w[s].state \in {"pending", "ready", "retrying"}
     THEN [ApplyTransition(w[s], "cancelled",
                           IF overdue THEN "deadline_exceeded" ELSE "pipeline_cancelled")
             EXCEPT !.attempt = None]
     ELSE w[s]]

(* requestCancelForActive: the cancel intent is keyed by the stage's        *)
(* generation and ordinal, its payload names the current attempt.           *)
CancelIntents(w) ==
  {<<s, w[s].attempt[1], w[s].attempt[2]>> :
     s \in {t \in Stages : Stopping /\ w[t].state \in InFlightStates /\ w[t].attempt # None}}

(* Faulty: the test for a stopping run is inverted.                         *)
RearmWhenStopping(w) ==
  [s \in Stages |->
     IF s \in retryingAtTickStart /\ w[s].state = "retrying" /\ Stopping
     THEN [ApplyTransition(w[s], "ready", "retry_scheduled") EXCEPT !.attempt = None]
     ELSE w[s]]

(* rearmRetries: only stages that were retrying when the tick began. *)
Rearm(w) ==
  [s \in Stages |->
     IF s \in retryingAtTickStart /\ w[s].state = "retrying" /\ ~Stopping
     THEN [ApplyTransition(w[s], "ready", "retry_scheduled") EXCEPT !.attempt = None]
     ELSE w[s]]

CancelAndRearm ==
  /\ phase = "observe" /\ batch = <<>>
  /\ phase' = "release"
  /\ working' = Rearm(CancelInactive(working))
  /\ plan' = [plan EXCEPT !.cancels = CancelIntents(working)]
  /\ UNCHANGED <<storeVars, runner, envVars, batch, cancelRequested, retryingAtTickStart>>

(* The evaluator's answer on an edge, as this tick sees it. *)
Answer(e) == IF e \in DOMAIN plan.decided THEN plan.decided[e] ELSE evaluated[e]

(* An edge whose predecessor succeeded: evaluateExpressionCondition on the   *)
(* canonical state, or the evaluator's decision.                            *)
ResolveCondition(e) ==
  CASE Condition[e] = "none" -> "selected"
    [] Condition[e] = "expression" ->
         IF canonical[e] = "missing" THEN "blocked"
         ELSE IF canonical[e] = "true" THEN "selected" ELSE "rejected"
    [] Condition[e] = "evaluator" ->
         IF Answer(e) \in {"selected", "rejected"} THEN Answer(e) ELSE "pending"

(* Faulty: an unfinished predecessor does not hold its successors back.     *)
ResolveUnfinished(e) ==
  LET p == working[e[1]] IN
  CASE p.state = "blocked" -> "blocked"
    [] p.state \in {"failed", "cancelled"} -> "rejected"
    [] p.state = "succeeded" -> ResolveCondition(e)
    [] p.state \notin TerminalStates -> "selected"

(* resolveIncomingEdge *)
ResolveEdge(e) ==
  LET p == working[e[1]] IN
  CASE p.state = "blocked" -> "blocked"
    [] p.state = "failed" -> IF e[1] \in Optional THEN "waived" ELSE "blocked"
    [] p.state = "cancelled" ->
         IF ~p.selected \/ p.reason = "condition_not_selected" THEN "rejected" ELSE "blocked"
    [] p.state = "succeeded" -> ResolveCondition(e)
    [] p.state \notin TerminalStates -> "pending"

Incoming(s) == {e \in Edges : e[2] = s}

(* Stages maybeReleaseStage looks at. *)
Candidate(s) == ~Stopping /\ working[s].selected /\ working[s].state = "pending"

(* Evaluator edges of candidates that nobody has asked about yet. *)
ToAsk ==
  {e \in EvaluatorEdges :
     Candidate(e[2]) /\ working[e[1]].state = "succeeded"
     /\ Answer(e) = "unasked" /\ e \notin plan.asked}

Releasable ==
  {s \in Stages : Candidate(s) /\ \A e \in Incoming(s) : ResolveEdge(e) # "pending"}

(* unsatisfiedReads *)
ReadsSatisfied(s) ==
  \A name \in Reads[s] :
    (\E t \in Stages \ {s} : name \in Writes[t])
      => \E t \in Stages \ {s} : name \in Writes[t] /\ working[t].state = "succeeded"

(* maybeReleaseStage *)
ReleasedStage(s) ==
  LET resolved == {ResolveEdge(e) : e \in Incoming(s)} IN
  CASE Incoming(s) = {} -> ApplyTransition(working[s], "ready", "root_eligible")
    [] Incoming(s) # {} /\ "blocked" \in resolved ->
         ApplyTransition(working[s], "blocked", "dependency_unsatisfied")
    [] Incoming(s) # {} /\ "blocked" \notin resolved /\ "selected" \notin resolved ->
         [ApplyTransition(working[s], "cancelled", "condition_not_selected")
            EXCEPT !.selected = FALSE, !.attempt = None]
    [] Incoming(s) # {} /\ "blocked" \notin resolved /\ "selected" \in resolved ->
         IF ReadsSatisfied(s)
         THEN ApplyTransition(working[s], "ready", "dependencies_satisfied")
         ELSE ApplyTransition(working[s], "blocked", "dependency_unsatisfied")

AskEvaluators ==
  /\ phase = "release" /\ ToAsk # {}
  /\ plan' = [plan EXCEPT !.asked = @ \cup ToAsk]
  /\ UNCHANGED <<storeVars, runner, phase, envVars, working, batch, cancelRequested,
                 retryingAtTickStart>>

(* One stage of the release loop; the loop's result does not depend on the  *)
(* order, so the lowest id goes first.                                      *)
Release ==
  /\ phase = "release" /\ ToAsk = {} /\ Releasable # {}
  /\ LET s == Min(Releasable) IN working' = [working EXCEPT ![s] = ReleasedStage(s)]
  /\ UNCHANGED <<storeVars, runner, phase, envVars, batch, cancelRequested,
                 retryingAtTickStart, plan>>

InFlight(w) == {s \in Stages : w[s].state \in InFlightStates}

ReadyStages == {s \in Stages : working[s].state = "ready" /\ working[s].selected}

(* Faulty: one stage too many.                                              *)
MayQueueOneMore ==
  ReadyStages # {} /\ ~Stopping /\ Cardinality(InFlight(working)) <= MaxConcurrent

MayQueue == ReadyStages # {} /\ ~Stopping /\ Cardinality(InFlight(working)) < MaxConcurrent

(* queueReadyStages, one stage at a time in id order. *)
Queue ==
  /\ phase = "release" /\ ToAsk = {} /\ Releasable = {} /\ MayQueue
  /\ LET s == Min(ReadyStages)
         st == working[s]
     IN /\ working' = [working EXCEPT ![s] =
             [ApplyTransition(st, "queued", "dispatch_intent")
                EXCEPT !.ordinal = st.ordinal + 1, !.proposal = None,
                       !.attempt = <<st.generation, st.ordinal + 1>>]]
        /\ plan' = [plan EXCEPT !.dispatch = @ \cup {<<s, st.generation, st.ordinal + 1>>}]
  /\ UNCHANGED <<storeVars, runner, phase, envVars, batch, cancelRequested,
                 retryingAtTickStart>>

(* computeTerminal *)
ComputeTerminal(w) ==
  LET In(states) == {s \in Stages : w[s].state \in states} IN
  IF In(TerminalStates) # Stages THEN "none"
  ELSE IF In({"blocked"}) # {} THEN "blocked"
  ELSE IF cancelRequested \/ In({"cancelled"}) = Stages THEN "cancelled"
  ELSE IF In({"failed"}) \ Optional # {} THEN "failed"
  ELSE "succeeded"

(* The second cancel pass and applyPipelineSchedulerPlan.  Intents and       *)
(* decisions that exist already keep their state; a tick without an outcome *)
(* keeps the one the run has.                                               *)
Apply ==
  /\ phase = "release" /\ ToAsk = {} /\ Releasable = {} /\ ~MayQueue
  /\ phase' = "idle"
  /\ working' = CancelInactive(working)
  /\ stages' = working'
  /\ observations' = <<>>
  /\ evaluated' = [e \in EvaluatorEdges |->
       IF evaluated[e] \in {"selected", "rejected"} THEN evaluated[e]
       ELSE IF e \in DOMAIN plan.decided THEN plan.decided[e]
       ELSE IF e \in plan.asked THEN "asked" ELSE evaluated[e]]
  /\ dispatch' = Merge(dispatch, [a \in plan.dispatch |-> "pending"])
  /\ cancels' = Merge(cancels, [a \in plan.cancels \cup CancelIntents(working) |-> "pending"])
  /\ terminal' = IF ComputeTerminal(working') # "none"
                 THEN ComputeTerminal(working') ELSE terminal
  /\ batch' = <<>> /\ cancelRequested' = FALSE
  /\ retryingAtTickStart' = {} /\ plan' = EmptyPlan
  /\ UNCHANGED <<canonical, runner, envVars>>

-----------------------------------------------------------------------------
(* The runner service: it claims dispatch intents and reports what becomes   *)
(* of the attempts.  Recording an observation and the tick that follows it  *)
(* are one step of the event loop.                                          *)

NoFailure == [class |-> "fatal", signature |-> 0, resumable |-> FALSE]

Observation(kind, s) ==
  [kind |-> kind, stage |-> s, attempt |-> None, failure |-> NoFailure,
   proposal |-> None, edge |-> None, answer |-> "unasked"]

OfAttempt(kind, a) == [Observation(kind, a[1]) EXCEPT !.attempt = <<a[2], a[3]>>]

(* recordPipelineObservation *)
Record(o) ==
  /\ phase = "idle"
  /\ observations' = Append(observations, o)
  /\ UNCHANGED <<stages, evaluated, terminal>>

RecordAndTick(o) == Record(o) /\ Load(Append(observations, o))

(* tick: a caller ticks without a new observation. *)
Tick ==
  /\ phase = "idle"
  /\ Load(observations)
  /\ UNCHANGED <<storeVars, runner, envVars>>

(* drainIntents and reconcile drive one attempt at a time, to its end or     *)
(* until it waits for a person.                                             *)
Draining == \A a \in DOMAIN runner : runner[a] \notin {"prepare", "observe"}

(* driveDispatch, up to the runner's start.  claimRunnerDispatch hands out   *)
(* an attempt that exists already whatever its phase, so a dispatch intent  *)
(* that is still pending is driven again.                                   *)
ClaimDispatch(a) ==
  /\ phase = "idle" /\ Draining
  /\ dispatch[a] = "pending"
  /\ a \in DOMAIN runner => runner[a] \in {"waiting", "recovery_required"}
  /\ runner' = Put(runner, a, "prepare")
  /\ UNCHANGED <<storeVars, phase, tickVars, envVars>>

(* driveDispatch, once the runner has started *)
StartRunner(a) ==
  /\ runner[a] = "prepare"
  /\ runner' = [runner EXCEPT ![a] = "observe"]
  /\ RecordAndTick(OfAttempt("attempt_started", a))
  /\ UNCHANGED <<canonical, dispatch, cancels, envVars>>

(* markWaiting *)
MarkWaiting(a) ==
  /\ runner[a] = "observe"
  /\ runner' = [runner EXCEPT ![a] = "waiting"]
  /\ RecordAndTick(OfAttempt("attempt_waiting", a))
  /\ UNCHANGED <<canonical, dispatch, cancels, envVars>>

(* Faulty: the dispatch intent of a lost attempt is delivered.              *)
LoseRunnerAndIntent(a) ==
  /\ phase = "idle" /\ crashes < MaxCrashes
  /\ crashes' = crashes + 1
  /\ runner[a] \in {"observe", "waiting"}
  /\ runner' = [runner EXCEPT ![a] = "recovery_required"]
  /\ dispatch' = [dispatch EXCEPT ![a] = "delivered"]
  /\ UNCHANGED <<stages, observations, evaluated, canonical, cancels, terminal,
                 phase, tickVars, overdue, cancelCalls, reruns>>

(* settleRunner: the runner cannot say what became of the attempt.  Counted  *)
(* with the crashes.                                                        *)
LoseRunner(a) ==
  /\ phase = "idle" /\ crashes < MaxCrashes
  /\ crashes' = crashes + 1
  /\ runner[a] \in {"observe", "waiting"}
  /\ runner' = [runner EXCEPT ![a] = "recovery_required"]
  /\ UNCHANGED <<storeVars, phase, tickVars, overdue, cancelCalls, reruns>>

(* finalizeRunnerAttempt: the attempt, its observation and its dispatch      *)
(* intent settle in one transaction.                                        *)
Finalize(a, outcome, o) ==
  /\ runner[a] \in {"observe", "waiting"}
  /\ runner' = [runner EXCEPT ![a] = outcome]
  /\ dispatch' = [dispatch EXCEPT ![a] = "delivered"]
  /\ RecordAndTick(o)

OutEdges(s) == {e \in ExpressionEdges : e[1] = s}

(* settleRunner, success: the outputs reach the canonical state before the tick. *)
SettleSucceeded(a) ==
  /\ Finalize(a, "succeeded", OfAttempt("attempt_succeeded", a))
  /\ \E values \in [OutEdges(a[1]) -> {"true", "false"}] : canonical' = Merge(values, canonical)
  /\ UNCHANGED envVars

(* settleRunner, failure *)
SettleFailed(a) ==
  /\ \E f \in Failures :
       Finalize(a, "failed", [OfAttempt("attempt_failed", a) EXCEPT !.failure = f])
  /\ UNCHANGED <<canonical, envVars>>

FinishSucceeded(a) == SettleSucceeded(a) /\ UNCHANGED cancels
FinishFailed(a) == SettleFailed(a) /\ UNCHANGED cancels

Delivered(a) ==
  /\ Draining /\ cancels[a] = "pending" /\ a \in DOMAIN runner
  /\ cancels' = [cancels EXCEPT ![a] = "delivered"]

(* driveCancel with a live runner, and settleRunner after it *)
CancelRunner(a) ==
  /\ Delivered(a)
  /\ Finalize(a, "cancelled", OfAttempt("cancellation_settled", a))
  /\ UNCHANGED <<canonical, envVars>>

(* driveCancel with a runner that had its result before the cancel reached it *)
CancelTooLate(a) == Delivered(a) /\ (SettleSucceeded(a) \/ SettleFailed(a))

(* driveCancel without a live runner: the attempt has settled or was lost.   *)
CancelWithoutRunner(a) ==
  /\ Delivered(a)
  /\ runner[a] # "waiting"
  /\ runner' = [runner EXCEPT ![a] = "recovery_required"]
  /\ RecordAndTick(OfAttempt("cancellation_settled", a))
  /\ UNCHANGED <<canonical, dispatch, envVars>>

(* recordRecoveryApproval: it records and does not tick, so two people may   *)
(* answer the same proposal differently.                                    *)
RecordRecoveryApproval(s, kind) ==
  /\ stages[s].proposal # None
  /\ \A i \in DOMAIN observations :
       observations[i].proposal = stages[s].proposal => observations[i].kind # kind
  /\ Record([Observation(kind, s) EXCEPT !.proposal = stages[s].proposal])
  /\ UNCHANGED <<canonical, dispatch, cancels, runner, phase, tickVars, envVars>>

-----------------------------------------------------------------------------
(* Callers outside the daemon's runner service, time and crashes.            *)

(* A caller records cancel_requested and ticks.  (PipelineRunnerService.cancel *)
(* does so too, but its status() takes every open run for a settled one.)     *)
RequestCancel ==
  /\ cancelCalls < MaxCancels
  /\ cancelCalls' = cancelCalls + 1
  /\ RecordAndTick(Observation("cancel_requested", 1))
  /\ UNCHANGED <<canonical, dispatch, cancels, runner, overdue, reruns, crashes>>

RequestRerun(s) ==
  /\ reruns < MaxReruns
  /\ reruns' = reruns + 1
  /\ RecordAndTick(Observation("manual_rerun", s))
  /\ UNCHANGED <<canonical, dispatch, cancels, runner, overdue, cancelCalls, crashes>>

(* An evaluator answers an asked edge. *)
DecideEvaluator(e) ==
  /\ evaluated[e] = "asked"
  /\ \A i \in DOMAIN observations : observations[i].edge # e
  /\ \E yes \in {"selected", "rejected"} :
       Record([Observation("evaluator_decided", e[2]) EXCEPT !.edge = e, !.answer = yes])
  /\ UNCHANGED <<canonical, dispatch, cancels, runner, phase, tickVars, envVars>>

(* The deadline of the schedule passes. *)
DeadlinePasses ==
  /\ HasDeadline /\ ~overdue /\ phase = "idle"
  /\ overdue' = TRUE
  /\ UNCHANGED <<storeVars, runner, phase, tickVars, cancelCalls, reruns, crashes>>

(* Faulty: settled attempts are reconciled too.                             *)
RecoveredAll(a, rebuilt) == IF a \in rebuilt THEN "observe" ELSE "recovery_required"

(* What restart makes of an attempt: reconcile rebuilds operation runners    *)
(* from their ledger and gives up on every other open attempt.              *)
Recovered(a, rebuilt) ==
  IF runner[a] \notin {"prepare", "observe", "waiting"} THEN runner[a]
  ELSE IF a \in rebuilt THEN "observe" ELSE "recovery_required"

(* The daemon dies, inside or outside a tick, and restarts.                  *)
Crash ==
  /\ crashes < MaxCrashes
  /\ crashes' = crashes + 1
  /\ phase' = "idle" /\ working' = stages /\ batch' = <<>> /\ cancelRequested' = FALSE
  /\ retryingAtTickStart' = {} /\ plan' = EmptyPlan
  /\ \E lost \in SUBSET {a \in DOMAIN runner : runner[a] = "prepare"} :
       LET rebuilt == {a \in DOMAIN runner : a[1] \in Operation} \ lost
       IN runner' = [a \in DOMAIN runner |-> Recovered(a, rebuilt)]
  /\ UNCHANGED <<storeVars, overdue, cancelCalls, reruns>>

(* A crash between finalizeRunnerAttempt and upsertCanonicalRunState: the    *)
(* success is recorded, the state its conditions read is not.               *)
CrashBeforeState(a) ==
  /\ crashes < MaxCrashes /\ phase = "idle"
  /\ crashes' = crashes + 1
  /\ runner[a] \in {"observe", "waiting"}
  /\ runner' = [b \in DOMAIN runner |->
       IF b = a THEN "succeeded" ELSE Recovered(b, {c \in DOMAIN runner : c[1] \in Operation})]
  /\ dispatch' = [dispatch EXCEPT ![a] = "delivered"]
  /\ observations' = Append(observations, OfAttempt("attempt_succeeded", a))
  /\ UNCHANGED <<stages, evaluated, canonical, cancels, terminal, phase, tickVars,
                 overdue, cancelCalls, reruns>>

-----------------------------------------------------------------------------
TickSteps ==
  \/ AttemptStarted \/ AttemptWaiting \/ AttemptSucceeded \/ AttemptFailed
  \/ CancellationSettled \/ RecoveryApproved \/ RecoveryRejected
  \/ CancelObserved \/ EvaluatorDecided \/ ManualRerun
  \/ CancelAndRearm \/ AskEvaluators \/ Release \/ Queue \/ Apply

Claims == \E a \in DOMAIN dispatch : ClaimDispatch(a)
Starts == \E a \in DOMAIN runner : StartRunner(a)
Finishes == \E a \in DOMAIN runner : FinishSucceeded(a) \/ FinishFailed(a)
DrivesCancel == \E a \in DOMAIN cancels : CancelRunner(a) \/ CancelTooLate(a) \/ CancelWithoutRunner(a)
AnswersProposal == \E s \in Stages, kind \in {"recovery_approved", "recovery_rejected"} :
                     RecordRecoveryApproval(s, kind)
AnswersEvaluator == \E e \in EvaluatorEdges : DecideEvaluator(e)

Next ==
  \/ TickSteps
  \/ Tick \/ Claims \/ Starts \/ Finishes \/ DrivesCancel
  \/ \E a \in DOMAIN runner : MarkWaiting(a) \/ LoseRunner(a) \/ CrashBeforeState(a)
  \/ AnswersProposal \/ AnswersEvaluator
  \/ RequestCancel \/ (\E s \in Stages : RequestRerun(s))
  \/ DeadlinePasses \/ Crash

Spec == Init /\ [][Next]_vars

(* A tick runs to its end; the poll timer keeps draining intents; a caller   *)
(* keeps ticking (the task wave scheduler ticks its child runs); executions, *)
(* people and evaluators answer in the end.  Every one of these waits for    *)
(* the event loop, which ticks disable for a moment: strong fairness.        *)
Fairness ==
  /\ WF_vars(TickSteps) /\ WF_vars(Tick)
  /\ SF_vars(Claims) /\ SF_vars(Starts) /\ SF_vars(Finishes)
  /\ SF_vars(AnswersProposal) /\ SF_vars(AnswersEvaluator)

FairSpec == Spec /\ Fairness

-----------------------------------------------------------------------------
(* PERMITTED_TRANSITIONS *)
Table ==
  {<<{"pending"}, "ready", {"dependencies_satisfied", "root_eligible"}>>,
   <<{"pending"}, "blocked", {"condition_blocked", "dependency_unsatisfied"}>>,
   <<{"pending", "ready"}, "cancelled", {"condition_not_selected", "cancel_requested",
      "pipeline_cancelled", "deadline_exceeded"}>>,
   <<{"ready"}, "queued", {"dispatch_intent"}>>,
   <<{"ready"}, "blocked", {"condition_blocked", "dependency_unsatisfied", "deadline_exceeded"}>>,
   <<{"queued", "waiting"}, "running", {"attempt_started"}>>,
   <<InFlightStates, "cancelled", {"cancellation_settled"}>>,
   <<{"running", "waiting"}, "waiting", {"attempt_waiting"}>>,
   <<{"running", "waiting"}, "succeeded", {"attempt_succeeded"}>>,
   <<{"running", "waiting"}, "failed", {"attempt_failed", "retry_exhausted"}>>,
   <<{"running", "waiting"}, "retrying", {"retry_scheduled"}>>,
   <<{"running", "waiting"}, "blocked", {"condition_blocked"}>>,
   <<{"retrying"}, "ready", {"retry_scheduled"}>>,
   <<{"retrying"}, "failed", {"retry_exhausted"}>>,
   <<{"retrying"}, "cancelled", {"cancel_requested", "pipeline_cancelled", "deadline_exceeded"}>>,
   <<TerminalStates, "pending", {"manual_rerun"}>>}

(* isPermittedTransition *)
IsPermittedTransition(from, to, reason) ==
  \E row \in Table : from \in row[1] /\ to = row[2] /\ reason \in row[3]

(* What a step makes of a stage that was `old': nothing, a declared          *)
(* transition, or a rerun of a stage that had not run.                       *)
Declared(old, new) ==
  \/ old.state = new.state /\ (old.reason = new.reason \/ new.reason = "manual_rerun")
  \/ IsPermittedTransition(old.state, new.state, new.reason)

Answers == {"unasked", "asked", "selected", "rejected"}
Kinds == {"attempt_started", "attempt_waiting", "attempt_succeeded", "attempt_failed",
          "cancellation_settled", "recovery_approved", "recovery_rejected",
          "cancel_requested", "evaluator_decided", "manual_rerun"}
Reasons ==
  {"none", "root_eligible", "dependencies_satisfied", "dependency_unsatisfied",
   "condition_not_selected", "condition_blocked", "dispatch_intent", "attempt_started",
   "attempt_waiting", "attempt_succeeded", "attempt_failed", "retry_scheduled",
   "retry_exhausted", "cancellation_settled", "pipeline_cancelled", "deadline_exceeded",
   "manual_rerun"}
Phases == {"prepare", "observe", "waiting", "succeeded", "failed", "cancelled",
           "recovery_required"}
AttemptType == Stages \X Nat \X Nat
StageType ==
  [state : States, reason : Reasons, generation : Nat, ordinal : Nat, attempt : Nat \X Nat,
   selected : BOOLEAN, repairsUsed : Nat, identical : Nat, signature : Nat,
   proposal : Nat \X Nat]

ObservationType ==
  [kind : Kinds, stage : Stages, attempt : Nat \X Nat, failure : FailureType,
   proposal : Nat \X Nat, edge : Edges \cup {None}, answer : Answers]

IntentsOK(intents) ==
  \A a \in DOMAIN intents : a \in AttemptType /\ intents[a] \in {"pending", "delivered"}

PlanOK(p) ==
  /\ p = [dispatch |-> p.dispatch, cancels |-> p.cancels, asked |-> p.asked,
          decided |-> p.decided]
  /\ p.dispatch \subseteq AttemptType /\ p.cancels \subseteq AttemptType
  /\ \A e \in DOMAIN p.decided : p.decided[e] \in Answers

StoreTypeOK ==
  /\ stages \in [Stages -> StageType]
  /\ observations \in Seq(ObservationType)
  /\ evaluated \in [EvaluatorEdges -> Answers]
  /\ canonical \in [ExpressionEdges -> {"missing", "true", "false"}]
  /\ terminal \in {"none", "succeeded", "failed", "cancelled", "blocked"}

LedgerTypeOK ==
  /\ IntentsOK(dispatch) /\ IntentsOK(cancels)
  /\ DOMAIN runner \subseteq DOMAIN dispatch
  /\ \A a \in DOMAIN runner : runner[a] \in Phases

TickTypeOK ==
  /\ phase \in {"idle", "observe", "release"}
  /\ working \in [Stages -> StageType]
  /\ batch \in Seq(ObservationType)
  /\ PlanOK(plan)

(* Every column, map and message keeps its type, and only dispatched         *)
(* attempts are claimed.                                                    *)
TypeOK == StoreTypeOK /\ LedgerTypeOK /\ TickTypeOK

(* A tick never makes a transition the table does not declare:               *)
(* assertPermittedTransition would throw, the tick would be lost and every   *)
(* later tick would throw again, wedging the run.                           *)
NoUndeclaredTransition ==
  [][crashes' = crashes => \A s \in Stages : Declared(working[s], working'[s])]_vars

(* No more than maxConcurrentWorkers stages are in flight, whatever mix of   *)
(* retries, reruns and waiting proposals is scheduled (queueReadyStages),    *)
(* neither in the store nor at any point of a tick.                          *)
WithinConcurrency ==
  /\ Cardinality(InFlight(stages)) <= MaxConcurrent
  /\ Cardinality(InFlight(working)) <= MaxConcurrent

(* What ends the attempt it names, when a tick observes it. *)
Settling == {"attempt_succeeded", "attempt_failed", "cancellation_settled"}

(* A stage in flight waits for somebody: its attempt is still to be driven,  *)
(* its outcome is recorded and not yet observed, or a recovery proposal      *)
(* waits for a person.  Otherwise no tick would ever move it again.          *)
InFlightIsDriven ==
  \A s \in InFlight(stages) :
    LET a == <<s, stages[s].attempt[1], stages[s].attempt[2]>> IN
    \/ a \in DOMAIN dispatch /\ dispatch[a] = "pending"
    \/ \E i \in DOMAIN observations :
         /\ observations[i].kind \in Settling
         /\ observations[i].stage = s /\ observations[i].attempt = stages[s].attempt
    \/ stages[s].proposal # None

(* A generation of a stage never makes more attempts than its repair budget  *)
(* allows, whoever approves, repeats or re-drives them (decideRecovery).     *)
AttemptsBounded == \A s \in Stages : stages[s].ordinal <= Budget[s] + 1

(* A stage is attempted on settled inputs only: all its predecessors have    *)
(* settled, one of them succeeded, and what it reads was produced.           *)
RanOnSettledInputs ==
  \A s \in Stages : stages[s].ordinal > 0 /\ Incoming(s) # {} =>
    /\ \A e \in Incoming(s) : stages[e[1]].state \in TerminalStates
    /\ \E e \in Incoming(s) : stages[e[1]].state = "succeeded"
    /\ \A name \in Reads[s] :
         (\E t \in Stages \ {s} : name \in Writes[t])
           => \E t \in Stages \ {s} : name \in Writes[t] /\ stages[t].state = "succeeded"

(* A success is never invented: the current attempt of a succeeded stage was *)
(* finalized as succeeded, across restarts, re-driven and lost attempts.     *)
SuccessIsFinalized ==
  \A s \in Stages : stages[s].state = "succeeded" =>
    LET a == <<s, stages[s].attempt[1], stages[s].attempt[2]>> IN
    a \in DOMAIN runner /\ runner[a] = "succeeded"

(* Under Fairness the run settles, whatever fails, waits, crashes or is lost. *)
RunSettles == <>(terminal # "none")
=============================================================================
