---------------------------- MODULE StageRunners ----------------------------
(* The six fixed stage runners, as the state one attempt keeps in memory and  *)
(* what each call of the common surface (prepare, start, observe, cancel,     *)
(* collect, validate, finalize) makes of it.  The world outside the daemon is *)
(* one record: the refs an integration works on, the pull requests of a       *)
(* publication, the child process of a check or a command and the backend     *)
(* execution of an agent.                                                    *)
EXTENDS Integers, Sequences

OperationKinds == {"approval", "integration", "verify", "publish"}
WorkKinds == {"integration", "verify", "publish"}

NoRunner == [kind |-> "none"]
Live(r) == r.kind # "none"

(* prepare: the state of a fresh attempt; an approval is a gate that waits,   *)
(* and says so in its row from the start                                     *)
Fresh(kind) ==
  [kind |-> kind, timedOut |-> FALSE, cancelled |-> FALSE, decision |-> "none",
   answerStatus |-> "none", work |-> "none", result |-> "none", checks |-> 0, cleaned |-> "none",
   recovery |-> "none"]

Gate == [Fresh("approval") EXCEPT !.recovery = "await_approval"]

Prepared(kind) == IF kind = "approval" THEN Gate ELSE Fresh(kind)

(* start: integration, verify and publish work in the background *)
Started(r) == IF r.kind \in WorkKinds THEN [r EXCEPT !.work = "begin"] ELSE r

Finished(r, result) == [r EXCEPT !.work = "done", !.result = result]

-----------------------------------------------------------------------------
(* runIntegration: the cancel flag is read before every git call. *)

ReadRefs(r, world) ==
  IF r.cancelled THEN Finished(r, "irreconcilable_external")
  ELSE IF world.source # "expected" THEN Finished(r, "stale_source")
  ELSE IF world.target # "expected" THEN Finished(r, "stale_target")
  ELSE [r EXCEPT !.work = "merge"]

PrepareMerge(r, world) ==
  IF r.cancelled THEN Finished(r, "irreconcilable_external")
  ELSE CASE world.merge = "conflict" -> Finished(r, "merge_conflict")
         [] world.merge = "contained" -> Finished(r, "already_applied")
         [] world.merge = "clean" -> [r EXCEPT !.work = "swap"]

(* Mutant of UpdateRef: the ref is written without comparing it. *)
UpdateRefBlindly(r, world) ==
  IF r.cancelled THEN <<Finished(r, "irreconcilable_external"), world>>
  ELSE <<Finished(r, "none"),
         [world EXCEPT !.target = "candidate", !.swaps = @ + 1,
                       !.lost = @ \/ world.target = "other"]>>

UpdateRef(r, world) ==
  IF r.cancelled THEN <<Finished(r, "irreconcilable_external"), world>>
  ELSE IF world.target # "expected" THEN <<Finished(r, "stale_target"), world>>
  ELSE <<Finished(r, "none"), [world EXCEPT !.target = "candidate", !.swaps = @ + 1]>>

IntegrationStep(r, world) ==
  CASE r.work = "begin" -> <<ReadRefs(r, world), world>>
    [] r.work = "merge" -> <<PrepareMerge(r, world), world>>
    [] r.work = "swap" -> UpdateRef(r, world)

-----------------------------------------------------------------------------
(* runPublish: find, then adopt or create, then mark ready and auto-merge. *)

FindPullRequests(r, world) ==
  IF r.cancelled THEN Finished(r, "cancelled")
  ELSE IF world.pulls = <<>> THEN [r EXCEPT !.work = "create"]
  ELSE IF Len(world.pulls) > 1
  THEN [Finished(r, "ambiguous") EXCEPT !.recovery = "reconcile_forge"]
  ELSE IF world.pulls[1] # "expected"
  THEN [Finished(r, "mismatched_head") EXCEPT !.recovery = "reconcile_forge"]
  ELSE [r EXCEPT !.work = "ready", !.result = "adopted"]

CreatePullRequest(r, world) ==
  <<IF r.cancelled THEN Finished(r, "cancelled") ELSE [r EXCEPT !.work = "ready", !.result = "created"],
    [world EXCEPT !.pulls = Append(@, world.head), !.created = @ + 1]>>

PublishStep(r, world) ==
  CASE r.work = "begin" -> <<FindPullRequests(r, world), world>>
    [] r.work = "create" -> CreatePullRequest(r, world)
    [] r.work = "ready" -> <<[r EXCEPT !.work = "done"], world>>

(* Any call may fail; a creation may fail after the forge has made it. *)
ForgeFails(r) == [Finished(r, "forge_failed") EXCEPT !.recovery = "reconcile_forge"]

-----------------------------------------------------------------------------
(* runChecks: the required checks of a verify stage, in order, stopping at    *)
(* the first that fails.                                                     *)

Spawned(world) == [world EXCEPT !.processes = 1, !.exit = "none"]

(* world.passed counts the checks this run of the runner has seen pass. *)
SpawnCheck(r, world) ==
  <<[r EXCEPT !.work = "check"],
    [Spawned(world) EXCEPT !.passed = IF r.checks = 0 THEN 0 ELSE @]>>

CheckExits(r, world, satisfied, required) ==
  LET n == r.checks + 1 IN
  <<IF r.cancelled THEN Finished(r, "cancelled")
    ELSE IF ~satisfied THEN Finished(r, "failed")
    ELSE IF n = required THEN Finished(r, "passed")
    ELSE [r EXCEPT !.work = "begin", !.checks = n],
    [world EXCEPT !.processes = 0, !.passed = IF satisfied THEN @ + 1 ELSE @]>>

-----------------------------------------------------------------------------
(* observe: what the runner says of the attempt, and whether the call wrote   *)
(* the attempt's row through the store callbacks.                            *)

Saw(r, status, wrote) == [runner |-> r, status |-> status, wrote |-> wrote]

TimedOut(r, cleaned) ==
  Saw([r EXCEPT !.timedOut = TRUE, !.cleaned = cleaned,
                !.cancelled = r.kind \in WorkKinds \/ @,
                !.recovery = IF r.kind = "approval" THEN "none"
                             ELSE IF r.kind \in {"verify", "command"} /\ cleaned = "no"
                             THEN "reap_process" ELSE @],
      "timed_out", TRUE)

ObserveApproval(r, overdue) ==
  IF r.cancelled \/ r.answerStatus = "stale_revision" \/ r.decision # "none"
  THEN Saw(r, "terminal", FALSE)
  ELSE IF overdue /\ ~r.timedOut THEN TimedOut(r, "yes")
  ELSE Saw(r, "waiting", FALSE)

ObserveWork(r, overdue) ==
  IF r.work = "done" THEN Saw(r, "terminal", FALSE)
  ELSE IF overdue /\ ~r.timedOut THEN TimedOut(r, "yes")
  ELSE Saw(r, "running", FALSE)

(* A verify runner looks at its deadline first, terminates the check's group  *)
(* and waits for the run to give up.                                         *)
ObserveVerify(r, overdue, cleaned) ==
  IF overdue /\ ~r.timedOut /\ ~r.cancelled
  THEN LET o == TimedOut(r, cleaned) IN [o EXCEPT !.runner = Finished(@, "cancelled")]
  ELSE Saw(r, IF r.work = "done" THEN "terminal" ELSE "running", FALSE)

ObserveCommand(r, overdue, cleaned, world) ==
  IF world.exit # "none" THEN Saw(r, "exited", FALSE)
  ELSE IF overdue /\ ~r.timedOut THEN TimedOut(r, cleaned)
  ELSE Saw(r, "running", FALSE)

Settled == {"succeeded", "failed", "cancelled"}

(* An agent past its deadline is cancelled at the backend, which may not      *)
(* settle in time.                                                           *)
ObserveAgent(r, overdue, cleaned, world) ==
  IF r.result = "resume_failed" THEN Saw(r, "terminal", FALSE)
  ELSE IF overdue /\ ~r.timedOut /\ r.result \notin Settled
  THEN IF cleaned = "yes" THEN TimedOut(r, "yes")
       ELSE Saw([r EXCEPT !.timedOut = TRUE, !.cleaned = "no", !.recovery = "observe_backend"],
                "recovery_required", TRUE)
  ELSE Saw([r EXCEPT !.result = world.engine],
           CASE world.engine \in Settled -> "terminal"
             [] world.engine = "waiting_on_user" -> "waiting"
             [] world.engine = "recovery_required" -> "recovery_required"
             [] world.engine = "running" -> "running", FALSE)

Observe(r, overdue, cleaned, world) ==
  CASE r.kind = "approval" -> ObserveApproval(r, overdue)
    [] r.kind \in {"integration", "publish"} -> ObserveWork(r, overdue)
    [] r.kind = "verify" -> ObserveVerify(r, overdue, cleaned)
    [] r.kind = "command" -> ObserveCommand(r, overdue, cleaned, world)
    [] r.kind = "agent" -> ObserveAgent(r, overdue, cleaned, world)

(* answer: a second answer, or one after the deadline, decides nothing. *)
Answer(r, decision) ==
  IF r.decision # "none" \/ r.answerStatus = "stale_revision"
  THEN [r EXCEPT !.answerStatus = "stale_revision"]
  ELSE [r EXCEPT !.decision = decision, !.answerStatus = "recorded", !.recovery = "none"]

(* cancel: the flag is set and the work awaited, so that what it was about to  *)
(* do is done or given up; a process group or a backend execution may outlive *)
(* the attempt to end it.                                                    *)
CancelApproval(r) == [r EXCEPT !.cancelled = TRUE, !.cleaned = "yes", !.recovery = "none"]
CancelWork(r) == [r EXCEPT !.cancelled = TRUE, !.cleaned = "yes"]

CancelCommand(r, cleaned) ==
  [r EXCEPT !.cancelled = TRUE, !.cleaned = cleaned,
            !.recovery = IF cleaned = "no" THEN "reap_process" ELSE @]

CancelVerify(r, cleaned) == Finished(CancelCommand(r, cleaned), "cancelled")

CancelAgent(r, cleaned) ==
  [r EXCEPT !.cancelled = TRUE, !.cleaned = cleaned,
            !.recovery = IF cleaned = "no" THEN "observe_backend" ELSE @]

Cancel(r, cleaned) ==
  CASE r.kind = "approval" -> CancelApproval(r)
    [] r.kind \in {"integration", "publish"} -> CancelWork(r)
    [] r.kind = "verify" -> CancelVerify(r, cleaned)
    [] r.kind = "command" -> CancelCommand(r, cleaned)
    [] r.kind = "agent" -> CancelAgent(r, cleaned)

-----------------------------------------------------------------------------
(* collect, validate and finalize *)

(* the evidence that collect finds and that lets finalize report success *)

ApprovalGranted(r) == r.decision = "approve" /\ r.answerStatus = "recorded"
Integrated(r) == r.result \in {"none", "already_applied"}
ChecksPassed(r) == r.result = "passed"
Published(r) == r.result \in {"created", "adopted"}

(* a command that was killed by a signal has no exit code, which is not a     *)
(* failing one                                                               *)
CommandPassed(world) == world.exit # "nonzero"
AgentSucceeded(r) == r.result = "succeeded"

Effective(r, world) ==
  CASE r.kind = "approval" -> ApprovalGranted(r)
    [] r.kind = "integration" -> Integrated(r)
    [] r.kind = "verify" -> ChecksPassed(r)
    [] r.kind = "publish" -> Published(r)
    [] r.kind = "command" -> CommandPassed(world)
    [] r.kind = "agent" -> AgentSucceeded(r)

(* finalize: complete says that the declared writes and requirements are met *)
Outcome(r, world, complete) ==
  IF Effective(r, world) /\ ~r.cancelled /\ ~r.timedOut /\ complete THEN "succeeded"
  ELSE IF r.cancelled /\ ~(r.kind = "verify" /\ r.timedOut) THEN "cancelled"
  ELSE IF \/ r.kind = "publish" /\ r.result \in {"ambiguous", "mismatched_head"}
          \/ r.recovery \in {"reap_process", "observe_backend"}
  THEN "recovery_required"
  ELSE "failed"

=============================================================================
