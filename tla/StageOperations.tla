-------------------------- MODULE StageOperations --------------------------
(* One attempt of a fixed stage through the pipeline runner service: the      *)
(* durable attempt and operation rows, the runner in memory that a crash      *)
(* loses, and the single loop that reconciles the open attempts and drains    *)
(* the scheduler's intents.  An exception in that loop is an unhandled        *)
(* rejection of its timer, or fails the start of the daemon: the process ends.*)
EXTENDS StageRunners

CONSTANTS
  Kinds,          \* the stage types of the run
  Required,       \* the required checks of a verify request
  MaxCrashes,     \* bound: crashes of the daemon
  MaxAttempts,    \* bound: attempts of the stage
  MaxMoves        \* bound: what others do to the refs and the pull requests

ASSUME StageAssumption ==
  /\ Kinds \subseteq {"approval", "integration", "verify", "publish", "command", "agent"}
  /\ Required \in Nat \ {0} /\ {MaxCrashes, MaxMoves} \subseteq Nat /\ MaxAttempts \in Nat \ {0}

VARIABLES
  complete,   \* whether the declared writes and requirements of the stage can be met
  kind,       \* its stage type
  ordinal,    \* the attempt's ordinal
  row,        \* pipeline_runner_attempt: phase and recovery
  operation,  \* pipeline_runner_operation_state and the approval answer
  dispatch, cancel, later, \* the scheduler's intents: this attempt's and one created after them
  observed,   \* the settlements recorded for the scheduler, of this attempt
  runner,     \* the runner in memory
  waiting,    \* waitingAttempts
  pc,         \* where the service's loop is
  back,       \* where it goes on when settleRunner returns
  settling,   \* settleRunner, after a terminal observation
  answering,  \* answerApproval is between its answer and its settlement
  overdue,    \* the deadline of the attempt has passed
  world, moves, crashes

durable == <<complete, kind, ordinal, row, operation, dispatch, cancel, later, observed>>
memory == <<runner, waiting, pc, back, settling, answering>>
env == <<overdue, world, moves, crashes>>
vars == <<durable, memory, env>>

Ended == {"succeeded", "failed", "cancelled"}
Open == row.phase \notin Ended \cup {"none"}

NoOperation == [phase |-> "none", answer |-> "none"]

Init ==
  /\ complete \in BOOLEAN /\ kind \in Kinds /\ ordinal = 1
  /\ row = [phase |-> "none", recovery |-> "none"]
  /\ operation = NoOperation
  /\ dispatch = "pending" /\ cancel = "none" /\ later = "pending" /\ observed = {}
  /\ runner = NoRunner /\ waiting = FALSE
  /\ pc = "drain" /\ back = "none" /\ settling = "no" /\ answering = FALSE
  /\ overdue = FALSE /\ moves = 0 /\ crashes = 0
  /\ \E merge \in (IF kind = "integration" THEN {"clean", "conflict", "contained"} ELSE {"clean"}),
        prior \in (IF kind = "agent" THEN {"fresh", "known", "missing"} ELSE {"fresh"}) :
       world = [source |-> "expected", target |-> "expected", merge |-> merge, swaps |-> 0,
                lost |-> FALSE, head |-> "expected", pulls |-> <<>>, created |-> 0,
                processes |-> 0, passed |-> 0, exit |-> "none",
                prior |-> prior, engine |-> "idle"]

-----------------------------------------------------------------------------
(* An exception ends the process: what was in memory is lost. *)
Die ==
  /\ pc' = "down" /\ runner' = NoRunner /\ waiting' = FALSE /\ back' = "none"
  /\ settling' = "no" /\ answering' = FALSE

(* the process dies, or provisioning or reading a request throws *)
Crash ==
  /\ pc # "down" /\ crashes < MaxCrashes /\ crashes' = crashes + 1
  /\ Die
  /\ UNCHANGED <<durable, overdue, world, moves>>

(* the daemon starts and awaits reconcile before it serves *)
Restart ==
  /\ pc = "down" /\ pc' = "reconcile"
  /\ UNCHANGED <<durable, runner, waiting, back, settling, answering, env>>

(* The loop takes a step only when no answer is being settled. *)
At(place) == pc = place /\ settling = "no" /\ ~answering
Goto(place) == pc' = place /\ UNCHANGED <<back, settling, answering>>

Settle(then) == pc' = "settle" /\ back' = then /\ UNCHANGED <<settling, answering>>

-----------------------------------------------------------------------------
(* reconcile *)

(* recoveryForMissingHandle *)
MissingHandle ==
  CASE kind = "agent" -> "observe_backend"
    [] kind \in {"command", "verify"} -> "reap_process"
    [] kind = "approval" -> "await_approval"
    [] kind = "integration" -> "reconcile_git"
    [] kind = "publish" -> "reconcile_forge"

(* updateRunnerAttempt: compare-and-swap on the row's revision *)
UpdateAttempt(phase, recovery) == row' = [phase |-> phase, recovery |-> recovery]

Lost == UpdateAttempt("recovery_required", MissingHandle)

SkipSettled ==
  /\ At("reconcile") /\ (row.phase = "recovery_required" \/ ~Open)
  /\ Goto("drain")
  /\ UNCHANGED <<durable, runner, waiting, env>>

(* reconstructLiveRunner finds no request, or the stage is not an operation *)
LoseHandle ==
  /\ At("reconcile") /\ Open /\ row.phase # "recovery_required" /\ ~Live(runner)
  /\ operation.phase = "none"
  /\ Lost /\ Goto("drain")
  /\ UNCHANGED <<complete, kind, ordinal, operation, dispatch, cancel, later, observed, runner,
                 waiting, env>>

(* Mutant of Replayed: the rebuilt gate asks again. *)
ReplayedUnanswered(r) == r

Replayed(r) == IF operation.answer = "none" THEN r ELSE Answer(r, operation.answer)

(* Mutant of Reconstruct: the rebuilt runner is prepared but not started. *)
ReconstructPrepared ==
  /\ At("reconcile") /\ Open /\ row.phase # "recovery_required" /\ ~Live(runner)
  /\ operation.phase # "none"
  /\ runner' = Replayed(Prepared(kind))
  /\ Settle("drain")
  /\ UNCHANGED <<durable, waiting, env>>

(* reconstructLiveRunner: prepare and start again from the stored request,    *)
(* and replay the stored answer                                              *)
Reconstruct ==
  /\ At("reconcile") /\ Open /\ row.phase # "recovery_required" /\ ~Live(runner)
  /\ operation.phase # "none"
  /\ runner' = Replayed(Started(Prepared(kind)))
  /\ Settle("drain")
  /\ UNCHANGED <<durable, waiting, env>>

(* A waiting attempt is observed first; settleRunner observes it again.       *)
ReconcileWaiting ==
  /\ At("reconcile") /\ Open /\ row.phase # "recovery_required" /\ Live(runner) /\ waiting
  /\ \E cleaned \in {"yes", "no"} :
       LET o == Observe(runner, overdue, cleaned, world) IN
       /\ runner' = o.runner
       /\ IF o.status = "waiting" THEN Goto("drain") ELSE Settle("drain")
  /\ UNCHANGED <<durable, waiting, env>>

-----------------------------------------------------------------------------
(* driveDispatch *)

(* claimRunnerDispatch hands out an existing attempt whatever its phase. *)
Claim ==
  /\ At("drain") /\ dispatch = "pending"
  /\ row' = IF row.phase = "none" THEN [row EXCEPT !.phase = "prepare"] ELSE row
  /\ Goto("provision")
  /\ UNCHANGED <<complete, kind, ordinal, operation, dispatch, cancel, later, observed, runner,
                 waiting, env>>

(* persistRunnerOperationRequest refuses a second operation of the attempt:   *)
(* every dispatch draws a new operation id.                                  *)
RefuseOperation ==
  /\ At("provision") /\ operation.phase # "none"
  /\ Die
  /\ UNCHANGED <<durable, env>>

(* persistRunnerOperationRequest, then updateRunnerOperationState *)
Requested ==
  CASE kind = "approval" -> [operation EXCEPT !.phase = "waiting"]
    [] kind \in WorkKinds -> [operation EXCEPT !.phase = "executing"]
    [] kind \notin OperationKinds -> operation

(* The request is stored and linked before the runner is made, so that every  *)
(* effect of an operation has its request.                                   *)
Prepare ==
  /\ At("provision") /\ operation.phase = "none"
  /\ operation' = Requested
  /\ runner' = Prepared(kind)
  /\ UpdateAttempt("start", Prepared(kind).recovery)
  /\ Goto("start")
  /\ UNCHANGED <<complete, kind, ordinal, dispatch, cancel, later, observed, waiting, env>>

(* start: an agent starts or resumes a backend execution, a command a process *)
Effects(r) ==
  CASE kind = "command" -> <<r, Spawned(world)>>
    [] kind = "agent" /\ world.prior = "missing" -> <<[r EXCEPT !.result = "resume_failed"], world>>
    [] kind = "agent" /\ world.prior # "missing" ->
         <<r, [world EXCEPT !.engine = "running"]>>
    [] kind \in OperationKinds -> <<Started(r), world>>

StartRunner ==
  /\ At("start")
  /\ runner' = Effects(runner)[1] /\ world' = Effects(runner)[2]
  /\ UpdateAttempt("observe", row.recovery)
  /\ Settle("cancels")
  /\ UNCHANGED <<complete, kind, ordinal, operation, dispatch, cancel, later, observed, waiting,
                 overdue, moves, crashes>>

-----------------------------------------------------------------------------
(* settleRunner *)

Observing == At("settle") \/ At("loop")

(* The row was read before the first observation and is read again only      *)
(* after the later ones: a first observation that wrote it leaves a stale      *)
(* revision, and the update that follows throws.                              *)
Current(o) == pc = "loop" \/ ~o.wrote

Reaped(o) ==
  IF o.status = "timed_out" /\ o.runner.cleaned = "yes" /\ kind \in {"verify", "command"}
  THEN [world EXCEPT !.processes = 0, !.exit = IF kind = "command" THEN "signal" ELSE @]
  ELSE world

Running ==
  /\ Observing
  /\ \E cleaned \in {"yes", "no"} :
       LET o == Observe(runner, overdue, cleaned, world) IN
       /\ o.status = "running" /\ runner' = o.runner
  /\ waiting' = FALSE
  /\ pc' = "loop" /\ UNCHANGED <<back, settling, answering>>
  /\ UNCHANGED <<durable, env>>

(* markWaiting *)
MarkWaiting ==
  /\ Observing
  /\ \E cleaned \in {"yes", "no"} :
       LET o == Observe(runner, overdue, cleaned, world) IN
       /\ o.status = "waiting" /\ runner' = o.runner
  /\ waiting' = TRUE
  /\ UpdateAttempt("observe", row.recovery)
  /\ Goto(back)
  /\ UNCHANGED <<complete, kind, ordinal, operation, dispatch, cancel, later, observed, env>>

StaleRevision ==
  /\ Observing
  /\ \E cleaned \in {"yes", "no"} :
       LET o == Observe(runner, overdue, cleaned, world) IN
       o.status \notin {"running", "waiting"} /\ ~Current(o) /\ world' = Reaped(o)
  /\ Die
  /\ UNCHANGED <<durable, overdue, moves, crashes>>

GiveUp ==
  /\ Observing
  /\ \E cleaned \in {"yes", "no"} :
       LET o == Observe(runner, overdue, cleaned, world) IN
       o.status = "recovery_required" /\ Current(o)
  /\ Lost /\ runner' = NoRunner /\ waiting' = FALSE
  /\ Goto(back)
  /\ UNCHANGED <<complete, kind, ordinal, operation, dispatch, cancel, later, observed, env>>

(* the collect phase begins; the work of an operation is awaited *)
Collect ==
  /\ Observing
  /\ \E cleaned \in {"yes", "no"} :
       LET o == Observe(runner, overdue, cleaned, world) IN
       /\ o.status \in {"terminal", "timed_out", "exited"} /\ Current(o)
       /\ runner' = o.runner /\ world' = Reaped(o)
  /\ UpdateAttempt("collect", row.recovery) /\ waiting' = FALSE
  /\ settling' = IF kind \in OperationKinds THEN "operation" ELSE "finalize"
  /\ UNCHANGED <<complete, kind, ordinal, operation, dispatch, cancel, later, observed,
                 pc, back, answering, overdue, moves, crashes>>

OperationPhase(outcome) ==
  IF outcome = "succeeded" THEN "completed"
  ELSE IF outcome = "cancelled" THEN "cancelled" ELSE "failed"

(* updateRunnerOperationState *)
SettleOperation ==
  /\ settling = "operation" /\ (kind \in WorkKinds => runner.work = "done")
  /\ operation' = [operation EXCEPT !.phase = OperationPhase(Outcome(runner, world, complete))]
  /\ settling' = "finalize"
  /\ UNCHANGED <<complete, kind, ordinal, row, dispatch, cancel, later, observed, runner, waiting,
                 pc, back, answering, env>>

(* Mutant of FinalizeAttempt: the settlement leaves the dispatch intent. *)
FinalizeWithoutIntent ==
  /\ settling = "finalize"
  /\ LET outcome == Outcome(runner, world, complete) IN
     /\ row' = [phase |-> outcome, recovery |-> runner.recovery]
     /\ observed' = observed \cup {outcome}
  /\ runner' = NoRunner /\ waiting' = FALSE /\ settling' = "no" /\ answering' = FALSE
  /\ pc' = IF answering THEN pc ELSE back
  /\ UNCHANGED <<complete, kind, ordinal, operation, dispatch, cancel, later, back, env>>

(* finalizeRunnerAttempt: row, observation and intent in one transaction; the  *)
(* runner is forgotten and the scheduler ticks.                              *)
FinalizeAttempt ==
  /\ settling = "finalize"
  /\ LET outcome == Outcome(runner, world, complete) IN
     /\ row' = [phase |-> outcome, recovery |-> runner.recovery]
     /\ observed' = observed \cup {outcome}
  /\ dispatch' = "delivered"
  /\ runner' = NoRunner /\ waiting' = FALSE /\ settling' = "no" /\ answering' = FALSE
  /\ pc' = IF answering THEN pc ELSE back
  /\ UNCHANGED <<complete, kind, ordinal, operation, cancel, later, back, env>>

-----------------------------------------------------------------------------
(* drainIntents goes on behind the dispatch intent: the cancel intent of the   *)
(* attempt, then whatever was created later.                                 *)

NoDispatch ==
  /\ At("drain") /\ dispatch # "pending" /\ Goto("cancels")
  /\ UNCHANGED <<durable, runner, waiting, env>>

(* driveCancel: no intent, or one of an attempt that was never claimed *)
NoCancel ==
  /\ At("cancels") /\ (cancel # "pending" \/ row.phase = "none") /\ Goto("later")
  /\ UNCHANGED <<durable, runner, waiting, env>>

CancelRunner ==
  /\ At("cancels") /\ cancel = "pending" /\ Live(runner)
  /\ \E cleaned \in {"yes", "no"} :
       /\ runner' = Cancel(runner, cleaned)
       /\ world' = IF kind = "agent" /\ cleaned = "yes" THEN [world EXCEPT !.engine = "cancelled"]
                   ELSE IF kind \in {"verify", "command"} /\ cleaned = "yes"
                   THEN [world EXCEPT !.processes = 0,
                                      !.exit = IF kind = "command" THEN "signal" ELSE @]
                   ELSE world
  /\ Settle("delivered")
  /\ UNCHANGED <<durable, waiting, overdue, moves, crashes>>

CancelDelivered ==
  /\ At("delivered") /\ cancel' = "delivered" /\ Goto("later")
  /\ UNCHANGED <<complete, kind, ordinal, row, operation, dispatch, later, observed, runner,
                 waiting, env>>

(* without a live runner the attempt is marked for recovery whatever it was *)
CancelLost ==
  /\ At("cancels") /\ cancel = "pending" /\ row.phase # "none" /\ ~Live(runner)
  /\ Lost /\ cancel' = "delivered" /\ observed' = observed \cup {"cancelled"}
  /\ Goto("later")
  /\ UNCHANGED <<complete, kind, ordinal, operation, dispatch, later, runner, waiting, env>>

DriveLater ==
  /\ At("later") /\ later' = "driven" /\ Goto("idle")
  /\ UNCHANGED <<complete, kind, ordinal, row, operation, dispatch, cancel, observed, runner,
                 waiting, env>>

(* schedulePoll *)
Poll ==
  /\ At("idle") /\ Goto("reconcile")
  /\ UNCHANGED <<durable, runner, waiting, env>>

-----------------------------------------------------------------------------
(* answerApproval.  The inbox lists the gate while nobody has answered; the   *)
(* answer is stored first, then given to the runner, which refuses it once it  *)
(* has timed out or was cancelled.                                           *)

Inbox == kind = "approval" /\ operation.phase = "waiting" /\ operation.answer = "none"

RecordAnswer(decision) ==
  /\ Inbox /\ pc \in {"idle", "provision"} /\ settling = "no" /\ ~answering /\ Live(runner)
  /\ operation' = [operation EXCEPT !.answer = decision]
  /\ answering' = TRUE
  /\ UNCHANGED <<complete, kind, ordinal, row, dispatch, cancel, later, observed,
                 runner, waiting, pc, back, settling, env>>

AnswerRefused ==
  /\ answering /\ settling = "no" /\ (runner.timedOut \/ runner.cancelled)
  /\ answering' = FALSE
  /\ UNCHANGED <<durable, runner, waiting, pc, back, settling, env>>

AnswerRunner ==
  /\ answering /\ settling = "no" /\ ~runner.timedOut /\ ~runner.cancelled
  /\ runner' = Answer(runner, operation.answer)
  /\ waiting' = FALSE
  /\ UpdateAttempt("collect", row.recovery)
  /\ settling' = "operation"
  /\ UNCHANGED <<complete, kind, ordinal, operation, dispatch, cancel, later, observed,
                 pc, back, answering, env>>

-----------------------------------------------------------------------------
(* the work of the runner, and what happens outside the daemon *)

Alive == Live(runner) /\ pc # "down"

IntegrationWork ==
  /\ Alive /\ kind = "integration" /\ runner.work \in {"begin", "merge", "swap"}
  /\ runner' = IntegrationStep(runner, world)[1] /\ world' = IntegrationStep(runner, world)[2]
  /\ UNCHANGED <<durable, waiting, pc, back, settling, answering, overdue, moves, crashes>>

PublishWork ==
  /\ Alive /\ kind = "publish" /\ runner.work \in {"begin", "create", "ready"}
  /\ runner' = PublishStep(runner, world)[1] /\ world' = PublishStep(runner, world)[2]
  /\ UNCHANGED <<durable, waiting, pc, back, settling, answering, overdue, moves, crashes>>

(* A call to the forge fails, a creation perhaps after it took effect. *)
ForgeFault ==
  /\ Alive /\ kind = "publish" /\ runner.work \in {"begin", "create", "ready"}
  /\ moves < MaxMoves /\ moves' = moves + 1
  /\ runner' = ForgeFails(runner)
  /\ \/ UNCHANGED world
     \/ runner.work = "create" /\ world' = CreatePullRequest(runner, world)[2]
  /\ UNCHANGED <<durable, waiting, pc, back, settling, answering, overdue, crashes>>

VerifyWork ==
  /\ Alive /\ kind = "verify" /\ runner.work \in {"begin", "check"}
  /\ \/ /\ runner.work = "begin"
        /\ IF runner.cancelled THEN runner' = Finished(runner, "cancelled") /\ UNCHANGED world
           ELSE runner' = SpawnCheck(runner, world)[1] /\ world' = SpawnCheck(runner, world)[2]
     \/ /\ runner.work = "check"
        /\ \E satisfied \in BOOLEAN :
             LET step == CheckExits(runner, world, satisfied, Required) IN
             runner' = step[1] /\ world' = step[2]
  /\ UNCHANGED <<durable, waiting, pc, back, settling, answering, overdue, moves, crashes>>

CommandExits ==
  /\ kind = "command" /\ world.processes = 1
  /\ \E exit \in {"zero", "nonzero", "signal"} :
       world' = [world EXCEPT !.processes = 0, !.exit = exit]
  /\ UNCHANGED <<durable, memory, overdue, moves, crashes>>

EngineMoves ==
  /\ kind = "agent" /\ world.engine \in {"running", "waiting_on_user"}
  /\ \E status \in {"running", "waiting_on_user", "succeeded", "failed", "recovery_required"} :
       /\ status # world.engine
       /\ status = "waiting_on_user" => moves < MaxMoves
       /\ moves' = IF status = "waiting_on_user" THEN moves + 1 ELSE moves
       /\ world' = [world EXCEPT !.engine = status]
  /\ UNCHANGED <<durable, memory, overdue, crashes>>

(* others push to the branches *)
OthersPush ==
  /\ moves < MaxMoves /\ moves' = moves + 1
  /\ \/ kind = "integration" /\ world.target # "other" /\ world' = [world EXCEPT !.target = "other"]
     \/ kind = "integration" /\ world.source = "expected" /\ world' = [world EXCEPT !.source = "moved"]
     \/ kind = "publish" /\ world.head = "expected" /\
          world' = [world EXCEPT !.head = "moved", !.pulls = [i \in DOMAIN @ |-> "moved"]]
  /\ UNCHANGED <<durable, memory, overdue, crashes>>

DeadlinePasses ==
  /\ ~overdue /\ overdue' = TRUE
  /\ UNCHANGED <<durable, memory, world, moves, crashes>>

(* the scheduler's tick emits a cancel intent for an attempt in flight *)
RequestCancel ==
  /\ cancel = "none" /\ row.phase \notin {"none"} \cup Ended /\ cancel' = "pending"
  /\ UNCHANGED <<complete, kind, ordinal, row, operation, dispatch, later, observed, memory, env>>

(* another stage, of this or of another pipeline, becomes ready *)
CreateIntent ==
  /\ later = "driven" /\ later' = "pending"
  /\ UNCHANGED <<complete, kind, ordinal, row, operation, dispatch, cancel, observed, memory, env>>

(* The scheduler answers a retryable failure with a new attempt: new rows, the *)
(* same publication.                                                         *)
NextAttempt ==
  /\ At("idle") /\ ordinal < MaxAttempts
  /\ kind = "publish" /\ row = [phase |-> "failed", recovery |-> "reconcile_forge"]
  /\ ordinal' = ordinal + 1
  /\ row' = [phase |-> "none", recovery |-> "none"]
  /\ operation' = NoOperation
  /\ dispatch' = "pending" /\ cancel' = "none" /\ observed' = {}
  /\ UNCHANGED <<complete, kind, later, memory, env>>

-----------------------------------------------------------------------------
Reconciles == SkipSettled \/ LoseHandle \/ Reconstruct \/ ReconcileWaiting
Dispatches == Claim \/ RefuseOperation \/ Prepare \/ StartRunner
Settles == Running \/ MarkWaiting \/ StaleRevision \/ GiveUp \/ Collect \/ SettleOperation
             \/ FinalizeAttempt
Drains == NoDispatch \/ NoCancel \/ CancelRunner \/ CancelDelivered \/ CancelLost \/ DriveLater
Answers == (\E decision \in {"approve", "reject"} : RecordAnswer(decision))
             \/ AnswerRefused \/ AnswerRunner
Works == IntegrationWork \/ PublishWork \/ VerifyWork

(* the service's loop *)
Service == Restart \/ Reconciles \/ Dispatches \/ Settles \/ Drains \/ Poll \/ AnswerRefused \/ AnswerRunner

Next ==
  \/ Restart \/ Reconciles \/ Dispatches \/ Settles \/ Drains \/ Poll
  \/ Answers \/ Works \/ CommandExits \/ EngineMoves
  \/ Crash \/ ForgeFault \/ OthersPush \/ DeadlinePasses
  \/ RequestCancel \/ CreateIntent \/ NextAttempt

Spec == Init /\ [][Next]_vars

(* The timer polls again after every reconcile, the loop goes on, the daemon  *)
(* is restarted, and git, the forge and the child processes answer.           *)
Fairness == WF_vars(Service) /\ WF_vars(Works) /\ WF_vars(CommandExits)
FairSpec == Spec /\ Fairness

-----------------------------------------------------------------------------
(* What a stage does outside the daemon it does once, and a stage that is         *)
(* reported as succeeded has done it.  An integration moves its target at most     *)
(* once and never over a push of someone else, whatever crash, deadline or cancel  *)
(* fell between its read of the refs and its compare-and-swap (runIntegration); a   *)
(* publication, however often it is rebuilt or retried, makes at most one pull      *)
(* request and adopts the one that a lost acknowledgement or a crash left behind    *)
(* (runPublish).  A success has had a stored approval, the source on its target, a   *)
(* pull request, every required check, or a backend that succeeded behind it.       *)
EffectsHappenOnce ==
  /\ world.swaps <= 1 /\ ~world.lost /\ world.created <= 1
  /\ row.phase = "succeeded" =>
       CASE kind = "approval" -> operation.answer = "approve"
         [] kind = "integration" -> world.swaps = 1 \/ world.merge = "contained"
         [] kind = "publish" -> world.pulls # <<>>
         [] kind = "verify" -> world.passed >= Required
         [] kind = "command" -> world.exit # "nonzero"
         [] kind = "agent" -> world.engine = "succeeded"

(* A stored answer decides: a gate whose approval is stored and whose stage can  *)
(* meet its requirements succeeds in the end, although the deadline may pass,    *)
(* or the daemon crash, before the runner in memory has applied the answer, and  *)
(* although a runner that timed out refuses it (answerApproval, reconcile).      *)
StoredAnswerDecides ==
  operation.answer = "approve" ~> (row.phase = "succeeded" \/ ~complete \/ cancel # "none")

(* The rows of an attempt settle together: a settled attempt has a settled     *)
(* operation of the same outcome and no dispatch intent to be driven again.     *)
SettledTogether ==
  row.phase \in Ended =>
    /\ dispatch = "delivered"
    /\ kind \in OperationKinds =>
         operation.phase = (IF row.phase = "succeeded" THEN "completed" ELSE row.phase)

(* An integration, a verification or a publication that has started settles, or *)
(* asks for recovery, unless its deadline passes.                             *)
OperationSettles ==
  (kind \in WorkKinds /\ row.phase = "observe")
    ~> (row.phase \in Ended \cup {"recovery_required"} \/ overdue)

=============================================================================
