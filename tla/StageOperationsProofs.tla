------------------------ MODULE StageOperationsProofs ------------------------
(***************************************************************************)
(* Proofs about the attempt of a fixed stage: what a stage does outside    *)
(* the daemon it does once, a success has its evidence behind it, and the  *)
(* rows of an attempt settle together.  They hold for any number of        *)
(* crashes, attempts, required checks and changes from outside.            *)
(***************************************************************************)
EXTENDS StageOperations, TLAPS, SequenceTheorems

(* What the head of a pull request may be. *)
Heads == {"expected", "moved"}

(* The runner in memory. *)
RunnerShaped(k, r) ==
  /\ DOMAIN r = {"kind", "timedOut", "cancelled", "decision", "answerStatus", "work", "result",
                 "checks", "cleaned", "recovery"}
  /\ r.kind = k /\ r.timedOut \in BOOLEAN /\ r.cancelled \in BOOLEAN /\ r.checks \in Nat

(* What the runner believes has happened, against the world w and the stored  *)
(* answer a.                                                                  *)
Backed(k, r, w, a) ==
  /\ k = "approval" => r.decision = "none" \/ r.decision = a
  /\ k = "integration" =>
       /\ r.work = "done" /\ r.result = "none" => w.swaps = 1
       /\ r.result = "already_applied" => w.merge = "contained"
       /\ r.work \in {"begin", "merge", "swap"} => r.result = "none"
  /\ k = "publish" =>
       /\ r.result \in {"created", "adopted"} => w.pulls # <<>>
       /\ r.work = "create" => w.pulls = <<>>
       /\ r.work \in {"begin", "create"} => r.result = "none"
  /\ k = "verify" =>
       /\ r.result = "passed" => r.work = "done" /\ w.passed >= Required
       /\ r.work = "check" => w.passed = r.checks
       /\ r.work = "begin" => r.checks = 0 \/ w.passed = r.checks
  /\ k = "agent" => (r.result = "succeeded" => w.engine = "succeeded" \/ r.cancelled)

(* The world: a target that was moved is not where it was expected, and a     *)
(* publication makes a pull request only when it found none.                  *)
WorldOk(k, w) ==
  /\ DOMAIN w = {"source", "target", "merge", "swaps", "lost", "head", "pulls", "created",
                 "processes", "passed", "exit", "prior", "engine"}
  /\ w.swaps \in Nat /\ w.created \in Nat /\ w.passed \in Nat /\ w.pulls \in Seq(Heads)
  /\ w.head \in Heads /\ w.merge \in {"clean", "conflict", "contained"}
  /\ w.swaps <= 1 /\ (w.target = "expected" => w.swaps = 0) /\ w.lost = FALSE
  /\ w.created <= 1 /\ (w.pulls = <<>> => w.created = 0)
  /\ k = "command" => (w.exit # "none" => w.processes = 0)

(* What stands behind a success of the stage. *)
Evidence(k, w, a) ==
  /\ k = "approval" => a = "approve"
  /\ k = "integration" => w.swaps = 1 \/ w.merge = "contained"
  /\ k = "publish" => w.pulls # <<>>
  /\ k = "verify" => w.passed >= Required
  /\ k = "command" => w.exit \notin {"none", "nonzero"}
  /\ k = "agent" => w.engine = "succeeded"

RowsShaped ==
  /\ kind \in Kinds /\ kind # "none" /\ complete \in BOOLEAN /\ answering \in BOOLEAN
  /\ overdue \in BOOLEAN
  /\ DOMAIN operation = {"phase", "answer"}

(* Where the service's loop is, and what it has in memory there. *)
PlaceOk ==
  /\ runner = NoRunner \/ RunnerShaped(kind, runner)
  /\ pc \in {"start", "settle", "loop"} => RunnerShaped(kind, runner)
  /\ pc = "start" => runner = Prepared(kind)
  /\ pc \in {"settle", "loop"} => back \in {"drain", "cancels", "delivered"}
  /\ settling \in {"no", "operation", "finalize"}
  /\ settling = "operation" => kind \in OperationKinds
  /\ settling # "no" => RunnerShaped(kind, runner) /\ (answering \/ pc \in {"settle", "loop"})
  /\ answering => RunnerShaped(kind, runner) /\ kind = "approval" /\ pc \in {"idle", "provision"}
  /\ runner # NoRunner => Backed(kind, runner, world, operation.answer)

(* Between the operation row and the attempt's row the outcome cannot change. *)
SettlingOk ==
  settling = "finalize" =>
    /\ kind \in OperationKinds =>
         operation.phase = OperationPhase(Outcome(runner, world, complete))
    /\ kind \in WorkKinds => runner.work = "done"
    /\ kind = "command" => world.exit # "none" \/ runner.timedOut \/ runner.cancelled

(* A settled attempt has no runner, no intent and the operation it settled with. *)
EndedOk ==
  row.phase \in Ended =>
    /\ runner = NoRunner /\ dispatch = "delivered"
    /\ kind \in OperationKinds => operation.phase = OperationPhase(row.phase)
    /\ row.phase = "succeeded" => Evidence(kind, world, operation.answer)

StageInv == RowsShaped /\ PlaceOk /\ WorldOk(kind, world) /\ SettlingOk /\ EndedOk

-----------------------------------------------------------------------------
(* The calls of the runner surface keep what the runner believes true.      *)

LEMMA KindsAre ==
  ASSUME RowsShaped
  PROVE  kind \in {"approval", "integration", "verify", "publish", "command", "agent"}
  BY StageAssumption DEF RowsShaped

LEMMA ShapedIsLive == ASSUME RowsShaped, NEW r, RunnerShaped(kind, r) PROVE r # NoRunner /\ Live(r)
  BY DEF RowsShaped, RunnerShaped, NoRunner, Live

LEMMA LiveIsShaped ==
  ASSUME StageInv, Live(runner)
  PROVE  RunnerShaped(kind, runner) /\ Backed(kind, runner, world, operation.answer)
  BY DEF StageInv, PlaceOk, Live, NoRunner

LEMMA PreparedOk ==
  ASSUME RowsShaped, NEW w, NEW a
  PROVE  /\ RunnerShaped(kind, Prepared(kind)) /\ Backed(kind, Prepared(kind), w, a)
         /\ RunnerShaped(kind, Started(Prepared(kind))) /\ Backed(kind, Started(Prepared(kind)), w, a)
  <1>1. RunnerShaped(kind, Prepared(kind)) /\ RunnerShaped(kind, Started(Prepared(kind)))
    BY KindsAre DEF RunnerShaped, Prepared, Fresh, Gate, Started, WorkKinds
  <1>2. Backed(kind, Prepared(kind), w, a)
    BY KindsAre DEF Backed, Prepared, Fresh, Gate
  <1>3. Backed(kind, Started(Prepared(kind)), w, a)
    BY KindsAre DEF Backed, Prepared, Fresh, Gate, Started, WorkKinds
  <1> QED
    BY <1>1, <1>2, <1>3

LEMMA AnswerOk ==
  ASSUME RowsShaped, NEW r, NEW w, NEW a, RunnerShaped(kind, r), Backed(kind, r, w, a)
  PROVE  RunnerShaped(kind, Answer(r, a)) /\ Backed(kind, Answer(r, a), w, a)
  BY DEF RunnerShaped, Backed, Answer

Ending == {"terminal", "timed_out", "exited"}

(* An observation changes the runner's flags, an agent's result to what the    *)
(* backend says, and ends a verification past its deadline.                    *)
LEMMA ObserveOk ==
  ASSUME RowsShaped, NEW r, NEW w, NEW a, RunnerShaped(kind, r), Backed(kind, r, w, a), NEW due \in BOOLEAN,
         NEW cleaned \in {"yes", "no"}
  PROVE  LET o == Observe(r, due, cleaned, w)
         IN /\ RunnerShaped(kind, o.runner) /\ Backed(kind, o.runner, w, a)
            /\ kind = "command" /\ o.status \in Ending => w.exit # "none" \/ o.runner.timedOut
  <1>1. CASE kind = "approval"
    BY <1>1 DEF Observe, ObserveApproval, Saw, TimedOut, RunnerShaped, Backed, WorkKinds
  <1>2. CASE kind \in {"integration", "publish"}
    <2>1. Observe(r, due, cleaned, w) = ObserveWork(r, due)
      BY <1>2 DEF Observe, RunnerShaped
    <2>2. CASE r.work # "done" /\ due /\ ~r.timedOut
      <3> DEFINE n == [r EXCEPT !.timedOut = TRUE, !.cleaned = "yes",
                                !.cancelled = r.kind \in WorkKinds \/ @, !.recovery = @]
      <3>1. ObserveWork(r, due).runner = n
        BY <1>2, <2>2 DEF ObserveWork, TimedOut, Saw, RunnerShaped
      <3>2. RunnerShaped(kind, n) /\ n.work = r.work /\ n.result = r.result
        BY <1>2 DEF RunnerShaped, WorkKinds
      <3> HIDE DEF n
      <3> QED
        BY <1>2, <2>1, <3>1, <3>2 DEF Backed
    <2>3. CASE ~(r.work # "done" /\ due /\ ~r.timedOut)
      BY <1>2, <2>1, <2>3 DEF ObserveWork, Saw
    <2> QED
      BY <2>2, <2>3
  <1>3. CASE kind = "verify"
    BY <1>3 DEF Observe, ObserveVerify, Saw, TimedOut, RunnerShaped, Backed, WorkKinds, Finished
  <1>4. CASE kind = "command"
    BY <1>4 DEF Observe, ObserveCommand, Saw, TimedOut, RunnerShaped, Backed, WorkKinds, Ending
  <1>5. CASE kind = "agent"
    BY <1>5 DEF Observe, ObserveAgent, Saw, TimedOut, RunnerShaped, Backed, WorkKinds
  <1> QED
    BY <1>1, <1>2, <1>3, <1>4, <1>5, KindsAre

(* Reaping a process changes nothing that a runner believes. *)
LEMMA ReapedOk ==
  ASSUME RowsShaped, WorldOk(kind, world), NEW r, NEW a, Backed(kind, r, world, a), NEW o
  PROVE  /\ WorldOk(kind, Reaped(o)) /\ Backed(kind, r, Reaped(o), a)
         /\ kind = "command" => (world.exit # "none" => Reaped(o).exit # "none")
  BY DEF WorldOk, Backed, Reaped

LEMMA CancelOk ==
  ASSUME RowsShaped, NEW r, NEW w, NEW a, RunnerShaped(kind, r), Backed(kind, r, w, a),
         NEW cleaned \in {"yes", "no"}
  PROVE  RunnerShaped(kind, Cancel(r, cleaned)) /\ Backed(kind, Cancel(r, cleaned), w, a)
         /\ Cancel(r, cleaned).cancelled
  <1>1. CASE kind = "approval"
    BY <1>1 DEF Cancel, CancelApproval, RunnerShaped, Backed
  <1>2. CASE kind \in {"integration", "publish"}
    BY <1>2 DEF Cancel, CancelWork, RunnerShaped, Backed
  <1>3. CASE kind = "verify"
    BY <1>3 DEF Cancel, CancelVerify, CancelCommand, Finished, RunnerShaped, Backed
  <1>4. CASE kind = "command"
    BY <1>4 DEF Cancel, CancelCommand, RunnerShaped, Backed
  <1>5. CASE kind = "agent"
    BY <1>5 DEF Cancel, CancelAgent, RunnerShaped, Backed
  <1> QED
    BY <1>1, <1>2, <1>3, <1>4, <1>5, KindsAre

(* runIntegration moves the target only from where it was expected. *)
LEMMA IntegrationStepOk ==
  ASSUME RowsShaped, NEW r, NEW w, NEW a, RunnerShaped(kind, r), Backed(kind, r, w, a), WorldOk(kind, w),
         kind = "integration", r.work \in {"begin", "merge", "swap"}
  PROVE  LET s == IntegrationStep(r, w)
         IN RunnerShaped(kind, s[1]) /\ Backed(kind, s[1], s[2], a) /\ WorldOk(kind, s[2])
  <1>1. CASE r.work = "begin"
    BY <1>1 DEF IntegrationStep, ReadRefs, Finished, RunnerShaped, Backed, WorldOk
  <1>2. CASE r.work = "merge"
    BY <1>2 DEF IntegrationStep, PrepareMerge, Finished, RunnerShaped, Backed, WorldOk
  <1>3. CASE r.work = "swap"
    BY <1>3 DEF IntegrationStep, UpdateRef, Finished, RunnerShaped, Backed, WorldOk
  <1> QED
    BY <1>1, <1>2, <1>3

LEMMA CreateOk ==
  ASSUME RowsShaped, NEW r, NEW w, WorldOk(kind, w), w.pulls = <<>>, kind = "publish"
  PROVE  LET u == CreatePullRequest(r, w)[2] IN WorldOk(kind, u) /\ u.pulls # <<>>
  <1>1. Append(w.pulls, w.head) \in Seq(Heads) /\ Append(w.pulls, w.head) # <<>>
    BY DEF WorldOk
  <1>2. CreatePullRequest(r, w)[2] =
          [w EXCEPT !.pulls = Append(w.pulls, w.head), !.created = w.created + 1]
    BY DEF CreatePullRequest, WorldOk
  <1>3. w.created = 0
    BY DEF WorldOk
  <1> HIDE DEF WorldOk
  <1>4. WorldOk(kind, [w EXCEPT !.pulls = Append(w.pulls, w.head), !.created = w.created + 1])
    BY <1>1, <1>3 DEF WorldOk
  <1> QED
    BY <1>1, <1>2, <1>4 DEF WorldOk

(* runPublish makes a pull request only where it found none. *)
LEMMA PublishStepOk ==
  ASSUME RowsShaped, NEW r, NEW w, NEW a, RunnerShaped(kind, r), Backed(kind, r, w, a), WorldOk(kind, w),
         kind = "publish", r.work \in {"begin", "create", "ready"}
  PROVE  LET s == PublishStep(r, w)
         IN RunnerShaped(kind, s[1]) /\ Backed(kind, s[1], s[2], a) /\ WorldOk(kind, s[2])
  <1>1. CASE r.work = "begin"
    BY <1>1 DEF PublishStep, FindPullRequests, Finished, RunnerShaped, Backed
  <1>2. CASE r.work = "create"
    <2>1. PublishStep(r, w) = CreatePullRequest(r, w) /\ w.pulls = <<>>
      BY <1>2 DEF PublishStep, Backed
    <2>2. WorldOk(kind, CreatePullRequest(r, w)[2]) /\ CreatePullRequest(r, w)[2].pulls # <<>>
      BY <2>1, CreateOk
    <2>3. RunnerShaped(kind, CreatePullRequest(r, w)[1])
      BY DEF CreatePullRequest, Finished, RunnerShaped
    <2>4. /\ CreatePullRequest(r, w)[1].result \in {"cancelled", "created"}
          /\ CreatePullRequest(r, w)[1].work \in {"done", "ready"}
      BY DEF CreatePullRequest, Finished, RunnerShaped
    <2>5. Backed(kind, CreatePullRequest(r, w)[1], CreatePullRequest(r, w)[2], a)
      BY <2>2, <2>4 DEF Backed
    <2> QED
      BY <2>1, <2>2, <2>3, <2>5
  <1>3. CASE r.work = "ready"
    BY <1>3 DEF PublishStep, RunnerShaped, Backed
  <1> QED
    BY <1>1, <1>2, <1>3

LEMMA SpawnCheckOk ==
  ASSUME RowsShaped, NEW r, NEW w, NEW a, RunnerShaped(kind, r), Backed(kind, r, w, a), WorldOk(kind, w),
         kind = "verify", r.work = "begin"
  PROVE  LET s == SpawnCheck(r, w)
         IN RunnerShaped(kind, s[1]) /\ Backed(kind, s[1], s[2], a) /\ WorldOk(kind, s[2])
  BY DEF SpawnCheck, Spawned, RunnerShaped, Backed, WorldOk

LEMMA CheckExitsOk ==
  ASSUME RowsShaped, NEW r, NEW w, NEW a, RunnerShaped(kind, r), Backed(kind, r, w, a), WorldOk(kind, w),
         kind = "verify", r.work = "check", NEW satisfied \in BOOLEAN
  PROVE  LET s == CheckExits(r, w, satisfied, Required)
         IN RunnerShaped(kind, s[1]) /\ Backed(kind, s[1], s[2], a) /\ WorldOk(kind, s[2])
  <1> DEFINE s == CheckExits(r, w, satisfied, Required)
  <1>1. s[2] = [w EXCEPT !.processes = 0, !.passed = IF satisfied THEN w.passed + 1 ELSE w.passed]
    BY DEF CheckExits, WorldOk
  <1>2. \/ \E x \in {"cancelled", "failed", "passed"} :
             s[1] = Finished(r, x) /\ (x = "passed" => satisfied /\ r.checks + 1 = Required)
        \/ s[1] = [r EXCEPT !.work = "begin", !.checks = r.checks + 1] /\ satisfied
    BY DEF CheckExits
  <1> HIDE DEF s
  <1>3. WorldOk(kind, s[2]) /\ s[2].passed \in Nat /\ (satisfied => s[2].passed = r.checks + 1)
    BY <1>1 DEF WorldOk, Backed
  <1>4. CASE \E x \in {"cancelled", "failed", "passed"} :
               s[1] = Finished(r, x) /\ (x = "passed" => satisfied /\ r.checks + 1 = Required)
    <2>1. PICK x \in {"cancelled", "failed", "passed"} :
            s[1] = Finished(r, x) /\ (x = "passed" => satisfied /\ r.checks + 1 = Required)
      BY <1>4
    <2>2. RunnerShaped(kind, Finished(r, x)) /\ Finished(r, x).work = "done" /\ Finished(r, x).result = x
      BY DEF RunnerShaped, Finished
    <2>3. Backed(kind, s[1], s[2], a)
      BY <1>3, <2>1, <2>2, StageAssumption DEF Backed
    <2> QED
      BY <1>3, <2>1, <2>2, <2>3 DEF s
  <1>5. CASE s[1] = [r EXCEPT !.work = "begin", !.checks = r.checks + 1] /\ satisfied
    <2>1. /\ RunnerShaped(kind, s[1]) /\ s[1].work = "begin" /\ s[1].checks = r.checks + 1
          /\ s[1].result = r.result
      BY <1>5 DEF RunnerShaped
    <2>2. Backed(kind, s[1], s[2], a)
      BY <1>3, <1>5, <2>1 DEF Backed
    <2> QED
      BY <1>3, <2>1, <2>2 DEF s
  <1> QED
    BY <1>2, <1>4, <1>5

(* A success that is about to be recorded has its evidence. *)
LEMMA SuccessHasEvidence ==
  ASSUME StageInv, settling = "finalize", Outcome(runner, world, complete) = "succeeded"
  PROVE  Evidence(kind, world, operation.answer)
  <1>1. /\ Effective(runner, world) /\ ~runner.cancelled /\ ~runner.timedOut
        /\ RunnerShaped(kind, runner) /\ RowsShaped /\ runner # NoRunner
    BY ShapedIsLive DEF Outcome, StageInv, PlaceOk
  <1>2. Backed(kind, runner, world, operation.answer)
    BY <1>1 DEF StageInv, PlaceOk
  <1>3. CASE kind \in {"approval", "integration"}
    BY <1>1, <1>2, <1>3
    DEF StageInv, SettlingOk, Evidence, Effective, ApprovalGranted, Integrated, RunnerShaped,
    Backed, WorkKinds
  <1>4. CASE kind \in {"verify", "publish"}
    BY <1>1, <1>2, <1>4 DEF Evidence, Effective, ChecksPassed, Published, RunnerShaped, Backed
  <1>5. CASE kind \in {"command", "agent"}
    BY <1>1, <1>2, <1>5
    DEF StageInv, SettlingOk, Evidence, Effective, CommandPassed, AgentSucceeded, RunnerShaped,
    Backed
  <1> QED
    BY <1>1, <1>3, <1>4, <1>5, KindsAre


LEMMA RestartKeeps == ASSUME StageInv, Restart PROVE StageInv'
  BY DEF Restart, StageInv, RowsShaped, PlaceOk, SettlingOk, EndedOk, durable, memory, env

LEMMA SkipSettledKeeps == ASSUME StageInv, SkipSettled PROVE StageInv'
  BY DEF SkipSettled, StageInv, RowsShaped, PlaceOk, SettlingOk, EndedOk, durable, memory, env,
    At, Goto

LEMMA LoseHandleKeeps == ASSUME StageInv, LoseHandle PROVE StageInv'
  BY DEF LoseHandle, StageInv, RowsShaped, PlaceOk, SettlingOk, EndedOk, durable, memory, env, At,
    Goto, Lost, UpdateAttempt, Ended, Live

LEMMA ClaimKeeps == ASSUME StageInv, Claim PROVE StageInv'
  BY DEF Claim, StageInv, RowsShaped, PlaceOk, SettlingOk, EndedOk, durable, memory, env, At,
    Goto, Ended

LEMMA RefuseOperationKeeps == ASSUME StageInv, RefuseOperation PROVE StageInv'
  BY DEF RefuseOperation, StageInv, RowsShaped, PlaceOk, SettlingOk, EndedOk, durable, memory,
    env, At, Die

LEMMA NoDispatchKeeps == ASSUME StageInv, NoDispatch PROVE StageInv'
  BY DEF NoDispatch, StageInv, RowsShaped, PlaceOk, SettlingOk, EndedOk, durable, memory, env, At,
    Goto

LEMMA NoCancelKeeps == ASSUME StageInv, NoCancel PROVE StageInv'
  BY DEF NoCancel, StageInv, RowsShaped, PlaceOk, SettlingOk, EndedOk, durable, memory, env, At,
    Goto

LEMMA CancelDeliveredKeeps == ASSUME StageInv, CancelDelivered PROVE StageInv'
  BY DEF CancelDelivered, StageInv, RowsShaped, PlaceOk, SettlingOk, EndedOk, durable, memory,
    env, At, Goto

LEMMA CancelLostKeeps == ASSUME StageInv, CancelLost PROVE StageInv'
  BY DEF CancelLost, StageInv, RowsShaped, PlaceOk, SettlingOk, EndedOk, durable, memory, env, At,
    Goto, Lost, UpdateAttempt, Ended, Live

LEMMA DriveLaterKeeps == ASSUME StageInv, DriveLater PROVE StageInv'
  BY DEF DriveLater, StageInv, RowsShaped, PlaceOk, SettlingOk, EndedOk, durable, memory, env, At,
    Goto

LEMMA PollKeeps == ASSUME StageInv, Poll PROVE StageInv'
  BY DEF Poll, StageInv, RowsShaped, PlaceOk, SettlingOk, EndedOk, durable, memory, env, At, Goto

LEMMA AnswerRefusedKeeps == ASSUME StageInv, AnswerRefused PROVE StageInv'
  BY DEF AnswerRefused, StageInv, RowsShaped, PlaceOk, SettlingOk, EndedOk, durable, memory, env

LEMMA CrashKeeps == ASSUME StageInv, Crash PROVE StageInv'
  BY DEF Crash, StageInv, RowsShaped, PlaceOk, SettlingOk, EndedOk, durable, memory, env, Die

LEMMA DeadlinePassesKeeps == ASSUME StageInv, DeadlinePasses PROVE StageInv'
  BY DEF DeadlinePasses, StageInv, RowsShaped, PlaceOk, SettlingOk, EndedOk, durable, memory, env

LEMMA RequestCancelKeeps == ASSUME StageInv, RequestCancel PROVE StageInv'
  BY DEF RequestCancel, StageInv, RowsShaped, PlaceOk, SettlingOk, EndedOk, durable, memory, env

LEMMA CreateIntentKeeps == ASSUME StageInv, CreateIntent PROVE StageInv'
  BY DEF CreateIntent, StageInv, RowsShaped, PlaceOk, SettlingOk, EndedOk, durable, memory, env

LEMMA NextAttemptKeeps == ASSUME StageInv, NextAttempt PROVE StageInv'
  BY DEF NextAttempt, StageInv, RowsShaped, PlaceOk, SettlingOk, EndedOk, durable, memory, env,
    At, NoOperation, Ended

(* A runner in memory belongs to an attempt that is not settled. *)
LEMMA LiveIsOpen ==
  ASSUME StageInv, Live(runner) \/ settling # "no" \/ pc \in {"settle", "loop", "start"}
  PROVE  /\ RunnerShaped(kind, runner) /\ row.phase \notin Ended
         /\ Backed(kind, runner, world, operation.answer)
  <1>1. RunnerShaped(kind, runner)
    BY LiveIsShaped DEF StageInv, PlaceOk
  <1>2. runner # NoRunner
    BY <1>1, ShapedIsLive DEF StageInv
  <1> QED
    BY <1>1, <1>2 DEF StageInv, PlaceOk, EndedOk

LEMMA ReconstructKeeps == ASSUME StageInv, Reconstruct PROVE StageInv'
  <1>1. RowsShaped
    BY DEF StageInv
  <1>2. /\ RunnerShaped(kind, Started(Prepared(kind)))
        /\ Backed(kind, Started(Prepared(kind)), world, operation.answer)
    BY <1>1, PreparedOk
  <1>3. RunnerShaped(kind, runner') /\ Backed(kind, runner', world, operation.answer)
    BY <1>1, <1>2, AnswerOk DEF Reconstruct, Replayed
  <1> QED
    BY <1>3 DEF Reconstruct, StageInv, RowsShaped, PlaceOk, SettlingOk, EndedOk, durable, memory,
       env,
    At, Settle, Open, Ended

LEMMA ReconcileWaitingKeeps == ASSUME StageInv, ReconcileWaiting PROVE StageInv'
  <1>1. PICK cleaned \in {"yes", "no"} :
          LET o == Observe(runner, overdue, cleaned, world) IN
          /\ runner' = o.runner
          /\ IF o.status = "waiting" THEN Goto("drain") ELSE Settle("drain")
    BY DEF ReconcileWaiting
  <1> DEFINE o == Observe(runner, overdue, cleaned, world)
  <1>2. /\ runner' = o.runner
        /\ Goto("drain") \/ Settle("drain")
    BY <1>1
  <1>3. RunnerShaped(kind, runner) /\ Backed(kind, runner, world, operation.answer)
    BY LiveIsOpen DEF ReconcileWaiting
  <1>4. RunnerShaped(kind, o.runner) /\ Backed(kind, o.runner, world, operation.answer)
    BY <1>3, ObserveOk DEF StageInv, RowsShaped
  <1> HIDE DEF o
  <1> QED
    BY <1>2, <1>4 DEF ReconcileWaiting, StageInv, RowsShaped, PlaceOk, SettlingOk, EndedOk,
    durable, memory, env, At, Goto, Settle, Open, Ended

LEMMA PrepareKeeps == ASSUME StageInv, Prepare PROVE StageInv'
  <1>1. /\ RunnerShaped(kind, runner') /\ runner' = Prepared(kind)
        /\ Backed(kind, runner', world, operation'.answer)
    BY PreparedOk DEF Prepare, StageInv
  <1>2. DOMAIN operation' = {"phase", "answer"}
    BY KindsAre DEF Prepare, Requested, StageInv, RowsShaped, WorkKinds, OperationKinds
  <1> QED
    BY <1>1, <1>2 DEF Prepare, StageInv, RowsShaped, PlaceOk, SettlingOk, EndedOk, UpdateAttempt,
    durable, memory, env, At, Goto, Ended

LEMMA StartRunnerKeeps == ASSUME StageInv, StartRunner PROVE StageInv'
  <1>1. RowsShaped /\ WorldOk(kind, world) /\ runner = Prepared(kind) /\ RunnerShaped(kind, runner)
    BY LiveIsOpen DEF StartRunner, At, StageInv, PlaceOk
  <1>2. /\ RunnerShaped(kind, runner') /\ Backed(kind, runner', world', operation.answer)
        /\ WorldOk(kind, world')
    <2>1. CASE kind \in OperationKinds
      BY <1>1, <2>1, PreparedOk DEF StartRunner, Effects, OperationKinds
    <2>2. CASE kind = "command"
      <3>1. runner' = runner /\ world' = Spawned(world)
        BY <2>2 DEF StartRunner, Effects, OperationKinds
      <3> QED
        BY <1>1, <2>2, <3>1 DEF Spawned, Backed, WorldOk
    <2>3. CASE kind = "agent" /\ world.prior = "missing"
      <3>1. runner' = [runner EXCEPT !.result = "resume_failed"] /\ world' = world
        BY <2>3 DEF StartRunner, Effects, OperationKinds
      <3> QED
        BY <1>1, <2>3, <3>1 DEF RunnerShaped, Backed
    <2>4. CASE kind = "agent" /\ world.prior # "missing"
      <3>1. runner.result = "none"
        BY <1>1, <2>4 DEF Prepared, Fresh
      <3> QED
        BY <1>1, <2>4, <3>1 DEF StartRunner, Effects, RunnerShaped, Backed, WorldOk,
           OperationKinds
    <2> QED
      BY <1>1, <2>1, <2>2, <2>3, <2>4, KindsAre DEF OperationKinds
  <1> QED
    BY <1>2 DEF StartRunner, StageInv, RowsShaped, PlaceOk, SettlingOk, EndedOk, UpdateAttempt,
       At,
    Settle, Ended

(* What settleRunner observes. *)
LEMMA ObservedOk ==
  ASSUME StageInv, Observing, NEW cleaned \in {"yes", "no"}
  PROVE  LET o == Observe(runner, overdue, cleaned, world)
         IN /\ row.phase \notin Ended /\ RunnerShaped(kind, o.runner)
            /\ Backed(kind, o.runner, world, operation.answer)
            /\ WorldOk(kind, Reaped(o)) /\ Backed(kind, o.runner, Reaped(o), operation.answer)
            /\ kind = "command" /\ o.status \in Ending => Reaped(o).exit # "none" \/ o.runner.timedOut
  <1> DEFINE o == Observe(runner, overdue, cleaned, world)
  <1>1. /\ RunnerShaped(kind, runner) /\ Backed(kind, runner, world, operation.answer)
        /\ row.phase \notin Ended
    BY LiveIsOpen DEF Observing, At
  <1>2. /\ RunnerShaped(kind, o.runner) /\ Backed(kind, o.runner, world, operation.answer)
        /\ kind = "command" /\ o.status \in Ending => world.exit # "none" \/ o.runner.timedOut
    BY <1>1, ObserveOk DEF StageInv, RowsShaped
  <1> HIDE DEF o
  <1>3. /\ WorldOk(kind, Reaped(o)) /\ Backed(kind, o.runner, Reaped(o), operation.answer)
        /\ kind = "command" => (world.exit # "none" => Reaped(o).exit # "none")
    BY <1>2, ReapedOk DEF StageInv
  <1> QED
    BY <1>1, <1>2, <1>3 DEF o

LEMMA RunningKeeps == ASSUME StageInv, Running PROVE StageInv'
  <1>1. PICK cleaned \in {"yes", "no"} : runner' = Observe(runner, overdue, cleaned, world).runner
    BY DEF Running
  <1> DEFINE o == Observe(runner, overdue, cleaned, world)
  <1>2. /\ row.phase \notin Ended /\ RunnerShaped(kind, o.runner)
        /\ Backed(kind, o.runner, world, operation.answer)
    BY ObservedOk DEF Running
  <1> HIDE DEF o
  <1>3. runner' = o.runner
    BY <1>1 DEF o
  <1> QED
    BY <1>2, <1>3 DEF Running, StageInv, RowsShaped, PlaceOk, SettlingOk, EndedOk, Observing, At,
    durable, memory, env, Ended

LEMMA MarkWaitingKeeps == ASSUME StageInv, MarkWaiting PROVE StageInv'
  <1>1. PICK cleaned \in {"yes", "no"} : runner' = Observe(runner, overdue, cleaned, world).runner
    BY DEF MarkWaiting
  <1> DEFINE o == Observe(runner, overdue, cleaned, world)
  <1>2. RunnerShaped(kind, o.runner) /\ Backed(kind, o.runner, world, operation.answer)
    BY ObservedOk DEF MarkWaiting
  <1> HIDE DEF o
  <1>3. runner' = o.runner
    BY <1>1 DEF o
  <1> QED
    BY <1>2, <1>3 DEF MarkWaiting, StageInv, RowsShaped, PlaceOk, SettlingOk, EndedOk, Observing,
    At, Goto, UpdateAttempt, durable, memory, env, Ended

LEMMA StaleRevisionKeeps == ASSUME StageInv, StaleRevision PROVE StageInv'
  <1>1. PICK cleaned \in {"yes", "no"} : world' = Reaped(Observe(runner, overdue, cleaned, world))
    BY DEF StaleRevision
  <1>2. row.phase \notin Ended /\ WorldOk(kind, world')
    BY <1>1, ObservedOk DEF StaleRevision
  <1> QED
    BY <1>2 DEF StaleRevision, StageInv, RowsShaped, PlaceOk, SettlingOk, EndedOk, Die, durable,
    Ended

LEMMA GiveUpKeeps == ASSUME StageInv, GiveUp PROVE StageInv'
  BY DEF GiveUp, StageInv, RowsShaped, PlaceOk, SettlingOk, EndedOk, Observing, At, Goto, Lost,
  UpdateAttempt, durable, memory, env, Ended

LEMMA CollectKeeps == ASSUME StageInv, Collect PROVE StageInv'
  <1>1. PICK cleaned \in {"yes", "no"} :
          LET o == Observe(runner, overdue, cleaned, world)
          IN o.status \in Ending /\ runner' = o.runner /\ world' = Reaped(o)
    BY DEF Collect, Ending
  <1> DEFINE o == Observe(runner, overdue, cleaned, world)
  <1>2. /\ RunnerShaped(kind, o.runner) /\ WorldOk(kind, Reaped(o))
        /\ Backed(kind, o.runner, Reaped(o), operation.answer)
        /\ kind = "command" /\ o.status \in Ending => Reaped(o).exit # "none" \/ o.runner.timedOut
    BY ObservedOk DEF Collect
  <1>3. o.status \in Ending /\ runner' = o.runner /\ world' = Reaped(o)
    BY <1>1
  <1> HIDE DEF o
  <1>4. /\ RunnerShaped(kind, runner') /\ WorldOk(kind, world')
        /\ Backed(kind, runner', world', operation.answer)
        /\ kind = "command" => world'.exit # "none" \/ runner'.timedOut
    BY <1>2, <1>3
  <1> QED
    BY <1>4, KindsAre DEF Collect, StageInv, RowsShaped, PlaceOk, SettlingOk, EndedOk, Observing,
    At, UpdateAttempt, WorkKinds, OperationKinds, Ended

LEMMA SettleOperationKeeps == ASSUME StageInv, SettleOperation PROVE StageInv'
  <1>1. row.phase \notin Ended
    BY LiveIsOpen DEF SettleOperation
  <1>2. /\ operation'.phase = OperationPhase(Outcome(runner, world, complete))
        /\ operation'.answer = operation.answer /\ DOMAIN operation' = {"phase", "answer"}
    BY DEF SettleOperation, StageInv, RowsShaped
  <1> QED
    BY <1>1, <1>2 DEF SettleOperation, StageInv, RowsShaped, PlaceOk, SettlingOk, EndedOk, env,
    OperationKinds, Ended

LEMMA FinalizeAttemptKeeps == ASSUME StageInv, FinalizeAttempt PROVE StageInv'
  <1> DEFINE outcome == Outcome(runner, world, complete)
  <1>1. outcome = "succeeded" => Evidence(kind, world, operation.answer)
    BY SuccessHasEvidence DEF FinalizeAttempt
  <1>2. kind \in OperationKinds => operation.phase = OperationPhase(outcome)
    BY DEF FinalizeAttempt, StageInv, SettlingOk
  <1>3. row'.phase = outcome
    BY DEF FinalizeAttempt
  <1> HIDE DEF outcome
  <1> QED
    BY <1>1, <1>2, <1>3 DEF FinalizeAttempt, StageInv, RowsShaped, PlaceOk, SettlingOk, EndedOk,
       env

LEMMA CancelRunnerKeeps == ASSUME StageInv, CancelRunner PROVE StageInv'
  <1>1. /\ RunnerShaped(kind, runner) /\ row.phase \notin Ended
        /\ Backed(kind, runner, world, operation.answer)
    BY LiveIsOpen DEF CancelRunner
  <1>2. /\ RunnerShaped(kind, runner') /\ Backed(kind, runner', world, operation.answer)
        /\ runner'.cancelled
    BY <1>1, CancelOk DEF CancelRunner, StageInv
  <1>3. CASE kind = "agent"
    <2>1. WorldOk(kind, world') /\ Backed(kind, runner', world', operation.answer)
      BY <1>2, <1>3 DEF CancelRunner, StageInv, WorldOk, Backed
    <2> QED
      BY <1>1, <1>2, <2>1 DEF CancelRunner, StageInv, RowsShaped, PlaceOk, SettlingOk, EndedOk,
      durable, At, Settle, Ended
  <1>4. CASE kind \in {"verify", "command"}
    <2>1. WorldOk(kind, world') /\ Backed(kind, runner', world', operation.answer)
      BY <1>2, <1>4 DEF CancelRunner, StageInv, WorldOk, Backed
    <2> QED
      BY <1>1, <1>2, <2>1 DEF CancelRunner, StageInv, RowsShaped, PlaceOk, SettlingOk, EndedOk,
      durable, At, Settle, Ended
  <1>5. CASE kind \notin {"agent", "verify", "command"}
    <2>1. world' = world
      BY <1>5 DEF CancelRunner
    <2> QED
      BY <1>1, <1>2, <2>1 DEF CancelRunner, StageInv, RowsShaped, PlaceOk, SettlingOk, EndedOk,
      durable, At, Settle, Ended
  <1> QED
    BY <1>3, <1>4, <1>5

LEMMA RecordAnswerKeeps ==
  ASSUME StageInv, NEW decision \in {"approve", "reject"}, RecordAnswer(decision)
  PROVE  StageInv'
  <1>1. /\ RunnerShaped(kind, runner) /\ row.phase \notin Ended
        /\ Backed(kind, runner, world, operation.answer)
    BY LiveIsOpen DEF RecordAnswer
  <1>2. /\ operation'.phase = operation.phase /\ operation'.answer = decision
        /\ DOMAIN operation' = {"phase", "answer"} /\ kind = "approval"
    BY DEF RecordAnswer, Inbox, StageInv, RowsShaped
  <1>3. Backed(kind, runner, world, decision)
    BY <1>1, <1>2 DEF RecordAnswer, Inbox, Backed
  <1> QED
    BY <1>1, <1>2, <1>3 DEF RecordAnswer, StageInv, RowsShaped, PlaceOk, SettlingOk, EndedOk, env,
    Ended

LEMMA AnswerRunnerKeeps == ASSUME StageInv, AnswerRunner PROVE StageInv'
  <1>1. /\ RunnerShaped(kind, runner) /\ kind = "approval" /\ runner # NoRunner /\ RowsShaped
        /\ Backed(kind, runner, world, operation.answer)
    BY ShapedIsLive DEF AnswerRunner, StageInv, PlaceOk
  <1>2. RunnerShaped(kind, runner') /\ Backed(kind, runner', world, operation.answer)
    BY <1>1, AnswerOk DEF AnswerRunner
  <1> QED
    BY <1>1, <1>2 DEF AnswerRunner, StageInv, RowsShaped, PlaceOk, SettlingOk, EndedOk, env,
       Ended,
    UpdateAttempt, OperationKinds

-----------------------------------------------------------------------------
(* A step of a runner's work is a step of a live runner that is not settling. *)

LEMMA WorkKeeps ==
  ASSUME StageInv, Alive, kind \in WorkKinds, runner.work \notin {"none", "done"},
         UNCHANGED <<durable, waiting, pc, back, settling, answering, overdue>>,
         RunnerShaped(kind, runner'), Backed(kind, runner', world', operation.answer),
         WorldOk(kind, world')
  PROVE  StageInv'
  <1>1. row.phase \notin Ended /\ kind # "approval" /\ kind # "command"
    BY LiveIsOpen DEF Alive, WorkKinds
  <1>2. pc # "start"
    BY <1>1 DEF StageInv, PlaceOk, Prepared, Fresh
  <1> QED
    BY <1>1, <1>2 DEF StageInv, RowsShaped, PlaceOk, SettlingOk, EndedOk, durable, Ended

LEMMA IntegrationWorkKeeps == ASSUME StageInv, IntegrationWork PROVE StageInv'
  <1>1. RunnerShaped(kind, runner) /\ Backed(kind, runner, world, operation.answer)
    BY LiveIsOpen DEF IntegrationWork, Alive
  <1>2. /\ RunnerShaped(kind, runner') /\ Backed(kind, runner', world', operation.answer)
        /\ WorldOk(kind, world')
    BY <1>1, IntegrationStepOk DEF IntegrationWork, StageInv
  <1> QED
    BY <1>2, WorkKeeps DEF IntegrationWork, WorkKinds

LEMMA PublishWorkKeeps == ASSUME StageInv, PublishWork PROVE StageInv'
  <1>1. RunnerShaped(kind, runner) /\ Backed(kind, runner, world, operation.answer)
    BY LiveIsOpen DEF PublishWork, Alive
  <1>2. /\ RunnerShaped(kind, runner') /\ Backed(kind, runner', world', operation.answer)
        /\ WorldOk(kind, world')
    BY <1>1, PublishStepOk DEF PublishWork, StageInv
  <1> QED
    BY <1>2, WorkKeeps DEF PublishWork, WorkKinds

LEMMA ForgeFaultKeeps == ASSUME StageInv, ForgeFault PROVE StageInv'
  <1>1. RunnerShaped(kind, runner) /\ Backed(kind, runner, world, operation.answer)
    BY LiveIsOpen DEF ForgeFault, Alive
  <1>2. RunnerShaped(kind, runner') /\ runner'.work = "done" /\ runner'.result = "forge_failed"
    BY <1>1 DEF ForgeFault, ForgeFails, Finished, RunnerShaped
  <1>3. Backed(kind, runner', world', operation.answer)
    BY <1>2 DEF ForgeFault, Backed
  <1>4. WorldOk(kind, world')
    <2>1. CASE UNCHANGED world
      BY <2>1 DEF StageInv
    <2>2. CASE runner.work = "create" /\ world' = CreatePullRequest(runner, world)[2]
      <3>1. world.pulls = <<>>
        BY <1>1, <2>2 DEF Backed, ForgeFault
      <3> QED
        BY <2>2, <3>1, CreateOk DEF StageInv, ForgeFault
    <2> QED
      BY <2>1, <2>2 DEF ForgeFault
  <1> QED
    BY <1>2, <1>3, <1>4, WorkKeeps DEF ForgeFault, WorkKinds

LEMMA VerifyWorkKeeps == ASSUME StageInv, VerifyWork PROVE StageInv'
  <1>1. RunnerShaped(kind, runner) /\ Backed(kind, runner, world, operation.answer)
    BY LiveIsOpen DEF VerifyWork, Alive
  <1>2. /\ RunnerShaped(kind, runner') /\ Backed(kind, runner', world', operation.answer)
        /\ WorldOk(kind, world')
    <2>1. CASE runner.work = "begin" /\ runner.cancelled
      <3>1. runner' = Finished(runner, "cancelled") /\ world' = world
        BY <2>1 DEF VerifyWork
      <3> QED
        BY <1>1, <3>1 DEF VerifyWork, Finished, RunnerShaped, Backed, StageInv
    <2>2. CASE runner.work = "begin" /\ ~runner.cancelled
      BY <1>1, <2>2, SpawnCheckOk DEF VerifyWork, StageInv
    <2>3. CASE runner.work = "check"
      <3>1. PICK satisfied \in BOOLEAN :
              /\ runner' = CheckExits(runner, world, satisfied, Required)[1]
              /\ world' = CheckExits(runner, world, satisfied, Required)[2]
        BY <2>3 DEF VerifyWork
      <3> QED
        BY <1>1, <2>3, <3>1, CheckExitsOk DEF VerifyWork, StageInv
    <2> QED
      BY <2>1, <2>2, <2>3 DEF VerifyWork
  <1> QED
    BY <1>2, WorkKeeps DEF VerifyWork, WorkKinds

(* Outside the daemon: what a success rests on stays. *)
LEMMA CommandExitsKeeps == ASSUME StageInv, CommandExits PROVE StageInv'
  <1>1. /\ WorldOk(kind, world') /\ kind = "command"
        /\ runner # NoRunner => Backed(kind, runner, world', operation.answer)
    BY DEF CommandExits, StageInv, WorldOk, Backed
  <1>2. world'.exit # "none"
    BY DEF CommandExits, StageInv, WorldOk
  <1>3. ~Evidence(kind, world, operation.answer)
    BY DEF CommandExits, StageInv, WorldOk, Evidence
  <1> QED
    BY <1>1, <1>2, <1>3 DEF CommandExits, StageInv, RowsShaped, PlaceOk, SettlingOk, EndedOk,
    durable, memory, OperationKinds

LEMMA EngineMovesKeeps == ASSUME StageInv, EngineMoves PROVE StageInv'
  <1>1. /\ WorldOk(kind, world') /\ kind = "agent"
        /\ runner # NoRunner => Backed(kind, runner, world', operation.answer)
    BY DEF EngineMoves, StageInv, PlaceOk, WorldOk, Backed
  <1>2. ~Evidence(kind, world, operation.answer)
    BY DEF EngineMoves, Evidence
  <1> QED
    BY <1>1, <1>2 DEF EngineMoves, StageInv, RowsShaped, PlaceOk, SettlingOk, EndedOk,
    durable, memory, OperationKinds

LEMMA OthersPushKeeps == ASSUME StageInv, OthersPush PROVE StageInv'
  <1>1. /\ WorldOk(kind, world') /\ kind \in {"integration", "publish"}
        /\ world'.swaps = world.swaps /\ world'.merge = world.merge
        /\ world'.pulls = <<>> <=> world.pulls = <<>>
    <2>1. CASE kind = "integration"
      BY <2>1 DEF OthersPush, StageInv, WorldOk
    <2>2. CASE kind = "publish"
      <3> DEFINE moved == [i \in DOMAIN world.pulls |-> "moved"]
      <3>1. world' = [world EXCEPT !.head = "moved", !.pulls = moved]
        BY <2>2 DEF OthersPush
      <3>2. moved \in Seq(Heads) /\ (moved = <<>> <=> world.pulls = <<>>)
        <4>1. world.pulls \in Seq(Heads)
          BY DEF StageInv, WorldOk
        <4>2. PICK n \in Nat : n = Len(world.pulls) /\ DOMAIN world.pulls = 1..n
          BY <4>1
        <4>3. moved \in [1..n -> Heads]
          <5>1. moved = [i \in 1..n |-> "moved"]
            BY <4>2
          <5> HIDE DEF moved
          <5> QED
            BY <5>1 DEF Heads
        <4> HIDE DEF moved
        <4>4. moved \in Seq(Heads)
          BY <4>3, SeqDef
        <4>5. Len(moved) = n
          BY <4>3, <4>4
        <4> QED
          BY <4>1, <4>2, <4>4, <4>5
      <3> HIDE DEF moved
      <3>3. WorldOk(kind, world)
        BY DEF StageInv
      <3> DEFINE u == [world EXCEPT !.head = "moved", !.pulls = moved]
      <3>6. /\ DOMAIN u = DOMAIN world /\ u.pulls = moved /\ u.head = "moved"
            /\ u.swaps = world.swaps /\ u.created = world.created /\ u.passed = world.passed
            /\ u.merge = world.merge /\ u.target = world.target /\ u.lost = world.lost
        BY <3>3 DEF WorldOk
      <3> HIDE DEF u
      <3>4. WorldOk(kind, u)
        BY <2>2, <3>2, <3>3, <3>6 DEF WorldOk, Heads
      <3>5. world'.swaps = world.swaps /\ world'.merge = world.merge /\ world'.pulls = moved
        BY <3>1, <3>3 DEF WorldOk
      <3> QED
        BY <2>2, <3>1, <3>2, <3>4, <3>5 DEF u
    <2> QED
      BY <2>1, <2>2 DEF OthersPush
  <1>2. /\ runner # NoRunner => Backed(kind, runner, world', operation.answer)
        /\ Evidence(kind, world, operation.answer) => Evidence(kind, world', operation.answer)
    BY <1>1 DEF StageInv, PlaceOk, Backed, Evidence
  <1>3. Outcome(runner, world', complete) = Outcome(runner, world, complete)
          \/ ~RunnerShaped(kind, runner)
    BY <1>1 DEF Outcome, Effective, RunnerShaped
  <1> QED
    BY <1>1, <1>2, <1>3 DEF OthersPush, StageInv, RowsShaped, PlaceOk, SettlingOk, EndedOk,
    durable, memory


LEMMA NextKeeps == ASSUME StageInv, Next PROVE StageInv'
  <1>1. CASE Restart \/ Poll \/ Crash \/ DeadlinePasses \/ RequestCancel \/ CreateIntent \/ NextAttempt
    BY <1>1, RestartKeeps, PollKeeps, CrashKeeps, DeadlinePassesKeeps, RequestCancelKeeps,
       CreateIntentKeeps, NextAttemptKeeps
  <1>2. CASE Reconciles
    BY <1>2, SkipSettledKeeps, LoseHandleKeeps, ReconstructKeeps, ReconcileWaitingKeeps
    DEF Reconciles
  <1>3. CASE Dispatches
    BY <1>3, ClaimKeeps, RefuseOperationKeeps, PrepareKeeps, StartRunnerKeeps DEF Dispatches
  <1>4. CASE Settles
    BY <1>4, RunningKeeps, MarkWaitingKeeps, StaleRevisionKeeps, GiveUpKeeps, CollectKeeps,
       SettleOperationKeeps, FinalizeAttemptKeeps
    DEF Settles
  <1>5. CASE Drains
    BY <1>5, NoDispatchKeeps, NoCancelKeeps, CancelRunnerKeeps, CancelDeliveredKeeps,
       CancelLostKeeps, DriveLaterKeeps
    DEF Drains
  <1>6. CASE Answers
    BY <1>6, RecordAnswerKeeps, AnswerRefusedKeeps, AnswerRunnerKeeps DEF Answers
  <1>7. CASE Works \/ CommandExits \/ EngineMoves \/ ForgeFault \/ OthersPush
    BY <1>7, IntegrationWorkKeeps, PublishWorkKeeps, VerifyWorkKeeps, CommandExitsKeeps,
       EngineMovesKeeps, ForgeFaultKeeps, OthersPushKeeps
    DEF Works
  <1> QED
    BY <1>1, <1>2, <1>3, <1>4, <1>5, <1>6, <1>7 DEF Next

LEMMA InitStageInv == ASSUME Init PROVE StageInv
  <1>1. kind # "none"
    BY StageAssumption DEF Init
  <1>2. WorldOk(kind, world)
    <2>1. PICK merge \in {"clean", "conflict", "contained"}, prior \in {"fresh", "known", "missing"} :
            world = [source |-> "expected", target |-> "expected", merge |-> merge, swaps |-> 0,
                     lost |-> FALSE, head |-> "expected", pulls |-> <<>>, created |-> 0,
                     processes |-> 0, passed |-> 0, exit |-> "none",
                     prior |-> prior, engine |-> "idle"]
      BY DEF Init
    <2>2. <<>> \in Seq(Heads)
      OBVIOUS
    <2>3. world.pulls \in Seq(Heads) /\ world.head \in Heads
      BY <2>1, <2>2 DEF Heads
    <2>4. /\ world.swaps = 0 /\ world.created = 0 /\ world.passed = 0 /\ world.lost = FALSE
          /\ world.merge = merge /\ world.exit = "none"
          /\ DOMAIN world = {"source", "target", "merge", "swaps", "lost", "head", "pulls", "created",
                            "processes", "passed", "exit", "prior", "engine"}
      BY <2>1
    <2> QED
      BY <2>3, <2>4 DEF WorldOk
  <1> QED
    BY <1>1, <1>2 DEF Init, StageInv, RowsShaped, PlaceOk, SettlingOk, EndedOk, NoOperation, Ended

LEMMA StageInvariant == Spec => []StageInv
  <1>1. ASSUME StageInv, UNCHANGED vars
        PROVE  StageInv'
    BY <1>1 DEF vars, durable, memory, env, StageInv, RowsShaped, PlaceOk, SettlingOk, EndedOk
  <1> QED
    BY <1>1, InitStageInv, NextKeeps, PTL DEF Spec

(* What a stage does outside the daemon it does once, and its success has      *)
(* happened: however the daemon crashes and rebuilds the attempt, a target is   *)
(* moved at most once and never over a push of someone else (runIntegration), a *)
(* publication has at most one pull request (runPublish), and a success has its *)
(* evidence.                                                                 *)
THEOREM EffectsOnce == Spec => []EffectsHappenOnce
  <1>1. ASSUME StageInv
        PROVE  EffectsHappenOnce
    <2>1. world.swaps <= 1 /\ ~world.lost /\ world.created <= 1
      BY <1>1 DEF StageInv, WorldOk
    <2>2. ASSUME row.phase = "succeeded"
          PROVE  Evidence(kind, world, operation.answer)
      BY <1>1, <2>2 DEF StageInv, EndedOk, Ended
    <2> QED
      BY <1>1, <2>1, <2>2, KindsAre DEF EffectsHappenOnce, Evidence, StageInv
  <1> QED
    BY <1>1, StageInvariant, PTL

(* The rows of an attempt settle together: finalizeRunnerAttempt leaves no      *)
(* settled attempt with an intent to be driven again or with an operation of    *)
(* another outcome.                                                          *)
THEOREM SettledAreTogether == Spec => []SettledTogether
  <1>1. ASSUME StageInv
        PROVE  SettledTogether
    BY <1>1 DEF StageInv, EndedOk, SettledTogether, OperationPhase, Ended
  <1> QED
    BY <1>1, StageInvariant, PTL

=============================================================================
