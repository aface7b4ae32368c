-------------------------- MODULE AccountScheduling --------------------------
(***************************************************************************)
(* Durable account scheduling: the SQLite scheduling store                 *)
(* (packages/state/src/scheduling/store.ts) and the daemon service that    *)
(* drives it (packages/daemon/src/runtime/scheduling-service.ts).          *)
(*                                                                         *)
(* Every store operation is one BEGIN IMMEDIATE transaction, so it is one  *)
(* action here.  The service awaits between operations; each await is a    *)
(* point where the model may interleave another actor, lose the process    *)
(* or let time pass.  A thrown error inside an RPC is only reported to the *)
(* client; a thrown error inside the polling sweep is an unhandled         *)
(* rejection and ends the daemon process.                                  *)
(***************************************************************************)
EXTENDS Integers, FiniteSets

CONSTANTS
  Runs,         \* scheduled runs, one execution_schedule row each
  Accounts,     \* provider accounts
  MaxCand,      \* last candidate index of a chain (0 is the primary)
  AccountOf,    \* AccountOf[r][i]: account of candidate i of run r
  Compatible,   \* Compatible[r][i]: candidate i was not rejected at start
  Policy,       \* Policy[r]: primary.onCapacity
  Priority,     \* Priority[r]: requested priority
  CapChoices,   \* account capacities a configuration may hold
  Cancellable,  \* bound: the runs a client may ask to cancel
  Sweepers,     \* reconcile() calls that may overlap
  Boot,         \* the sweeper that plays the startup reconcile()
  Faults,       \* what may go wrong, a subset of FaultKinds
  LeaseTtl,     \* DEFAULT_LEASE_TTL_MS, in minutes
  MaxTime,      \* bound: minutes modelled
  MaxInstance,  \* bound: daemon processes started
  MaxRev        \* bound: fencing revision from which status calls succeed

Candidates == 0 .. MaxCand
Attempts == Runs \X Candidates
Policies == {"queue", "fallback", "ask"}

(* "crash": the process is killed; "setup": provisioning or a backend start  *)
(* fails for good; "lostStart": the backend started but the reply is lost;   *)
(* "unreachable": a status or result call fails; "late": the process is      *)
(* suspended past a lease's expiry; "artifact": a result is unusable.        *)
FaultKinds == {"crash", "setup", "lostStart", "unreachable", "late", "artifact"}

ASSUME SchedulingConstants ==
  /\ MaxCand \in Nat
  /\ AccountOf \in [Runs -> [Candidates -> Accounts]]
  /\ Compatible \in [Runs -> [Candidates -> BOOLEAN]]
  /\ Policy \in [Runs -> Policies]
  /\ Priority \in [Runs -> 0 .. 9]
  /\ CapChoices \subseteq Nat \ {0}
  /\ Cancellable \subseteq Runs
  /\ Faults \subseteq FaultKinds
  /\ Boot \in Sweepers
  /\ "rpc" \notin Sweepers
  /\ Runs \cap Sweepers = {}
  /\ LeaseTtl \in Nat \ {0}
  /\ MaxTime \in Nat
  /\ MaxInstance \in Nat
  /\ MaxRev \in Nat

VARIABLES
  now,        \* minutes since the first daemon start
  sched,      \* execution_schedule.state, "absent" before the INSERT
  current,    \* execution_schedule.current_candidate_index, -1 for NULL
  cand,       \* execution_candidate.state
  queue,      \* account_queue_entry rows
  qSeq,       \* account_queue_entry.queue_sequence
  qAt,        \* account_queue_entry.enqueued_at
  nextSeq,    \* next queue sequence
  cap,        \* account_capacity.max_concurrent_runs
  att,        \* execution_attempt.status, "none" before the INSERT
  started,    \* attempts whose backend_execution_id is recorded
  lState,     \* account_concurrency_lease.state, "none" before the INSERT
  lRev,       \* account_concurrency_lease.fencing_revision
  lExp,       \* account_concurrency_lease.expires_at
  lOwner,     \* account_concurrency_lease.owner_id (daemon instance)
  question,   \* scheduling_capacity_question.state
  published,  \* runs whose stage artifact and terminal run row are committed
  phase,      \* the daemon: "down", "recovering" or "serving"
  instance,   \* instanceId of the running daemon
  known,      \* leaseRevisions (0: no entry)
  renewedAt,  \* leaseRenewedAt
  setup,      \* provisionAndStart of an attempt: "idle", "provision", "start"
  driver,     \* the dispatch loop that runs it: "rpc" or a sweeper
  pc,         \* control of reconcile() (Sweepers) and cancel() (Runs)
  at,         \* the attempt finishTerminal works on
  seen,       \* the attempt list a sweep read, with the status it read
  backend     \* the execution at the provider backend

(* Written by the store; lost never.                                        *)
durable == <<sched, current, cand, queue, qSeq, qAt, nextSeq, cap, att, started,
             lState, lRev, lExp, lOwner, question, published>>
(* Held by the daemon process; lost when it ends.                           *)
memory == <<phase, instance, known, renewedAt, setup, driver, pc, at, seen>>
vars == <<now, durable, memory, backend>>

scheduleVars == <<sched, current, cand, queue, qSeq, qAt, nextSeq, question>>
leaseVars == <<lState, lRev, lExp, lOwner>>

NoAttempt == <<"none", -1>>
Open == {"queued", "running", "recovery_required"}
Settled == {"succeeded", "failed", "cancelled"}

Account(e) == AccountOf[e[1]][e[2]]
AttemptsOf(r) == {e \in Attempts : e[1] = r}
Actors == Sweepers \cup Runs

Init ==
  /\ now = 0
  /\ sched = [r \in Runs |-> "absent"]
  /\ current = [r \in Runs |-> -1]
  /\ cand = [e \in Attempts |-> "absent"]
  /\ queue = {}
  /\ qSeq = [e \in Attempts |-> 0]
  /\ qAt = [e \in Attempts |-> 0]
  /\ nextSeq = 1
  /\ cap = [a \in Accounts |-> 0]
  /\ att = [e \in Attempts |-> "none"]
  /\ started = {}
  /\ lState = [e \in Attempts |-> "none"]
  /\ lRev = [e \in Attempts |-> 0]
  /\ lExp = [e \in Attempts |-> 0]
  /\ lOwner = [e \in Attempts |-> 0]
  /\ question = [r \in Runs |-> "none"]
  /\ published = {}
  /\ phase = "serving"
  /\ instance = 1
  /\ known = [e \in Attempts |-> 0]
  /\ renewedAt = [e \in Attempts |-> 0]
  /\ setup = [e \in Attempts |-> "idle"]
  /\ driver = [e \in Attempts |-> "rpc"]
  /\ pc = [x \in Actors |-> "idle"]
  /\ at = [x \in Actors |-> NoAttempt]
  /\ seen = [w \in Sweepers |-> [e \in Attempts |-> "none"]]
  /\ backend = [e \in Attempts |-> "none"]

-----------------------------------------------------------------------------
(* The store's building blocks.                                            *)

(* enqueueCandidate over a set of candidates of one run, in index order;   *)
(* a rejected candidate or one already queued is skipped.                  *)
Enqueue(es) ==
  /\ queue' = queue \cup es
  /\ qSeq' = [e \in Attempts |-> IF e \in es THEN nextSeq + e[2] ELSE qSeq[e]]
  /\ qAt' = [e \in Attempts |-> IF e \in es THEN now ELSE qAt[e]]
  /\ nextSeq' = nextSeq + MaxCand + 1

(* Faulty: only the primary's membership is deleted.                       *)
DequeuePrimary(rs) ==
  /\ queue' = {e \in queue : e[1] \notin rs \/ e[2] # 0}
  /\ UNCHANGED <<qSeq, qAt, nextSeq>>

(* DELETE FROM account_queue_entry for the runs rs.                        *)
Dequeue(rs) ==
  /\ queue' = {e \in queue : e[1] \notin rs}
  /\ qSeq' = [e \in Attempts |-> IF e[1] \in rs THEN 0 ELSE qSeq[e]]
  /\ qAt' = [e \in Attempts |-> IF e[1] \in rs THEN 0 ELSE qAt[e]]
  /\ UNCHANGED nextSeq

(* expireOrphanLeases: an active lease past its expiry is fenced off.      *)
Overdue(e) == lState[e] = "active" /\ lExp[e] <= now

(* The fencing the process loses when it ends: every in-memory map, every  *)
(* pending continuation.                                                   *)
ProcessEnds ==
  /\ phase' = "down"
  /\ known' = [e \in Attempts |-> 0]
  /\ renewedAt' = [e \in Attempts |-> 0]
  /\ setup' = [e \in Attempts |-> "idle"]
  /\ driver' = [e \in Attempts |-> "rpc"]
  /\ pc' = [x \in Actors |-> "idle"]
  /\ at' = [x \in Actors |-> NoAttempt]
  /\ seen' = [w \in Sweepers |-> [e \in Attempts |-> "none"]]
  /\ UNCHANGED instance

(* An error leaves actor x: a sweep takes the process down, an RPC only    *)
(* fails.                                                                  *)
Throw(x) ==
  IF x \in Sweepers
  THEN ProcessEnds
  ELSE /\ pc' = [pc EXCEPT ![x] = "idle"]
       /\ at' = [at EXCEPT ![x] = NoAttempt]
       /\ UNCHANGED <<phase, instance, known, renewedAt, setup, driver, seen>>

(* releaseLease inside completeExecutionAttempt.                           *)
ReleaseLease(e) ==
  /\ lState' = [lState EXCEPT ![e] = IF @ = "active" THEN "released" ELSE @]
  /\ lRev' = [lRev EXCEPT ![e] = IF lState[e] = "active" THEN @ + 1 ELSE @]
  /\ UNCHANGED <<lExp, lOwner>>

(* The candidates an eligible failure of e goes on to.                     *)
Remaining(e) ==
  {f \in AttemptsOf(e[1]) : f[2] > e[2] /\ cand[f] = "pending"}

(* Faulty: the schedule is left alone when the attempt failed for good.    *)
CompleteForgettingFailure(e, status, eligible) ==
  /\ att' = [att EXCEPT ![e] = status]
  /\ cand' = [cand EXCEPT ![e] = "failed"]
  /\ ReleaseLease(e)
  /\ sched' = [sched EXCEPT ![e[1]] = IF status = "failed" /\ ~eligible THEN @ ELSE "terminal"]
  /\ UNCHANGED <<current, queue, qSeq, qAt, nextSeq, cap, started, question>>

(* completeExecutionAttempt for an open attempt e.                         *)
CompleteAttempt(e, status, eligible) ==
  LET next == IF status = "failed" /\ eligible THEN Remaining(e) ELSE {}
      requeued == next # {}
  IN /\ att' = [att EXCEPT ![e] = status]
     /\ cand' = [f \in Attempts |->
                   IF f = e THEN (IF status = "succeeded" THEN "succeeded" ELSE "failed")
                   ELSE IF f \in next THEN "queued" ELSE cand[f]]
     /\ ReleaseLease(e)
     /\ sched' = [sched EXCEPT ![e[1]] = IF requeued THEN "queued" ELSE "terminal"]
     /\ current' = [current EXCEPT ![e[1]] = IF requeued THEN -1 ELSE @]
     /\ IF requeued THEN Enqueue(next) ELSE UNCHANGED <<queue, qSeq, qAt, nextSeq>>
     /\ UNCHANGED <<cap, started, question>>

-----------------------------------------------------------------------------
(* The candidates a start enrols: the compatible ones, and beyond the        *)
(* primary only under the fallback policy.                                   *)
Enrolled(r) ==
  {e \in AttemptsOf(r) : Compatible[r][e[2]] /\ (Policy[r] = "fallback" \/ e[2] = 0)}

(* createExecutionSchedule; the configured capacities of the chain's         *)
(* accounts overwrite the ones earlier runs left.                            *)
CreateExecutionSchedule(r) ==
  /\ \E c \in [Accounts -> CapChoices] :
       cap' = [a \in Accounts |->
                 IF \E i \in Candidates : AccountOf[r][i] = a THEN c[a] ELSE cap[a]]
  /\ Enqueue(Enrolled(r))
  /\ cand' = [e \in Attempts |->
                IF e[1] # r THEN cand[e]
                ELSE IF e \in Enrolled(r) THEN "queued"
                ELSE IF Compatible[r][e[2]] THEN "pending" ELSE "rejected"]
  /\ sched' = [sched EXCEPT ![r] = "queued"]

(* stage.start.v2: start, once the chain, the permissions and the            *)
(* capabilities of the request are resolved.                                 *)
StartRun(r) ==
  /\ phase = "serving"
  /\ sched[r] = "absent"
  /\ CreateExecutionSchedule(r)
  /\ UNCHANGED <<now, current, att, started, leaseVars, question, published, memory, backend>>

(* claimNextExecutionCandidate.                                            *)
PriorityCap == 9

EffectivePriority(e) ==
  LET aged == Priority[e[1]] + (now - qAt[e])
  IN IF aged < PriorityCap THEN aged ELSE PriorityCap

Precedes(e, f) ==
  \/ EffectivePriority(e) > EffectivePriority(f)
  \/ EffectivePriority(e) = EffectivePriority(f) /\ qSeq[e] < qSeq[f]

Claimable == {e \in queue : cand[e] = "queued" /\ sched[e[1]] = "queued"}

Heads == {e \in Claimable : \A f \in Claimable :
                              Account(f) = Account(e) /\ f # e => Precedes(e, f)}

ActiveLeases(a) ==
  {e \in Attempts : Account(e) = a /\ lState[e] = "active" /\ lExp[e] > now}

HasCapacity(e) == Cardinality(ActiveLeases(Account(e))) < cap[Account(e)]

(* Heads of full accounts whose run asks: they leave the queue and wait.   *)
AskedRuns == {r \in Runs : Policy[r] = "ask" /\ \E e \in Heads : e[1] = r /\ ~HasCapacity(e)}

Available == {e \in Heads : HasCapacity(e)}

EarliestPerRun == {e \in Available : \A f \in Available : f[1] = e[1] => e[2] <= f[2]}

Selected(e) ==
  /\ e \in EarliestPerRun
  /\ \A f \in EarliestPerRun : f # e => Precedes(e, f)

(* A dispatch loop: an RPC handler at any time, or a sweep at its end.     *)
MayDispatch(x) ==
  \/ x = "rpc" /\ phase = "serving"
  \/ x \in Sweepers /\ pc[x] = "dispatch"

ExpireLeases ==
  /\ lState' = [e \in Attempts |-> IF Overdue(e) THEN "expired" ELSE lState[e]]
  /\ lRev' = [e \in Attempts |-> IF Overdue(e) THEN lRev[e] + 1 ELSE lRev[e]]

AskQuestions(rs) ==
  question' = [r \in Runs |-> IF r \in rs /\ question[r] = "none" THEN "pending" ELSE question[r]]

(* Nothing is claimable: expiries and questions still commit, and the      *)
(* dispatch loop ends.                                                     *)
ClaimNothing(x) ==
  /\ MayDispatch(x)
  /\ Available = {}
  /\ ExpireLeases
  /\ AskQuestions(AskedRuns)
  /\ sched' = [r \in Runs |-> IF r \in AskedRuns THEN "waiting_on_user" ELSE sched[r]]
  /\ Dequeue(AskedRuns)
  /\ pc' = IF x \in Sweepers THEN [pc EXCEPT ![x] = "idle"] ELSE pc
  /\ phase' = IF x \in Sweepers THEN "serving" ELSE phase
  /\ UNCHANGED <<now, current, cand, cap, att, started, lExp, lOwner, published, instance,
                 known, renewedAt, setup, driver, at, seen, backend>>

(* The claim commits: sibling memberships go, attempt and lease appear.    *)
ClaimCandidate(x, e) ==
  /\ MayDispatch(x)
  /\ Selected(e)
  /\ att[e] = "none"
  /\ lState' = [f \in Attempts |-> IF f = e THEN "active"
                                   ELSE IF Overdue(f) THEN "expired" ELSE lState[f]]
  /\ lRev' = [f \in Attempts |-> IF f = e THEN 1
                                 ELSE IF Overdue(f) THEN lRev[f] + 1 ELSE lRev[f]]
  /\ lExp' = [lExp EXCEPT ![e] = now + LeaseTtl]
  /\ lOwner' = [lOwner EXCEPT ![e] = instance]
  /\ AskQuestions(AskedRuns)
  /\ sched' = [r \in Runs |-> IF r = e[1] THEN "running"
                              ELSE IF r \in AskedRuns THEN "waiting_on_user" ELSE sched[r]]
  /\ current' = [current EXCEPT ![e[1]] = e[2]]
  /\ Dequeue(AskedRuns \cup {e[1]})
  /\ cand' = [f \in Attempts |-> IF f = e THEN "selected"
                                 ELSE IF f[1] = e[1] /\ cand[f] = "queued" THEN "pending"
                                 ELSE cand[f]]
  /\ att' = [att EXCEPT ![e] = "queued"]
  /\ setup' = [setup EXCEPT ![e] = "provision"]
  /\ driver' = [driver EXCEPT ![e] = x]
  /\ pc' = IF x \in Sweepers THEN [pc EXCEPT ![x] = "setup"] ELSE pc
  /\ UNCHANGED <<now, cap, started, published, phase, instance, known, renewedAt, at, seen,
                 backend>>

(* The selected candidate already has an attempt row: the INSERT breaks    *)
(* UNIQUE (run_id, candidate_index) and the transaction rolls back.        *)
ClaimThrows(w, e) ==
  /\ w \in Sweepers
  /\ MayDispatch(w)
  /\ Selected(e)
  /\ att[e] # "none"
  /\ ProcessEnds
  /\ UNCHANGED <<now, durable, backend>>

-----------------------------------------------------------------------------
(* provisionAndStart: the claim's workspace, then the backend, then the     *)
(* attempt row.                                                             *)

(* The dispatch loop goes on to its next claim.                             *)
SetupReturns(e) ==
  /\ setup' = [setup EXCEPT ![e] = "idle"]
  /\ driver' = [driver EXCEPT ![e] = "rpc"]
  /\ pc' = IF driver[e] \in Sweepers THEN [pc EXCEPT ![driver[e]] = "dispatch"] ELSE pc
  /\ UNCHANGED <<phase, instance, at, seen>>

(* The error leaves the dispatch loop, after the attempt was completed.     *)
SetupThrows(e) ==
  IF driver[e] \in Sweepers
  THEN ProcessEnds
  ELSE SetupReturns(e) /\ UNCHANGED <<known, renewedAt>>

(* Provisioning, validation or the read-only baseline fails.                *)
ProvisionFails(e) ==
  /\ "setup" \in Faults
  /\ setup[e] = "provision"
  /\ CompleteAttempt(e, "failed", FALSE)
  /\ SetupThrows(e)
  /\ UNCHANGED <<now, published, backend>>

(* No time is left before the run's hard deadline: the attempt fails, and   *)
(* the loop goes on.                                                        *)
DeadlineExhausted(e) ==
  /\ "setup" \in Faults
  /\ setup[e] = "provision"
  /\ CompleteAttempt(e, "failed", FALSE)
  /\ SetupReturns(e)
  /\ UNCHANGED <<now, published, known, renewedAt, backend>>

(* The workspace is ready and backend.start is called.                      *)
ProvisionDone(e) ==
  /\ setup[e] = "provision"
  /\ setup' = [setup EXCEPT ![e] = "start"]
  /\ UNCHANGED <<now, durable, phase, instance, known, renewedAt, driver, pc, at, seen, backend>>

(* The provider accepts the execution; the daemon has not heard of it yet.  *)
BackendStarts(e) ==
  /\ setup[e] = "start"
  /\ backend[e] = "none"
  /\ backend' = [backend EXCEPT ![e] = "running"]
  /\ UNCHANGED <<now, durable, memory>>

(* startExecutionAttempt: nothing looks at the lease here.                  *)
RecordStart(e) ==
  /\ setup[e] = "start"
  /\ backend[e] # "none"
  /\ att[e] = "queued"
  /\ att' = [att EXCEPT ![e] = "running"]
  /\ started' = started \cup {e}
  /\ known' = [known EXCEPT ![e] = 1]
  /\ renewedAt' = [renewedAt EXCEPT ![e] = now]
  /\ SetupReturns(e)
  /\ UNCHANGED <<now, scheduleVars, cap, leaseVars, published, backend>>

(* Faulty: a fallback also after an ambiguous start.                        *)
StartAmbiguous(e) ==
  /\ setup[e] = "start"
  /\ CompleteAttempt(e, "failed", TRUE)
  /\ SetupReturns(e)
  /\ UNCHANGED <<now, published, known, renewedAt, backend>>

(* backend.start rejects.  A failure the adapter classified as the          *)
(* provider's unavailability goes to the next candidate.                    *)
StartUnavailable(e) ==
  /\ setup[e] = "start"
  /\ backend[e] = "none"
  /\ CompleteAttempt(e, "failed", TRUE)
  /\ SetupReturns(e)
  /\ UNCHANGED <<now, published, known, renewedAt, backend>>

(* Any other error fails the attempt closed, also when the provider did     *)
(* start the execution and only its answer was lost.                        *)
StartFails(e) ==
  /\ setup[e] = "start"
  /\ \/ "setup" \in Faults /\ backend[e] = "none"
     \/ "lostStart" \in Faults /\ backend[e] # "none"
  /\ CompleteAttempt(e, "failed", FALSE)
  /\ SetupThrows(e)
  /\ UNCHANGED <<now, published, backend>>

-----------------------------------------------------------------------------
(* reconcile: the sweep over the attempts the store reports recoverable.    *)

Recoverable(e) == att[e] \in Open /\ lState[e] \in {"active", "expired"}

(* Faulty: attempts without a backend id are swept too.                     *)
SnapshotWithUnstarted == [e \in Attempts |-> IF Recoverable(e) THEN att[e] ELSE "none"]

(* readRecoverableSchedulingAttempts; an attempt without a backend id is    *)
(* skipped.                                                                 *)
Snapshot == [e \in Attempts |-> IF Recoverable(e) /\ e \in started THEN att[e] ELSE "none"]

SweepBegin(w) ==
  /\ phase = "serving"
  /\ pc[w] = "idle"
  /\ pc' = [pc EXCEPT ![w] = "sweep"]
  /\ seen' = [seen EXCEPT ![w] = Snapshot]
  /\ UNCHANGED <<now, durable, phase, instance, known, renewedAt, setup, driver, at, backend>>

(* The sweep is done with the attempt it looked at.                         *)
SweepNext(w) ==
  /\ pc' = [pc EXCEPT ![w] = "sweep"]
  /\ at' = [at EXCEPT ![w] = NoAttempt]
  /\ seen' = [seen EXCEPT ![w][at[w]] = "none"]

(* cancel() returns.                                                        *)
CancelReturns(r) ==
  /\ pc' = [pc EXCEPT ![r] = "idle"]
  /\ at' = [at EXCEPT ![r] = NoAttempt]
  /\ UNCHANGED seen

Proceed(x) == IF x \in Sweepers THEN SweepNext(x) ELSE CancelReturns(x)

Finished == {"succeeded", "failed", "cancelled"}

(* What a backend.status reply for attempt e makes actor x do next.  The    *)
(* reply is as old as the await: other steps may come before x goes on.     *)
Reaction(x, e) ==
  IF backend[e] \in Finished THEN "check"
  ELSE IF x \in Runs THEN "idle"
  ELSE IF backend[e] = "recovery_required" /\ seen[x][e] # "recovery_required" THEN "lost"
  ELSE "live"

HearStatus(x, e) ==
  /\ \/ x \in Sweepers /\ pc[x] = "sweep" /\ seen[x][e] # "none"
     \/ x \in Runs /\ pc[x] = "status" /\ at[x] = e
  /\ pc' = [pc EXCEPT ![x] = Reaction(x, e)]
  /\ at' = [at EXCEPT ![x] = IF Reaction(x, e) = "idle" THEN NoAttempt ELSE e]
  /\ UNCHANGED <<now, durable, phase, instance, known, renewedAt, setup, driver, seen, backend>>

(* The status call fails instead.                                           *)
HearNothing(x, e) ==
  /\ "unreachable" \in Faults
  /\ lRev[e] < MaxRev
  /\ \/ x \in Sweepers /\ pc[x] = "sweep" /\ seen[x][e] # "none"
     \/ x \in Runs /\ pc[x] = "status" /\ at[x] = e
  /\ pc' = [pc EXCEPT ![x] = "unreachable"]
  /\ at' = [at EXCEPT ![x] = e]
  /\ UNCHANGED <<now, durable, phase, instance, known, renewedAt, setup, driver, seen, backend>>

(* restoreAccountLease with the attempt's status afterwards: whoever owned  *)
(* the lease, expired or not, it is this daemon's again.                    *)
RestoreLease(e, status) ==
  /\ att' = [att EXCEPT ![e] = status]
  /\ lState' = [lState EXCEPT ![e] = "active"]
  /\ lRev' = [lRev EXCEPT ![e] = @ + 1]
  /\ lExp' = [lExp EXCEPT ![e] = now + LeaseTtl]
  /\ lOwner' = [lOwner EXCEPT ![e] = instance]
  /\ known' = [known EXCEPT ![e] = lRev[e] + 1]
  /\ renewedAt' = [renewedAt EXCEPT ![e] = now]
  /\ UNCHANGED <<scheduleVars, cap, started, published, phase, instance, setup, driver>>

(* Faulty: an attempt settled in the meantime is fenced too.                *)
FenceRegardless(x) ==
  /\ pc[x] \in {"unreachable", "lost"}
  /\ RestoreLease(at[x], "recovery_required")
  /\ Proceed(x)
  /\ UNCHANGED <<now, backend>>

(* fenceUnconfirmedAttempt.                                                 *)
FenceUnconfirmed(x) ==
  /\ pc[x] \in {"unreachable", "lost"}
  /\ att[at[x]] \in Open
  /\ RestoreLease(at[x], "recovery_required")
  /\ Proceed(x)
  /\ UNCHANGED <<now, backend>>

(* A live attempt this process has no revision for gets its lease back.     *)
RestoreLive(w) ==
  /\ pc[w] = "live"
  /\ known[at[w]] = 0
  /\ att[at[w]] \in Open
  /\ RestoreLease(at[w], att[at[w]])
  /\ SweepNext(w)
  /\ UNCHANGED <<now, backend>>

(* Either of them, for an attempt settled since the status was asked.       *)
RestoreThrows(x) ==
  /\ \/ pc[x] \in {"unreachable", "lost"}
     \/ pc[x] = "live" /\ known[at[x]] = 0
  /\ att[at[x]] \notin Open
  /\ Throw(x)
  /\ UNCHANGED <<now, durable, backend>>

(* Renewed less than a minute ago.                                          *)
RenewNotDue(w) ==
  /\ pc[w] = "live"
  /\ known[at[w]] # 0
  /\ now - renewedAt[at[w]] < 1
  /\ SweepNext(w)
  /\ UNCHANGED <<now, durable, phase, instance, known, renewedAt, setup, driver, backend>>

RenewDue(w) ==
  /\ pc[w] = "live"
  /\ known[at[w]] # 0
  /\ now - renewedAt[at[w]] >= 1

(* The fencing condition of renewAccountLease.                              *)
Renewable(e) ==
  /\ lState[e] = "active"
  /\ lExp[e] > now
  /\ lOwner[e] = instance
  /\ lRev[e] = known[e]

RenewLease(w) ==
  /\ RenewDue(w)
  /\ Renewable(at[w])
  /\ LET e == at[w]
     IN /\ lState' = [f \in Attempts |-> IF Overdue(f) THEN "expired" ELSE lState[f]]
        /\ lRev' = [f \in Attempts |-> IF Overdue(f) \/ f = e THEN lRev[f] + 1 ELSE lRev[f]]
        /\ lExp' = [lExp EXCEPT ![e] = now + LeaseTtl]
        /\ known' = [known EXCEPT ![e] = lRev[e] + 1]
        /\ renewedAt' = [renewedAt EXCEPT ![e] = now]
  /\ SweepNext(w)
  /\ UNCHANGED <<now, scheduleVars, cap, att, started, lOwner, published, phase, instance,
                 setup, driver, backend>>

(* The renewal was fenced or expired: the transaction rolls back.           *)
RenewThrows(w) ==
  /\ RenewDue(w)
  /\ ~Renewable(at[w])
  /\ Throw(w)
  /\ UNCHANGED <<now, durable, backend>>

(* Faulty: a sweep does not dispatch.                                       *)
SweepStops(w) ==
  /\ pc[w] = "sweep"
  /\ \A e \in Attempts : seen[w][e] = "none"
  /\ pc' = [pc EXCEPT ![w] = "idle"]
  /\ UNCHANGED <<now, durable, phase, instance, known, renewedAt, setup, driver, at, seen, backend>>

SweepEnd(w) ==
  /\ pc[w] = "sweep"
  /\ \A e \in Attempts : seen[w][e] = "none"
  /\ pc' = [pc EXCEPT ![w] = "dispatch"]
  /\ UNCHANGED <<now, durable, phase, instance, known, renewedAt, setup, driver, at, seen, backend>>

-----------------------------------------------------------------------------
(* finishTerminal, for a sweep or a cancel.                                 *)

(* The result call fails, or the attempt was settled in the meantime.       *)
FinishThrows(x) ==
  /\ pc[x] = "check"
  /\ "unreachable" \in Faults \/ ~Recoverable(at[x])
  /\ Throw(x)
  /\ UNCHANGED <<now, durable, backend>>

FinishCheck(x) ==
  /\ pc[x] = "check"
  /\ Recoverable(at[x])
  /\ pc' = [pc EXCEPT ![x] = "complete"]
  /\ UNCHANGED <<now, durable, phase, instance, known, renewedAt, setup, driver, at, seen, backend>>

(* The ways to complete: a usable result as the backend reports it, or      *)
(* failed closed (no valid artifact, a mutated read-only worktree).         *)
Outcomes(e) ==
  {<<backend[e], FALSE>>}
    \cup (IF backend[e] = "failed" THEN {<<"failed", TRUE>>} ELSE {})
    \cup (IF "artifact" \in Faults THEN {<<"failed", FALSE>>} ELSE {})

(* Faulty: the attempt is completed without its artifact.                   *)
FinishUnpublished(x) ==
  /\ pc[x] = "complete"
  /\ att[at[x]] \in Open
  /\ \E o \in Outcomes(at[x]) : CompleteAttempt(at[x], o[1], o[2])
  /\ known' = [known EXCEPT ![at[x]] = 0]
  /\ renewedAt' = [renewedAt EXCEPT ![at[x]] = 0]
  /\ Proceed(x)
  /\ UNCHANGED <<now, published, phase, instance, setup, driver, backend>>

FinishComplete(x) ==
  /\ pc[x] = "complete"
  /\ att[at[x]] \in Open
  /\ \E o \in Outcomes(at[x]) :
       /\ CompleteAttempt(at[x], o[1], o[2])
       /\ published' = IF o[1] = "succeeded" THEN published \cup {at[x][1]} ELSE published
  /\ known' = [known EXCEPT ![at[x]] = 0]
  /\ renewedAt' = [renewedAt EXCEPT ![at[x]] = 0]
  /\ Proceed(x)
  /\ UNCHANGED <<now, phase, instance, setup, driver, backend>>

(* The attempt was settled by another finisher: the artifact is published   *)
(* again all the same, then completeExecutionAttempt throws.                *)
FinishTooLate(x) ==
  /\ pc[x] = "complete"
  /\ att[at[x]] \notin Open
  /\ \E o \in Outcomes(at[x]) :
       published' = IF o[1] = "succeeded" THEN published \cup {at[x][1]} ELSE published
  /\ Throw(x)
  /\ UNCHANGED <<now, scheduleVars, cap, att, started, leaseVars, backend>>

(* The process is killed between finalizeStageArtifact and                  *)
(* completeExecutionAttempt.                                                *)
CrashAfterPublish(x) ==
  /\ "crash" \in Faults
  /\ instance < MaxInstance
  /\ pc[x] = "complete"
  /\ backend[at[x]] = "succeeded"
  /\ published' = published \cup {at[x][1]}
  /\ ProcessEnds
  /\ UNCHANGED <<now, scheduleVars, cap, att, started, leaseVars, backend>>

-----------------------------------------------------------------------------
(* stage.cancel and the capacity question's answer.                         *)

(* cancelQueuedInside: a cancelled attempt row stands in for the primary.   *)
CancelQueuedInside(r) ==
  LET e == <<r, 0>>
  IN /\ att[e] = "none"
     /\ att' = [att EXCEPT ![e] = "cancelled"]
     /\ cand' = [cand EXCEPT ![e] = "failed"]
     /\ sched' = [sched EXCEPT ![r] = "terminal"]
     /\ current' = [current EXCEPT ![r] = 0]
     /\ Dequeue({r})

CancelQueued(r) ==
  /\ phase = "serving"
  /\ r \in Cancellable
  /\ sched[r] \in {"queued", "waiting_on_user"}
  /\ CancelQueuedInside(r)
  /\ UNCHANGED <<now, cap, started, leaseVars, question, published, memory, backend>>

(* snapshot.attempts.at(-1)                                                 *)
LastAttempt(r) ==
  CHOOSE e \in AttemptsOf(r) : /\ att[e] # "none"
                               /\ \A f \in AttemptsOf(r) : att[f] # "none" => f[2] <= e[2]

(* A running run: backend.cancel is sent; the provider may stop the         *)
(* execution now, later or not at all.                                      *)
CancelRunning(r) ==
  /\ phase = "serving"
  /\ r \in Cancellable
  /\ sched[r] = "running"
  /\ pc[r] = "idle"
  /\ LastAttempt(r) \in started
  /\ pc' = [pc EXCEPT ![r] = "status"]
  /\ at' = [at EXCEPT ![r] = LastAttempt(r)]
  /\ backend' \in {backend, [backend EXCEPT ![LastAttempt(r)] =
                               IF @ \in Finished THEN @ ELSE "cancelled"]}
  /\ UNCHANGED <<now, durable, phase, instance, known, renewedAt, setup, driver, seen>>

Answerable(r) ==
  /\ phase = "serving"
  /\ question[r] = "pending"
  /\ sched[r] = "waiting_on_user"

(* "Wait for primary" (i = 0) or "Use fallback i", for every candidate the  *)
(* start did not reject.                                                    *)
AnswerCandidate(r, i) ==
  /\ Answerable(r)
  /\ cand[<<r, i>>] # "rejected"
  /\ Enqueue({<<r, i>>})
  /\ cand' = [cand EXCEPT ![<<r, i>>] = "queued"]
  /\ sched' = [sched EXCEPT ![r] = "queued"]
  /\ question' = [question EXCEPT ![r] = "answered"]
  /\ UNCHANGED <<now, current, cap, att, started, leaseVars, published, memory, backend>>

AnswerCancel(r) ==
  /\ Answerable(r)
  /\ CancelQueuedInside(r)
  /\ question' = [question EXCEPT ![r] = "answered"]
  /\ UNCHANGED <<now, cap, started, leaseVars, published, memory, backend>>

-----------------------------------------------------------------------------
(* The provider backend, time and the process.                              *)
BackendFinishes(e) ==
  /\ backend[e] \in {"running", "recovery_required"}
  /\ \E s \in {"succeeded", "failed"} : backend' = [backend EXCEPT ![e] = s]
  /\ UNCHANGED <<now, durable, memory>>

BackendLosesTrack(e) ==
  /\ "unreachable" \in Faults
  /\ backend[e] = "running"
  /\ backend' = [backend EXCEPT ![e] = "recovery_required"]
  /\ UNCHANGED <<now, durable, memory>>

(* The leases this process keeps alive.                                     *)
Kept == {e \in Attempts : setup[e] # "idle" \/ known[e] # 0}

(* A minute passes.  Unless the process may be suspended, setup and the     *)
(* renewals of its sweep (once a second, due every minute) keep ahead of    *)
(* the five minute expiry.                                                  *)
Tick ==
  /\ now < MaxTime
  /\ \/ "late" \in Faults
     \/ \A e \in Kept : lState[e] = "active" => lExp[e] > now + 1
  /\ now' = now + 1
  /\ UNCHANGED <<durable, memory, backend>>

Crash ==
  /\ "crash" \in Faults
  /\ instance < MaxInstance
  /\ phase # "down"
  /\ ProcessEnds
  /\ UNCHANGED <<now, durable, backend>>

(* Faulty: requests are served while the startup sweep still runs.          *)
RestartServing ==
  /\ phase = "down"
  /\ instance < MaxInstance
  /\ phase' = "serving"
  /\ instance' = instance + 1
  /\ pc' = [pc EXCEPT ![Boot] = "sweep"]
  /\ seen' = [seen EXCEPT ![Boot] = Snapshot]
  /\ UNCHANGED <<now, durable, known, renewedAt, setup, driver, at, backend>>

(* A new daemon: reconcile() runs to its end before anything is served.     *)
Restart ==
  /\ phase = "down"
  /\ instance < MaxInstance
  /\ phase' = "recovering"
  /\ instance' = instance + 1
  /\ pc' = [pc EXCEPT ![Boot] = "sweep"]
  /\ seen' = [seen EXCEPT ![Boot] = Snapshot]
  /\ UNCHANGED <<now, durable, known, renewedAt, setup, driver, at, backend>>

-----------------------------------------------------------------------------
Dispatch(x) ==
  \/ ClaimNothing(x)
  \/ \E e \in Attempts : ClaimCandidate(x, e)

Setup(e) ==
  \/ ProvisionFails(e) \/ DeadlineExhausted(e) \/ ProvisionDone(e)
  \/ RecordStart(e) \/ StartUnavailable(e) \/ StartFails(e)

(* The steps finishTerminal and the status call share.                      *)
Confirm(x) ==
  \/ \E e \in Attempts : HearStatus(x, e) \/ HearNothing(x, e)
  \/ FenceUnconfirmed(x) \/ RestoreThrows(x)
  \/ FinishThrows(x) \/ FinishCheck(x) \/ FinishComplete(x) \/ FinishTooLate(x)

Sweep(w) ==
  \/ SweepBegin(w) \/ SweepEnd(w) \/ Confirm(w)
  \/ RestoreLive(w) \/ RenewNotDue(w) \/ RenewLease(w) \/ RenewThrows(w)
  \/ Dispatch(w)
  \/ \E e \in Attempts : ClaimThrows(w, e)

Client(r) ==
  \/ StartRun(r) \/ CancelQueued(r) \/ CancelRunning(r) \/ AnswerCancel(r)
  \/ \E i \in Candidates : AnswerCandidate(r, i)

Backend(e) == BackendStarts(e) \/ BackendFinishes(e) \/ BackendLosesTrack(e)

Next ==
  \/ \E r \in Runs : Client(r) \/ Confirm(r)
  \/ \E w \in Sweepers : Sweep(w)
  \/ Dispatch("rpc")
  \/ \E e \in Attempts : Setup(e) \/ Backend(e)
  \/ \E x \in Actors : CrashAfterPublish(x)
  \/ Tick \/ Crash \/ Restart

Spec == Init /\ [][Next]_vars

(* The event loop resumes what is ready, the poll timer re-arms itself, the *)
(* client restarts a daemon that is gone, and a provider execution ends.    *)
Fairness ==
  /\ \A w \in Sweepers : WF_vars(Sweep(w))
  /\ \A r \in Runs : WF_vars(Confirm(r))
  /\ \A e \in Attempts : WF_vars(Setup(e)) /\ WF_vars(BackendStarts(e)) /\ WF_vars(BackendFinishes(e))
  /\ WF_vars(Restart)

FairSpec == Spec /\ Fairness

-----------------------------------------------------------------------------
ScheduleStates == {"absent", "queued", "waiting_on_user", "running", "terminal"}
CandidateStates == {"absent", "pending", "rejected", "queued", "selected", "succeeded", "failed"}
BackendStates == {"none", "running", "recovery_required"} \cup Finished
Positions == {"idle", "sweep", "live", "lost", "unreachable", "check", "complete", "dispatch",
              "setup", "status"}

(* Every variable holds a value of its column, map or position.             *)
StoreTypeOK ==
  /\ sched \in [Runs -> ScheduleStates]
  /\ current \in [Runs -> Candidates \cup {-1}]
  /\ cand \in [Attempts -> CandidateStates]
  /\ queue \subseteq Attempts
  /\ qSeq \in [Attempts -> Nat]
  /\ qAt \in [Attempts -> Nat]
  /\ nextSeq \in Nat
  /\ cap \in [Accounts -> Nat]
  /\ att \in [Attempts -> {"none"} \cup Open \cup Settled]
  /\ started \subseteq Attempts
  /\ lState \in [Attempts -> {"none", "active", "expired", "released"}]
  /\ lRev \in [Attempts -> Nat]
  /\ lExp \in [Attempts -> Nat]
  /\ lOwner \in [Attempts -> Nat]
  /\ question \in [Runs -> {"none", "pending", "answered"}]
  /\ published \subseteq Runs

ProcessTypeOK ==
  /\ phase \in {"down", "recovering", "serving"}
  /\ instance \in Nat
  /\ known \in [Attempts -> Nat]
  /\ renewedAt \in [Attempts -> Nat]
  /\ setup \in [Attempts -> {"idle", "provision", "start"}]
  /\ driver \in [Attempts -> Sweepers \cup {"rpc"}]
  /\ pc \in [Actors -> Positions]
  /\ at \in [Actors -> Attempts \cup {NoAttempt}]
  /\ seen \in [Sweepers -> [Attempts -> {"none"} \cup Open]]

TypeOK ==
  /\ now \in Nat
  /\ StoreTypeOK
  /\ ProcessTypeOK
  /\ backend \in [Attempts -> BackendStates]

(* A run is "running" exactly while one attempt of it is open, and that     *)
(* attempt is the schedule's current candidate: no claim, answer, sweep,    *)
(* cancel or late finisher leaves a run running with nothing to finish it,  *)
(* or an open attempt behind a settled run.                                 *)
OneLiveAttempt ==
  \A r \in Runs :
    LET open == {e \in AttemptsOf(r) : att[e] \in Open}
    IN /\ sched[r] = "running" => open = {<<r, current[r]>>}
       /\ sched[r] # "running" => open = {}

(* What an actor carries over an await stays true of the store: an attempt  *)
(* in setup is still queued and has no recorded execution, an attempt that  *)
(* a sweep listed or a sweep or cancel works on has one, and an attempt     *)
(* about to be finished has a final backend status.                         *)
HoldsAttempt == {"live", "lost", "unreachable", "check", "complete", "status"}

SetupIsQueued == \A e \in Attempts : setup[e] # "idle" => att[e] = "queued" /\ e \notin started
StartedExists == \A e \in started : att[e] # "none"
SeenIsStarted == \A w \in Sweepers : \A e \in Attempts : seen[w][e] # "none" => e \in started
HeldIsStarted == \A x \in Actors : pc[x] \in HoldsAttempt => at[x] \in started
FinishingIsFinished ==
  \A x \in Actors : pc[x] \in {"check", "complete"} => backend[at[x]] \in Finished

AwaitsStayValid ==
  /\ SetupIsQueued
  /\ StartedExists
  /\ SeenIsStarted
  /\ HeldIsStarted
  /\ FinishingIsFinished

(* The queue holds candidates of queued runs only, in state "queued": a     *)
(* winning claim, a question, a cancel or a settled attempt leaves no       *)
(* sibling membership that could start the run twice.                       *)
QueueMatchesSchedule ==
  \A e \in queue : sched[e[1]] = "queued" /\ cand[e] = "queued"

(* The start accepted a candidate its policy enrols. *)
Enrollable(r) == Enrolled(r) # {}

(* While the daemon serves, an attempt whose execution is recorded and open *)
(* holds an unexpired lease of this daemon, at the revision the daemon      *)
(* remembers, so no claim can hand its capacity to another run (D2:         *)
(* "restores non-orphan active attempts before dispatching").               *)
LiveAttemptHasLease ==
  phase = "serving" =>
    \A e \in started : att[e] \in Open =>
      /\ lState[e] = "active"
      /\ lExp[e] > now
      /\ lOwner[e] = instance
      /\ lRev[e] = known[e]

(* D3: a fallback begins only after the prior attempt ended: at most one    *)
(* attempt of a run has a live execution at the provider.                   *)
OneLiveExecutionPerRun ==
  \A r \in Runs : \A e, f \in AttemptsOf(r) :
    backend[e] \in {"running", "recovery_required"} /\ backend[f] \in {"running", "recovery_required"}
      => e = f

(* An attempt recorded as succeeded has its artifact published.             *)
SucceededIsPublished ==
  \A e \in Attempts : att[e] = "succeeded" => e[1] \in published

(* A settled attempt and a terminal schedule never change again: a late     *)
(* finisher, a stale sweep or a restart cannot reopen or rewrite them.      *)
SettledIsFinal ==
  [][/\ \A e \in Attempts : att[e] \in Settled => att'[e] = att[e]
     /\ \A r \in Runs : sched[r] = "terminal" => sched'[r] = "terminal"]_vars

(* ADR 0020: "A daemon crash cannot silently free capacity for a backend    *)
(* attempt that still exists": live executions of open attempts stay within *)
(* the account's capacity.                                                  *)
CrashKeepsCapacity ==
  \A a \in Accounts :
    Cardinality({e \in Attempts : /\ Account(e) = a
                                  /\ att[e] \in Open
                                  /\ backend[e] \in {"running", "recovery_required"}}) <= cap[a]

(* A queued run that does not depend on a user is eventually settled: the   *)
(* claims, the sweeps and the fallbacks of every interleaving get there.    *)
RunsSettle ==
  \A r \in Runs :
    (sched[r] = "queued" /\ Policy[r] # "ask" /\ Enrollable(r)) ~> (sched[r] = "terminal")
=============================================================================
