-------------------------- MODULE ExecutionService --------------------------
(***************************************************************************)
(* One externally executed stage: the handlers and the observer loop of    *)
(* packages/daemon/src/runtime/execution-service.ts over the stage         *)
(* execution row, the interactions and the operation outbox of             *)
(* packages/state/src/{execution,interaction}/store.ts.  Handlers and loop *)
(* interleave at their awaits; a transaction and what follows it without   *)
(* an await is one step, except where a crash in between matters.          *)
(***************************************************************************)
EXTENDS ClaudexorBackend

CONSTANTS Resumes,     \* operation ids of explicit resumes
          MaxFaults,   \* bound: calls that fail or whose answer is lost
          MaxCrashes   \* bound: daemon crashes

VARIABLES row,       \* stage_execution: [status, handle, finalized], run_projection.status
          question,  \* interaction projection per id: [state, delivery]
          replayed,  \* the same, as the journal replays it
          outbox,    \* execution_operation_outbox per operation
          artifact,  \* [alias, import]: the completed stage and its import row
          place,     \* the managed workspace: [path, lease]
          starter,   \* where the start handler is
          look,      \* the observation in flight: [pc, status, known, loop]
          sending,   \* the deliveries in flight, per operation
          faults, crashes

svars == <<row, question, replayed, outbox, artifact, place, starter, look, sending, faults, crashes>>
vars == <<engine, row, question, replayed, outbox, artifact, place, starter, look, sending, faults, crashes>>

Ops == Questions \cup Resumes
Terminal == {"succeeded", "failed", "cancelled"}
Blank == [state |-> "none", delivery |-> "not_applicable"]
Resting == [pc |-> "idle", status |-> "none", known |-> FALSE, loop |-> FALSE]

Init ==
    /\ engine = NoEngine
    /\ row = [status |-> "none", run |-> "none", handle |-> FALSE, finalized |-> FALSE]
    /\ question = [q \in Questions |-> Blank]
    /\ replayed = [q \in Questions |-> Blank]
    /\ outbox = [o \in Ops |-> "none"]
    /\ artifact = [alias |-> FALSE, import |-> "none"]
    /\ place = [path |-> FALSE, lease |-> FALSE]
    /\ starter = "idle"
    /\ look = Resting
    /\ sending = [o \in Ops |-> "idle"]
    /\ faults = 0
    /\ crashes = 0

Fault == faults < MaxFaults /\ faults' = faults + 1

-----------------------------------------------------------------------------
(* The store *)

\* Both tables follow the status; a terminal one is overwritten like any other.
updateStageExecutionStatus(r, status) == [r EXCEPT !.run = status, !.status = status]

\* One-shot: enabled by markable only.
markable(r) == ~r.finalized
markExecutionFinalized(r, status) == [r EXCEPT !.status = status, !.finalized = TRUE]

\* interaction/replay.ts, one event.
Replay(p, type) ==
    CASE type = "created" /\ p.state = "none" -> [state |-> "pending", delivery |-> "not_applicable"]
      [] type = "answer_accepted" /\ p.state = "pending" -> [state |-> "answered", delivery |-> "pending"]
      [] type = "cancelled" /\ p.state = "pending" -> [state |-> "cancelled", delivery |-> "not_applicable"]
      [] type = "answer_delivered" /\ p = [state |-> "answered", delivery |-> "pending"] ->
            [state |-> "answered", delivery |-> "delivered"]
      [] OTHER -> [state |-> "corrupt", delivery |-> "corrupt"]

\* New questions are recorded once; a pending one is cancelled when the run is over or the backend
\* no longer lists it.
synchronizePendingInteractions(active, status) ==
    LET created == {q \in active : question[q].state = "none"}
        asked == created \cup {q \in Questions : question[q].state = "pending"}
        dropped == {q \in asked : status \in Terminal \/ q \notin active}
    IN  /\ question' = [q \in Questions |->
              CASE q \in dropped -> [state |-> "cancelled", delivery |-> "not_applicable"]
                [] q \in created \ dropped -> [state |-> "pending", delivery |-> "not_applicable"]
                [] OTHER -> question[q]]
        /\ replayed' = [q \in Questions |->
              LET p == IF q \in created THEN Replay(replayed[q], "created") ELSE replayed[q]
              IN  IF q \in dropped THEN Replay(p, "cancelled") ELSE p]

\* answer(): answer, event and outbox row in one transaction; delivery follows.
acceptInteractionAnswer(q) ==
    /\ row.status \notin Terminal
    /\ question[q].state = "pending"
    /\ question' = [question EXCEPT ![q] = [state |-> "answered", delivery |-> "pending"]]
    /\ replayed' = [replayed EXCEPT ![q] = Replay(@, "answer_accepted")]
    /\ outbox' = [outbox EXCEPT ![q] = "pending"]
    /\ UNCHANGED <<engine, row, artifact, place, starter, look, sending, faults, crashes>>

\* resume(): explicit, from recovery_required only.
requestRunResume(o) ==
    /\ row.status = "recovery_required"
    /\ row.handle
    /\ outbox[o] = "none"
    /\ outbox' = [outbox EXCEPT ![o] = "pending"]
    /\ UNCHANGED <<engine, row, question, replayed, artifact, place, starter, look, sending, faults, crashes>>

-----------------------------------------------------------------------------
(* The outbox *)

\* deliverOperation, from a handler or from the loop's drain; one at a time per operation.
deliverOperation(o) ==
    /\ outbox[o] = "pending"
    /\ row.handle
    /\ sending[o] = "idle"
    /\ sending' = [sending EXCEPT ![o] = "calling"]
    /\ UNCHANGED <<engine, row, question, replayed, outbox, artifact, place, starter, look, faults, crashes>>

\* The backend call: it takes effect or is refused, and its answer may be lost.
BackendAcknowledges(o) ==
    /\ sending[o] = "calling"
    /\ o \in Questions => answerAccepted(engine, o)
    /\ engine' = IF o \in Questions THEN answer(engine, o) ELSE createTurn(engine, o)
    /\ \/ sending' = [sending EXCEPT ![o] = "acked"] /\ UNCHANGED faults
       \/ sending' = [sending EXCEPT ![o] = "idle"] /\ Fault
    /\ UNCHANGED <<row, question, replayed, outbox, artifact, place, starter, look, crashes>>

\* Mutant of recordExecutionOperationFailure: a call that failed counts as made.
giveUpAfterFailure(o) ==
    /\ sending[o] = "calling"
    /\ Fault
    /\ sending' = [sending EXCEPT ![o] = "idle"]
    /\ outbox' = [outbox EXCEPT ![o] = "delivered"]
    /\ IF o \in Questions
       THEN /\ question' = [question EXCEPT ![o].delivery = "delivered"]
            /\ replayed' = [replayed EXCEPT ![o] = Replay(@, "answer_delivered")]
       ELSE UNCHANGED <<question, replayed>>
    /\ UNCHANGED <<engine, row, artifact, place, starter, look, crashes>>

\* recordExecutionOperationFailure: the operation stays pending and is retried.
recordExecutionOperationFailure(o) ==
    /\ sending[o] = "calling"
    /\ \/ o \in Questions /\ ~answerAccepted(engine, o) /\ UNCHANGED faults
       \/ Fault
    /\ sending' = [sending EXCEPT ![o] = "idle"]
    /\ UNCHANGED <<engine, row, question, replayed, outbox, artifact, place, starter, look, crashes>>

\* Outbox, event and projection in one transaction; a resumed run is set to running whatever it
\* became meanwhile.
markExecutionOperationDelivered(o) ==
    /\ sending[o] = "acked"
    /\ outbox' = [outbox EXCEPT ![o] = "delivered"]
    /\ IF o \in Questions
       THEN /\ question' = [question EXCEPT ![o].delivery = "delivered"]
            /\ replayed' = [replayed EXCEPT ![o] = Replay(@, "answer_delivered")]
            /\ UNCHANGED row
       ELSE /\ row' = updateStageExecutionStatus(row, "running")
            /\ UNCHANGED <<question, replayed>>
    /\ sending' = [sending EXCEPT ![o] = "idle"]
    /\ UNCHANGED <<engine, artifact, place, starter, look, faults, crashes>>

-----------------------------------------------------------------------------
(* Starting *)

\* start(): run, workspace and stage rows, then provisioning.
createStageExecution ==
    /\ starter = "idle" /\ row.status = "none"
    /\ row' = [row EXCEPT !.status = "queued", !.run = "queued"]
    /\ starter' = "provisioning"
    /\ UNCHANGED <<engine, question, replayed, outbox, artifact, place, look, sending, faults, crashes>>

\* The workspace service records the checkout path before the workspace is ready.
CheckoutRecorded ==
    /\ starter = "provisioning" /\ ~place.path
    /\ place' = [path |-> TRUE, lease |-> TRUE]
    /\ UNCHANGED <<engine, row, question, replayed, outbox, artifact, starter, look, sending, faults, crashes>>

ProvisioningEnds ==
    /\ starter = "provisioning"
    /\ \/ place.path /\ starter' = "thread" /\ UNCHANGED <<row, place, faults>>
       \/ /\ Fault
          /\ markable(row)
          /\ row' = markExecutionFinalized(updateStageExecutionStatus(row, "failed"), "failed")
          /\ place' = [place EXCEPT !.lease = FALSE]
          /\ starter' = "done"
    /\ UNCHANGED <<engine, question, replayed, outbox, artifact, look, sending, crashes>>

\* ensureBackendHandle as start() reaches it: thread, then first turn, then the row.
StarterCalls ==
    /\ \/ /\ starter = "thread" /\ row.handle
          /\ starter' = "done"
          /\ row' = updateStageExecutionStatus(row, "running")
          /\ UNCHANGED <<engine, faults>>
       \/ /\ starter = "thread" /\ ~row.handle
          /\ engine' = createThread(engine)
          /\ \/ starter' = "turn" /\ UNCHANGED faults
             \/ starter' = "done" /\ Fault
          /\ UNCHANGED row
       \/ /\ starter = "turn"
          /\ engine' = createTurn(engine, "initial")
          /\ \/ /\ starter' = "done"
                /\ row' = updateStageExecutionStatus([row EXCEPT !.handle = TRUE], "running")
                /\ UNCHANGED faults
             \/ starter' = "done" /\ Fault /\ UNCHANGED row
    /\ UNCHANGED <<question, replayed, outbox, artifact, place, look, sending, crashes>>

-----------------------------------------------------------------------------
(* Observation *)

\* What the loop's catch does with an error of observe; a handler only reports it.
Abandoned == IF look.loop /\ look.known THEN updateStageExecutionStatus(row, "recovery_required") ELSE row

\* observe(): one at a time; a terminal row is left alone.  An execution without a handle is
\* started as soon as its workspace has a path.
observe(loop) ==
    /\ look.pc = "idle"
    /\ row.status \notin Terminal \cup {"none"}
    /\ row.handle \/ place.path
    /\ look' = [pc |-> IF row.handle THEN "status" ELSE "thread", status |-> "none",
                known |-> row.handle, loop |-> loop]
    /\ UNCHANGED <<engine, row, question, replayed, outbox, artifact, place, starter, sending, faults, crashes>>

ensureBackendHandle ==
    /\ \/ /\ look.pc = "thread"
          /\ engine' = createThread(engine)
          /\ look' = [look EXCEPT !.pc = "turn"]
          /\ UNCHANGED row
       \/ /\ look.pc = "turn"
          /\ engine' = createTurn(engine, "initial")
          /\ look' = [look EXCEPT !.pc = "status"]
          /\ row' = [row EXCEPT !.handle = TRUE]
    /\ UNCHANGED <<question, replayed, outbox, artifact, place, starter, sending, faults, crashes>>

AskStatus ==
    /\ look.pc = "status"
    /\ look' = [look EXCEPT !.pc = "interactions", !.status = mapStatus(engine)]
    /\ UNCHANGED <<engine, row, question, replayed, outbox, artifact, place, starter, sending, faults, crashes>>

\* The questions are read after the status and recorded with it; a run that is not over is done.
AskInteractions ==
    /\ look.pc = "interactions"
    /\ synchronizePendingInteractions(interactions(engine), look.status)
    /\ IF look.status \in Terminal
       THEN /\ look' = [look EXCEPT !.pc = IF look.status = "succeeded" THEN "result" ELSE "ended"]
            /\ UNCHANGED row
       ELSE /\ look' = Resting
            /\ row' = updateStageExecutionStatus(row, look.status)
    /\ UNCHANGED <<engine, outbox, artifact, place, starter, sending, faults, crashes>>

\* The failed or cancelled branch of observe, once the result is read.
RecordFailure ==
    /\ look.pc = "ended"
    /\ resultProfile(engine)
    /\ look' = Resting
    /\ IF markable(row)
       THEN /\ row' = markExecutionFinalized(updateStageExecutionStatus(row, look.status), look.status)
            /\ place' = [place EXCEPT !.lease = FALSE]
       ELSE /\ row' = IF look.loop /\ look.known
                      THEN updateStageExecutionStatus(row, "recovery_required")
                      ELSE updateStageExecutionStatus(row, look.status)
            /\ UNCHANGED place
    /\ UNCHANGED <<engine, question, replayed, outbox, artifact, starter, sending, faults, crashes>>

\* A backend read of the observation fails, or the head run it asks about is no longer over.
ObservationFails ==
    /\ look.pc \in {"thread", "turn", "status", "interactions", "ended"}
    /\ \/ look.pc = "ended" /\ ~resultProfile(engine) /\ UNCHANGED faults
       \/ Fault
    /\ look' = Resting
    /\ row' = Abandoned
    /\ UNCHANGED <<engine, question, replayed, outbox, artifact, place, starter, sending, crashes>>

\* finalizeSuccess up to its last await: result, listing and bytes.  A stage completed before a
\* crash only needs its result.
ReadResult ==
    /\ look.pc = "result"
    /\ resultProfile(engine)
    /\ look' = [look EXCEPT !.pc = IF artifact.alias THEN "import" ELSE "publish"]
    /\ UNCHANGED <<engine, row, question, replayed, outbox, artifact, place, starter, sending, faults, crashes>>

\* finalizeStageArtifact: the artifact, its import row and the run in turn.
PublishArtifact ==
    /\ look.pc = "publish"
    /\ artifact' = [alias |-> TRUE, import |-> "pending"]
    /\ row' = [row EXCEPT !.run = "succeeded"]
    /\ look' = [look EXCEPT !.pc = "import"]
    /\ UNCHANGED <<engine, question, replayed, outbox, place, starter, sending, faults, crashes>>

\* markArtifactImport, or completePendingArtifactImports after a crash.
CompleteImport ==
    /\ look.pc = "import"
    /\ artifact' = [artifact EXCEPT !.import = "completed"]
    /\ look' = [look EXCEPT !.pc = "mark"]
    /\ UNCHANGED <<engine, row, question, replayed, outbox, place, starter, sending, faults, crashes>>

FinalizeSuccess ==
    /\ look.pc = "mark"
    /\ markable(row)
    /\ row' = markExecutionFinalized(row, "succeeded")
    /\ look' = [look EXCEPT !.pc = "release"]
    /\ UNCHANGED <<engine, question, replayed, outbox, artifact, place, starter, sending, faults, crashes>>

ReleaseLease ==
    /\ look.pc = "release"
    /\ place' = [place EXCEPT !.lease = FALSE]
    /\ look' = Resting
    /\ UNCHANGED <<engine, row, question, replayed, outbox, artifact, starter, sending, faults, crashes>>

\* observe's catch around finalizeSuccess: the status is rewritten first, then the one-shot
\* finalization refuses a row that is already final and the error goes on to the caller.
FinalizeFails ==
    /\ \/ look.pc = "result" /\ ~resultProfile(engine) /\ UNCHANGED faults
       \/ look.pc = "mark" /\ ~markable(row) /\ UNCHANGED faults
       \/ look.pc \in {"result", "publish", "release"} /\ Fault
    /\ look' = Resting
    /\ IF markable(row)
       THEN /\ row' = markExecutionFinalized(updateStageExecutionStatus(row, "failed"), "failed")
            /\ place' = [place EXCEPT !.lease = FALSE]
       ELSE /\ row' = IF look.loop /\ look.known
                      THEN updateStageExecutionStatus(row, "recovery_required")
                      ELSE updateStageExecutionStatus(row, "failed")
            /\ UNCHANGED place
    /\ UNCHANGED <<engine, question, replayed, outbox, artifact, starter, sending, crashes>>

\* cancel(): the engine is asked, then the run is observed.
cancelRun ==
    /\ row.handle
    /\ row.status \notin Terminal
    /\ engine' = cancel(engine)
    /\ UNCHANGED svars

Crash ==
    /\ crashes < MaxCrashes
    /\ crashes' = crashes + 1
    /\ starter' = IF starter = "idle" THEN "idle" ELSE "done"
    /\ look' = Resting
    /\ sending' = [o \in Ops |-> "idle"]
    /\ UNCHANGED <<engine, row, question, replayed, outbox, artifact, place, faults>>

-----------------------------------------------------------------------------
\* Between these an observation does not await.
Synchronous == PublishArtifact \/ CompleteImport \/ FinalizeSuccess \/ ReleaseLease

Observing ==
    \/ observe(TRUE) \/ ensureBackendHandle \/ AskStatus \/ AskInteractions
    \/ RecordFailure \/ ReadResult

Engine == (EngineWorks \/ EngineEnds \/ EngineWithdraws) /\ UNCHANGED svars

Awaiting ==
    \/ createStageExecution \/ CheckoutRecorded \/ ProvisioningEnds \/ StarterCalls
    \/ \E q \in Questions : acceptInteractionAnswer(q)
    \/ \E o \in Resumes : requestRunResume(o)
    \/ \E o \in Ops : deliverOperation(o)
    \/ \E o \in Ops : BackendAcknowledges(o)
    \/ \E o \in Ops : recordExecutionOperationFailure(o)
    \/ \E o \in Ops : markExecutionOperationDelivered(o)
    \/ observe(FALSE)
    \/ Observing
    \/ ObservationFails
    \/ cancelRun
    \/ Engine

AtAwait == look.pc \notin {"publish", "import", "mark", "release"}

Next ==
    \/ ~AtAwait /\ Synchronous
    \/ FinalizeFails
    \/ AtAwait /\ Awaiting
    \/ Crash

\* The loop keeps polling, its calls answer, and the drain retries what is pending.
Fairness ==
    /\ WF_vars(Synchronous \/ FinalizeFails)
    /\ WF_vars(AtAwait /\ (Observing \/ ObservationFails))
    /\ \A o \in Questions :
          /\ WF_vars(AtAwait /\ deliverOperation(o))
          /\ WF_vars(AtAwait /\ (BackendAcknowledges(o) \/ recordExecutionOperationFailure(o)))
          /\ WF_vars(AtAwait /\ markExecutionOperationDelivered(o))

Spec == Init /\ [][Next]_vars /\ Fairness

-----------------------------------------------------------------------------
(* Properties *)

\* However often start, the observer and a restarted daemon try, the engine starts the stage once.
OneInitialTurn ==
    Cardinality({i \in DOMAIN engine.turns : engine.turns[i].key = "initial"}) <= 1

\* An accepted answer reaches the engine, or the question is moot: withdrawn there, or the run is over.
AnswersReachTheEngine ==
    \A q \in Questions : question[q].state = "answered" ~> q \notin engine.waiting

=============================================================================
