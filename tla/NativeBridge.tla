---------------------------- MODULE NativeBridge ----------------------------
(***************************************************************************)
(* The native bridge: stages executed by a connected parent session.       *)
(* packages/state/src/native-bridge/store.ts holds the tables and their    *)
(* transactions, packages/daemon/src/runtime/native-bridge-service.ts the  *)
(* handlers, which await workspace provisioning between two transactions.  *)
(* A claim makes exactly one attempt and one dispatch, so both are named   *)
(* by the run and the attempt ordinal.  All runs and sessions belong to    *)
(* one codebase: every sweep and claim is scoped to one.  A session id is  *)
(* minted by each attach, so its revision only tells a caller from an      *)
(* older copy of itself: a call with a stale one is refused after its      *)
(* sweep, and is the sweep alone.                                          *)
(***************************************************************************)
EXTENDS Naturals, Sequences, FiniteSets, FiniteSetsExt, Functions

CONSTANTS Runs,          \* native runs
          Sessions,      \* parent session ids, minted once each
          Verdicts,      \* what the injected witness classifier may answer
          MaxAttempts,   \* bound: attempts of a run
          MaxQuestions,  \* bound: questions of a run
          MaxCrashes     \* bound: daemon crashes

VARIABLES tables,   \* the database: sessions, stages, dispatches, questions, runs
          serving,  \* the poll of each session that awaits provisioning
          held,     \* the dispatch revision the parent holds, 0 if never told
          pending,  \* what the handler still does synchronously: <<>> or <<step, run, ordinal>>
          outages

vars == <<tables, serving, held, pending, outages>>

Live == {"attached", "stalled"}
Open == {"dispatched", "waiting_on_user"}
SettledRun == {"succeeded", "failed", "cancelled"}
NoPoll == [todo |-> {}, done |-> {}, busy |-> FALSE]
Dispatches(T) == {d \in Runs \X (1..MaxAttempts) : d[2] <= Len(T.dispatch[d[1]])}
QuestionsOf(T, d) == {i \in DOMAIN T.question[d[1]] : T.question[d[1]][i].dispatch = d[2]}

Init ==
    /\ tables = [session  |-> [s \in Sessions |-> [state |-> "none", late |-> FALSE]],
                 stage    |-> [r \in Runs |-> [state |-> "none", attempt |-> 0]],
                 dispatch |-> [r \in Runs |-> <<>>],
                 question |-> [r \in Runs |-> <<>>],
                 replayed |-> [r \in Runs |-> <<>>],
                 run      |-> [r \in Runs |-> "none"]]
    /\ serving = [s \in Sessions |-> NoPoll]
    /\ held = [d \in Runs \X (1..MaxAttempts) |-> 0]
    /\ pending = <<>>
    /\ outages = 0

-----------------------------------------------------------------------------
(* The journal of questions and its replay *)

\* native-bridge/replay.ts: the projection one event turns another into.
Replay(previous, type) ==
    CASE type = "raised" -> [state |-> "pending", delivery |-> "not_applicable"]
      [] type = "answered" /\ previous.state = "pending" ->
            [state |-> "answered", delivery |-> "pending"]
      [] type = "cancelled" /\ previous.state = "pending" ->
            [state |-> "cancelled", delivery |-> "not_applicable"]
      [] type = "delivered" /\ previous = [state |-> "answered", delivery |-> "pending"] ->
            [state |-> "answered", delivery |-> "delivered"]
      [] OTHER -> [state |-> "corrupt", delivery |-> "corrupt"]

Extended(log, i, type) ==
    IF i > Len(log) THEN Append(log, Replay(<<>>, type))
                    ELSE [log EXCEPT ![i] = Replay(@, type)]

appendNativeEvent(T, r, i, type) == [T EXCEPT !.replayed[r] = Extended(@, i, type)]

cancelNativeQuestion(T, r, i) ==
    IF T.question[r][i].state # "pending" THEN T
    ELSE [appendNativeEvent(T, r, i, "cancelled") EXCEPT
             !.question[r][i] = [@ EXCEPT !.state = "cancelled", !.delivery = "not_applicable"]]

-----------------------------------------------------------------------------
(* Rows *)

\* A dispatch's state changes with its revision.
Moved(row, state) == [row EXCEPT !.state = state, !.rev = @ + 1]

\* A dispatch is closed with its attempt.
Closed(row, attempt) == [Moved(row, "abandoned") EXCEPT !.attempt = attempt]

\* A dispatch or a stage waits no longer.
Reopened(row) == IF row.state = "waiting_on_user" THEN [row EXCEPT !.state = "dispatched"] ELSE row

-----------------------------------------------------------------------------
(* Reaping *)

\* The dispatch is closed, its attempt and its stage wait for an operator.  Only the first question
\* the dispatch ever raised is withdrawn (`.get`).
abandonDispatchAndRecover(T, d) ==
    LET r == d[1]
        n == d[2]
        closed == [T EXCEPT !.dispatch[r][n] =
                      Closed(@, IF @.attempt = "running" THEN "recovery_required" ELSE @.attempt)]
        withdrawn == IF QuestionsOf(T, d) = {} THEN closed
                     ELSE cancelNativeQuestion(closed, r, Min(QuestionsOf(T, d)))
    IN  CASE T.dispatch[r][n].state \notin Open -> T
          [] T.dispatch[r][n].state \in Open /\ T.stage[r].state \in Open ->
                [withdrawn EXCEPT !.stage[r] = [@ EXCEPT !.state = "recovery_required"],
                                  !.run[r] = "recovery_required"]
          [] OTHER -> withdrawn

\* The classifier is asked about sessions past their lease.
Overdue(s) == tables.session[s].state \in Live /\ tables.session[s].late
Heard == IF \E s \in Sessions : Overdue(s) THEN Verdicts ELSE {"unknown"}

\* Sessions past their lease are stalled or expired, then every open dispatch whose session is not
\* live is abandoned: the sweep's two loops close the same dispatches.
reapExpirations(T, verdict) ==
    LET swept == [s \in Sessions |->
            LET row == T.session[s]
            IN  CASE row.state \in Live /\ row.late /\ verdict = "alive" ->
                        [row EXCEPT !.state = "stalled"]
                  [] row.state \in Live /\ row.late /\ verdict # "alive" ->
                        [row EXCEPT !.state = "expired"]
                  [] OTHER -> row]
        lost == {d \in Dispatches(T) :
                    /\ T.dispatch[d[1]][d[2]].state \in Open
                    /\ swept[T.dispatch[d[1]][d[2]].session].state \notin Live}
        marked == [T EXCEPT !.session = swept]
    IN  IF lost = {} THEN marked
        ELSE FoldSet(LAMBDA d, acc : abandonDispatchAndRecover(acc, d), marked, lost)

\* The timer's sweep; also all that a refused call leaves behind.
reapAllExpiredParentSessions ==
    \E verdict \in Heard :
        /\ tables' = reapExpirations(tables, verdict)
        /\ UNCHANGED <<serving, held, pending, outages>>

LeaseRunsOut(s) ==
    /\ tables.session[s].state \in Live
    /\ ~tables.session[s].late
    /\ tables' = [tables EXCEPT !.session[s] = [@ EXCEPT !.late = TRUE]]
    /\ UNCHANGED <<serving, held, pending, outages>>

-----------------------------------------------------------------------------
(* Stages and sessions *)

\* start(): run.created is committed, the stage row in a transaction of its own.
createNativeStage(r) ==
    /\ tables.run[r] = "none"
    /\ tables' = [tables EXCEPT !.run[r] = "created"]
    /\ pending' = <<"stage", r, 0>>
    /\ UNCHANGED <<serving, held, outages>>

InsertStage(r) ==
    /\ pending = <<"stage", r, 0>>
    /\ tables' = [tables EXCEPT !.stage[r] = [@ EXCEPT !.state = "waiting_for_parent"],
                                !.run[r] = "waiting_for_parent_session"]
    /\ pending' = <<>>
    /\ UNCHANGED <<serving, held, outages>>

\* A fresh session; a rebind supersedes the previous one and takes over the dispatches it lists.
attachParentSession(s, previous, resumed) ==
    \E verdict \in Heard :
        LET T == reapExpirations(tables, verdict)
            minted == [T EXCEPT !.session[s] = [state |-> "attached", late |-> FALSE]]
            taken == {d \in resumed : /\ T.dispatch[d[1]][d[2]].session \in previous
                                      /\ T.dispatch[d[1]][d[2]].state \in Open}
        IN  /\ T.session[s].state = "none"
            /\ \A p \in previous : T.session[p].state \in Live
            /\ tables' = [minted EXCEPT
                  !.session = [p \in Sessions |-> IF p \in previous
                                  THEN [@[p] EXCEPT !.state = "superseded"]
                                  ELSE @[p]],
                  !.dispatch = [r \in Runs |-> [n \in DOMAIN @[r] |-> IF <<r, n>> \in taken
                                  THEN [Moved(@[r][n], @[r][n].state) EXCEPT !.session = s]
                                  ELSE @[r][n]]]]
            /\ held' = [d \in DOMAIN held |-> IF d \in taken THEN held[d] + 1 ELSE held[d]]
            /\ UNCHANGED <<serving, pending, outages>>

\* One listed dispatch of a detaching session: redispatchable only when it never asked anything.
releaseDispatch(T, d, notStarted) ==
    LET r == d[1]
        n == d[2]
    IN  CASE T.dispatch[r][n].state \notin Open -> T
          [] T.dispatch[r][n].state \in Open /\ d \in notStarted /\ QuestionsOf(T, d) = {} ->
                [T EXCEPT !.dispatch[r][n] = Closed(@, "cancelled"),
                          !.stage[r] = [state |-> "waiting_for_parent", attempt |-> 0],
                          !.run[r] = "waiting_for_parent_session"]
          [] OTHER -> abandonDispatchAndRecover(T, d)

detachParentSession(s, listed, notStarted) ==
    \E verdict \in Heard :
        LET T == reapExpirations(tables, verdict)
            own == {d \in listed : T.dispatch[d[1]][d[2]].session = s}
            released == FoldSet(LAMBDA d, acc : releaseDispatch(acc, d, notStarted), T, own)
        IN  /\ T.session[s].state \in Live
            /\ tables' = [released EXCEPT !.session[s] = [@ EXCEPT !.state = "detached"]]
            /\ UNCHANGED <<serving, held, pending, outages>>

-----------------------------------------------------------------------------
(* Polling *)

\* Answers accepted since the last poll, for the dispatches the session holds now.
dueResumes(T, s) ==
    {q \in Runs \X (1..MaxQuestions) :
        /\ q[2] <= Len(T.question[q[1]])
        /\ T.question[q[1]][q[2]].state = "answered"
        /\ T.question[q[1]][q[2]].delivery = "pending"
        /\ T.dispatch[q[1]][T.question[q[1]][q[2]].dispatch].session = s}

\* Each of them is handed over with its entry in the journal.
deliver(T, due) ==
    [T EXCEPT !.question = [r \in Runs |-> [i \in DOMAIN @[r] |->
                  IF <<r, i>> \in due THEN [@[r][i] EXCEPT !.delivery = "delivered"] ELSE @[r][i]]],
              !.replayed = [r \in Runs |-> [i \in DOMAIN @[r] |->
                  IF <<r, i>> \in due THEN Replay(@[r][i], "delivered") ELSE @[r][i]]]]

\* A claim makes the next attempt of its stage and the dispatch of it.
claim(T, s, claimed) ==
    [T EXCEPT !.stage = [r \in Runs |-> IF r \in claimed
                  THEN [state |-> "dispatched", attempt |-> Len(T.dispatch[r]) + 1] ELSE @[r]],
              !.dispatch = [r \in Runs |-> IF r \in claimed
                  THEN Append(@[r], [session |-> s, state |-> "dispatched", rev |-> 1,
                                     outcome |-> "none", attempt |-> "running",
                                     workspace |-> FALSE])
                  ELSE @[r]],
              !.run = [r \in Runs |-> IF r \in claimed THEN "running" ELSE @[r]]]

\* Renews the lease, claims stages, hands over answers; the claims still need their workspaces.
pollNativeBridge(s, claimed) ==
    \E verdict \in Heard :
        LET T == reapExpirations(tables, verdict)
            renewed == [T EXCEPT !.session[s] = [state |-> "attached", late |-> FALSE]]
            due == dueResumes(T, s)
            owed == {<<q[1], T.question[q[1]][q[2]].dispatch>> : q \in due}
        IN  /\ ~serving[s].busy
            /\ T.session[s].state \in Live
            /\ \A r \in claimed : /\ T.stage[r].state = "waiting_for_parent"
                                  /\ Len(T.dispatch[r]) < MaxAttempts
            /\ tables' = deliver(claim(renewed, s, claimed), due)
            /\ serving' = [serving EXCEPT ![s] =
                    [todo |-> {<<r, Len(T.dispatch[r]) + 1>> : r \in claimed},
                     done |-> {}, busy |-> claimed # {}]]
            /\ held' = [d \in DOMAIN held |->
                    IF d \in owed THEN T.dispatch[d[1]][d[2]].rev ELSE held[d]]
            /\ UNCHANGED <<pending, outages>>

assignNativeAttemptWorkspace(s, d) ==
    /\ d \in serving[s].todo
    /\ tables' = [tables EXCEPT !.dispatch[d[1]][d[2]] = [@ EXCEPT !.workspace = TRUE]]
    /\ serving' = [serving EXCEPT ![s].todo = @ \ {d}, ![s].done = @ \cup {d}]
    /\ UNCHANGED <<held, pending, outages>>

\* Provisioning failed: attempt, dispatch, stage and run are written whatever happened to them
\* during the await.
recordNativeAttemptWorkspaceFailure(s, d) ==
    /\ d \in serving[s].todo
    /\ tables.dispatch[d[1]][d[2]].state \notin {"submitted", "revoked"}
    /\ tables' = [tables EXCEPT
            !.dispatch[d[1]][d[2]] = Closed(@, "failed"),
            !.stage[d[1]] = [state |-> "waiting_for_parent", attempt |-> 0],
            !.run[d[1]] = "waiting_for_parent_session"]
    /\ serving' = [serving EXCEPT ![s].todo = @ \ {d}, ![s].done = @ \cup {d}]
    /\ UNCHANGED <<held, pending, outages>>

\* The trigger native_dispatch_settlement_final refuses the failure of a dispatch cancelled
\* meanwhile: the transaction is rolled back and the whole poll ends with an error, its other
\* claims never provisioned nor told.
PollAborts(s, d) ==
    /\ d \in serving[s].todo
    /\ tables.dispatch[d[1]][d[2]].state \in {"submitted", "revoked"}
    /\ serving' = [serving EXCEPT ![s] = NoPoll]
    /\ UNCHANGED <<tables, held, pending, outages>>

\* The response tells the parent its dispatches, unless it is lost on the way.
PollReturns(s, lost) ==
    /\ serving[s].busy
    /\ serving[s].todo = {}
    /\ held' = [d \in DOMAIN held |->
            IF d \in serving[s].done /\ ~lost THEN 1 ELSE held[d]]
    /\ serving' = [serving EXCEPT ![s] = NoPoll]
    /\ UNCHANGED <<tables, pending, outages>>

-----------------------------------------------------------------------------
(* Questions and submissions *)

\* The caller's tuple against the row: session live, dispatch its own, open, at the held revision.
validateDispatchFence(T, d) ==
    /\ held[d] > 0
    /\ T.session[T.dispatch[d[1]][d[2]].session].state \in Live
    /\ T.dispatch[d[1]][d[2]].state \in Open
    /\ T.dispatch[d[1]][d[2]].rev = held[d]

raiseNativeQuestion(d) ==
    \E verdict \in Heard :
        LET T == reapExpirations(tables, verdict)
            r == d[1]
            n == d[2]
            i == Len(T.question[r]) + 1
        IN  /\ validateDispatchFence(T, d)
            /\ T.dispatch[r][n].state = "dispatched"
            /\ i <= MaxQuestions
            /\ tables' = [appendNativeEvent(T, r, i, "raised") EXCEPT
                  !.question[r] = Append(@, [dispatch |-> n, state |-> "pending",
                                             delivery |-> "not_applicable"]),
                  !.dispatch[r][n] = Moved(@, "waiting_on_user"),
                  !.stage[r] = [@ EXCEPT !.state = "waiting_on_user"],
                  !.run[r] = "waiting_on_user"]
            /\ held' = [held EXCEPT ![d] = @ + 1]
            /\ UNCHANGED <<serving, pending, outages>>

\* Mutant of answerNativeQuestion: the answer reopens the dispatch without moving its revision.
answerWithoutFence(r, i) ==
    LET n == tables.question[r][i].dispatch
    IN  /\ tables.question[r][i].state = "pending"
        /\ tables' = [appendNativeEvent(tables, r, i, "answered") EXCEPT
              !.question[r][i] = [@ EXCEPT !.state = "answered", !.delivery = "pending"],
              !.dispatch[r][n] = Reopened(@),
              !.stage[r] = Reopened(@),
              !.run[r] = "running"]
        /\ UNCHANGED <<serving, held, pending, outages>>

\* Mutant of answerNativeQuestion: the run keeps its status.
answerLeavesRun(r, i) ==
    LET n == tables.question[r][i].dispatch
    IN  /\ tables.question[r][i].state = "pending"
        /\ tables' = [appendNativeEvent(tables, r, i, "answered") EXCEPT
              !.question[r][i] = [@ EXCEPT !.state = "answered", !.delivery = "pending"],
              !.dispatch[r][n] = Reopened(@),
              !.stage[r] = Reopened(@)]
        /\ UNCHANGED <<serving, held, pending, outages>>

\* Authenticated by the local credential, fenced by the question alone; the run is set to running
\* whatever its status.
answerNativeQuestion(r, i) ==
    LET n == tables.question[r][i].dispatch
        reopened == tables.dispatch[r][n].state = "waiting_on_user"
    IN  /\ tables.question[r][i].state = "pending"
        /\ tables' = [appendNativeEvent(tables, r, i, "answered") EXCEPT
              !.question[r][i] = [@ EXCEPT !.state = "answered", !.delivery = "pending"],
              !.dispatch[r][n] = IF reopened THEN Moved(@, "dispatched") ELSE @,
              !.stage[r] = Reopened(@),
              !.run[r] = "running"]
        /\ UNCHANGED <<serving, held, pending, outages>>

\* submit(): a failure is complete in one transaction; a success needs a workspace whose artifact
\* could be read and leaves the publication to the handler's next, separate transactions.
settleNativeDispatch(d, outcome) ==
    \E verdict \in Heard :
        LET T == reapExpirations(tables, verdict)
            r == d[1]
            n == d[2]
            submitted == [T EXCEPT !.dispatch[r][n] =
                             [Moved(@, "submitted") EXCEPT !.outcome = outcome]]
        IN  /\ outcome = "succeeded" => T.dispatch[r][n].workspace
            /\ validateDispatchFence(T, d)
            /\ tables' = IF outcome = "succeeded" THEN submitted
                         ELSE [submitted EXCEPT
                                  !.dispatch[r][n] = [@ EXCEPT !.attempt = outcome],
                                  !.stage[r] = [state |-> "settled", attempt |-> 0],
                                  !.run[r] = outcome]
            /\ pending' = IF outcome = "succeeded" THEN <<"publish", r, n>> ELSE <<>>
            /\ UNCHANGED <<serving, held, outages>>

\* finalizeStageArtifact, whose completeStage moves the run to succeeded.
finalizeStageArtifact(d) ==
    /\ pending = <<"publish", d[1], d[2]>>
    /\ tables' = [tables EXCEPT !.run[d[1]] = "succeeded"]
    /\ pending' = <<"complete", d[1], d[2]>>
    /\ UNCHANGED <<serving, held, outages>>

completeNativeAttemptArtifactOutcome(d) ==
    /\ pending = <<"complete", d[1], d[2]>>
    /\ tables' = [tables EXCEPT !.dispatch[d[1]][d[2]] = [@ EXCEPT !.attempt = "succeeded"],
                                !.stage[d[1]] = [state |-> "settled", attempt |-> 0]]
    /\ pending' = <<>>
    /\ UNCHANGED <<serving, held, outages>>

downgradeNativeAttemptToFailed(d) ==
    /\ pending = <<"publish", d[1], d[2]>>
    /\ tables' = [tables EXCEPT !.dispatch[d[1]][d[2]] = [@ EXCEPT !.attempt = "failed"],
                                !.stage[d[1]] = [state |-> "settled", attempt |-> 0],
                                !.run[d[1]] = "failed"]
    /\ pending' = <<>>
    /\ UNCHANGED <<serving, held, outages>>

-----------------------------------------------------------------------------
(* Operator *)

resumeNativeStage(r) ==
    /\ tables.stage[r].state = "recovery_required"
    /\ tables' = [tables EXCEPT !.stage[r] = [state |-> "waiting_for_parent", attempt |-> 0],
                                !.run[r] = "waiting_for_parent_session"]
    /\ UNCHANGED <<serving, held, pending, outages>>

cancelNativeStage(r) ==
    LET asked == {i \in DOMAIN tables.question[r] : tables.question[r][i].state = "pending"}
        current == tables.stage[r].attempt
        quiet == FoldSet(LAMBDA i, acc : cancelNativeQuestion(acc, r, i), tables, asked)
        revoked(row) == IF row.state \in Open THEN Moved(row, "revoked") ELSE row
    IN  /\ tables.stage[r].state \notin {"none", "settled"}
        /\ tables' = [quiet EXCEPT
              !.dispatch[r] = [n \in DOMAIN @ |->
                    IF n = current /\ @[n].attempt = "running"
                    THEN [revoked(@[n]) EXCEPT !.attempt = "cancelled"]
                    ELSE revoked(@[n])],
              !.stage[r] = [state |-> "settled", attempt |-> 0],
              !.run[r] = "cancelled"]
        /\ UNCHANGED <<serving, held, pending, outages>>

\* The daemon dies: polls and the rest of the handler are forgotten, tables and parents stay.
Crash ==
    /\ outages < MaxCrashes
    /\ outages' = outages + 1
    /\ serving' = [s \in Sessions |-> NoPoll]
    /\ pending' = <<>>
    /\ UNCHANGED <<tables, held>>

-----------------------------------------------------------------------------
\* What the handler does next without an await.
Synchronous ==
    \/ \E r \in Runs : InsertStage(r)
    \/ \E d \in Dispatches(tables) : finalizeStageArtifact(d)
    \/ \E d \in Dispatches(tables) : completeNativeAttemptArtifactOutcome(d)
    \/ \E d \in Dispatches(tables) : downgradeNativeAttemptToFailed(d)

Told(s) == {d \in Dispatches(tables) :
               held[d] > 0 /\ tables.dispatch[d[1]][d[2]].session = s}

Handlers ==
    \/ \E r \in Runs : createNativeStage(r)
    \/ \E s \in Sessions : attachParentSession(s, {}, {})
    \/ \E s, p \in Sessions : \E D \in SUBSET Told(p) : s # p /\ attachParentSession(s, {p}, D)
    \/ \E s \in Sessions : \E D \in SUBSET Told(s) : \E N \in {{}, D} : detachParentSession(s, D, N)
    \/ \E s \in Sessions : \E R \in SUBSET Runs : pollNativeBridge(s, R)
    \/ \E s \in Sessions : \E d \in serving[s].todo : assignNativeAttemptWorkspace(s, d)
    \/ \E s \in Sessions : \E d \in serving[s].todo : recordNativeAttemptWorkspaceFailure(s, d)
    \/ \E s \in Sessions : \E d \in serving[s].todo : PollAborts(s, d)
    \/ \E s \in Sessions : \E lost \in BOOLEAN : PollReturns(s, lost)
    \/ \E d \in Dispatches(tables) : raiseNativeQuestion(d)
    \/ \E r \in Runs : \E i \in DOMAIN tables.question[r] : answerNativeQuestion(r, i)
    \/ \E d \in Dispatches(tables) : \E o \in SettledRun : settleNativeDispatch(d, o)
    \/ \E r \in Runs : resumeNativeStage(r)
    \/ \E r \in Runs : cancelNativeStage(r)
    \/ \E s \in Sessions : LeaseRunsOut(s)
    \/ reapAllExpiredParentSessions

\* JavaScript runs one handler at a time up to its next await.
Next ==
    \/ pending # <<>> /\ Synchronous
    \/ pending = <<>> /\ Handlers
    \/ Crash

\* The reap timer keeps firing while the daemon is up, and handlers run to their end.
Fairness ==
    /\ WF_vars(pending # <<>> /\ Synchronous)
    /\ WF_vars(pending = <<>> /\ reapAllExpiredParentSessions)

Spec == Init /\ [][Next]_vars /\ Fairness

-----------------------------------------------------------------------------
(* Properties *)

\* A parent cannot submit past an answer it has not been given: answering moves the dispatch's
\* revision, and only the poll that delivers the answer tells the new one.
AnswersPrecedeSubmission ==
    [][\A d \in Dispatches(tables) :
          /\ tables.dispatch[d[1]][d[2]].state \in Open
          /\ tables'.dispatch[d[1]][d[2]].state = "submitted"
          => \A i \in QuestionsOf(tables, d) :
                ~(tables.question[d[1]][i].state = "answered" /\
                  tables.question[d[1]][i].delivery = "pending")]_vars

\* A run shown as waiting for its user can be answered: some question of it is still pending.
WaitingIsAnswerable ==
    \A r \in Runs : tables.run[r] = "waiting_on_user" =>
        \E i \in DOMAIN tables.question[r] : tables.question[r][i].state = "pending"

=============================================================================
