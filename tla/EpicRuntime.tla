----------------------------- MODULE EpicRuntime -----------------------------
(***************************************************************************)
(* The coordinator of an epic run: it drives the wave scheduler and the    *)
(* integration service in ticks, records a hidden-dependency finding,      *)
(* cancels the affected tasks and, when they are quiet, commits the        *)
(* revised graph.  Ticks are serial; cancellations and reports arrive at   *)
(* any await of a tick; the daemon may crash between any two transactions. *)
(***************************************************************************)
EXTENDS TaskIntegration

VARIABLES
    graphRev,   \* task_graph_revision_projection.active_graph_revision
    replan,     \* hidden_dependency_replan.lifecycle, "none" without a row
    reporting   \* interrupted tasks a report call has still to cancel

epicVars == <<graphRev, replan, reporting>>
vars     == <<waveVars, integVars, epicVars, trouble>>

Init ==
    /\ WaveInit /\ IntegrationInit
    /\ graphRev = 1 /\ replan = "none" /\ reporting = {}

\* Code between two awaits of the coordinator; no request is served meanwhile.
Synchronous == pc \in {"decide", "revise", "resume"}

-----------------------------------------------------------------------------
\* A tick begins: the active graph and replan are read, rows are created and
\* the drivers of live tasks asked.
BeginTick(rev, unresolved, again) ==
    /\ tick' = [rev |-> rev, unresolved |-> unresolved, again |-> again, half |-> 1]
    /\ phase' = Initialized(rev)
    /\ waiting' = Reconciling
    /\ pc' = "reconcile"
    /\ UNCHANGED <<gates, leased, wave, waves, childVars, calls, integVars, trouble>>

TickBegins ==
    /\ pc = "idle" /\ waiting = Idle
    /\ BeginTick(graphRev, replan \in {"quiescing", "revising"}, FALSE)
    /\ UNCHANGED epicVars

\* All answers are in: the first or the second integration of the tick.
Integrates ==
    /\ pc \in {"reconcile", "runnable"} /\ waiting = Idle
    /\ IntegrationBegins("scan")
    /\ UNCHANGED epicVars

IntegrationStep ==
    /\ \/ pc = "scan" /\ (SkipEntry \/ TakeEntry("process", "observe"))
       \/ pc = "process" /\ (SurrenderEntry(current) \/ PrepareEntry(current)
                              \/ VerifyEntry(current) \/ PublishBegins(current))
       \/ pc = "publish" /\ (PublishRepo(current) \/ PublishEnds(current) \/ PublishStops(current))
       \/ pc = "observe" /\ (BlockEntry(current, FALSE) \/ ForwardEntry(current) \/ ResolveEntry(current))
       \/ pc = "forward" /\ (PublishRepo(current) \/ ForwardEnds(current))
       \/ pc = "reobserve" /\ (BlockEntry(current, TRUE) \/ ResolveEntry(current))
    /\ UNCHANGED epicVars

ScanEnds ==
    /\ pc = "scan" /\ LoopEnds
    /\ pc' = "integrated"
    /\ UNCHANGED <<storeVars, childVars, tick, waiting, calls, integVars, epicVars, trouble>>

Plans ==
    /\ pc = "integrated" /\ tick.half = 1
    /\ Dispatch
    /\ pc' = "starting"
    /\ UNCHANGED <<integVars, epicVars>>

\* The accepted dispatches are started: the tasks that can run are ticked.
RunsTasks ==
    /\ pc = "starting" /\ waiting = Idle
    /\ waiting' = Running
    /\ pc' = "runnable" /\ tick' = [tick EXCEPT !.half = 2]
    /\ UNCHANGED <<storeVars, childVars, calls, integVars, epicVars, trouble>>

\* The scheduler's tick ends; the one after a revision ends the coordinator's.
SchedulerEnds ==
    /\ pc = "integrated" /\ tick.half = 2
    /\ phase' = Propagated
    /\ \/ tick.again /\ pc' = "idle" /\ tick' = NoTick
       \/ ~tick.again /\ pc' = "decide" /\ UNCHANGED tick
    /\ UNCHANGED <<gates, leased, wave, waves, childVars, waiting, calls, integVars, epicVars, trouble>>

-----------------------------------------------------------------------------
\* A replan that was active when the tick began is looked at when it ends.
Unconfirmed  == \E t \in Interrupted : phase[t] \in {"recovery_required", "failed", "absent"}
Unreconciled == \E t \in Tasks : ledger[t] = "reconciliation_required"
                                 \/ recon[t] \in {"blocked", "forwarding"}
Unsatisfied  == \E t \in Prereqs :
                    phase[t] \in {"failed", "cancelled", "blocked", "recovery_required", "absent"}
Quiet        == Interrupted \subseteq TasksIn({"cancelled"}) /\ Prereqs \subseteq Done

\* advance: compare and set along the lifecycle of a replan.
Advance(to) ==
    /\ <<replan, to>> \in {<<"quiescing", "revising">>, <<"quiescing", "blocked">>,
                         <<"revising", "resumed">>, <<"revising", "blocked">>}
    /\ replan' = to

Decides ==
    /\ pc = "decide"
    /\ \/ /\ tick.unresolved /\ replan = "quiescing"
          /\ \/ /\ Unconfirmed \/ Unreconciled \/ Unsatisfied
                /\ Advance("blocked") /\ pc' = "idle" /\ tick' = NoTick
             \/ /\ ~(Unconfirmed \/ Unreconciled \/ Unsatisfied) /\ Quiet
                /\ Advance("revising") /\ pc' = "revise" /\ UNCHANGED tick
             \/ /\ ~(Unconfirmed \/ Unreconciled \/ Unsatisfied) /\ ~Quiet
                /\ pc' = "idle" /\ tick' = NoTick /\ UNCHANGED replan
       \/ /\ tick.unresolved /\ replan = "revising"
          /\ pc' = "revise" /\ UNCHANGED <<tick, replan>>
       \/ /\ ~tick.unresolved
          /\ pc' = "idle" /\ tick' = NoTick /\ UNCHANGED replan
    /\ UNCHANGED <<storeVars, childVars, waiting, calls, integVars, graphRev, reporting, trouble>>

\* The stored proposal is submitted, unless an earlier submission is found
\* committed.  A rejected one blocks the replan.
Revises ==
    /\ pc = "revise"
    /\ LET accepted == ValidRevision(graphRev, Tasks \ TasksIn({"absent", "not_started"}),
                                     Begun, Done, TasksIn({"cancelled"}))
       IN \/ /\ graphRev = 2
             /\ pc' = "resume" /\ UNCHANGED <<tick, graphRev, replan>>
          \/ /\ graphRev = 1 /\ accepted
             /\ graphRev' = 2 /\ pc' = "resume" /\ UNCHANGED <<tick, replan>>
          \/ /\ graphRev = 1 /\ ~accepted
             /\ Advance("blocked") /\ pc' = "idle" /\ tick' = NoTick
             /\ UNCHANGED graphRev
    /\ UNCHANGED <<storeVars, childVars, waiting, calls, integVars, reporting, trouble>>

\* The replan is closed and the scheduler ticks once more on the new graph.
Resumes ==
    /\ pc = "resume"
    /\ Advance("resumed")
    /\ BeginTick(graphRev, FALSE, TRUE)
    /\ UNCHANGED <<graphRev, reporting>>

-----------------------------------------------------------------------------
\* reportHiddenDependency: a new finding needs its tasks under way; a repeated
\* one finds the replan recorded.
MayReport ==
    /\ graphRev = 1 /\ Interrupted # {}
    /\ replan = "none" => Interrupted \subseteq TasksIn({"dispatching", "active", "retrying", "cancelling"})

RecordReplan == replan' = IF replan = "none" THEN "quiescing" ELSE replan

\* One pass of the loop that cancels the interrupted tasks in turn.  The first
\* one records the finding as well, with no await in between; a later one comes
\* when the driver has answered the cancellation before it.
Reports ==
    /\ ~Synchronous
    /\ \/ reporting = {} /\ MayReport /\ RecordReplan
       \/ reporting # {} /\ calls \cap Interrupted = {} /\ UNCHANGED replan
    /\ LET left == IF reporting = {} THEN Interrupted ELSE reporting
       IN CancelTask(Min(left)) /\ reporting' = left \ {Min(left)}
    /\ UNCHANGED <<gates, leased, wave, waves, childVars, pc, tick, waiting, integVars, graphRev, trouble>>

-----------------------------------------------------------------------------
\* What the process had in memory is gone; the children and branches stay.
Forgotten ==
    /\ pc' = "idle" /\ tick' = NoTick /\ waiting' = Idle /\ calls' = {}
    /\ current' = NoTask /\ todo' = {} /\ moved' = {} /\ reporting' = {}
    /\ Trouble
    /\ UNCHANGED <<storeVars, childVars, ledgerVars, refs, graphRev>>

Crashes ==
    /\ pc # "idle" \/ waiting # Idle \/ calls # {} \/ reporting # {}
    /\ Forgotten /\ UNCHANGED replan

\* The finding is recorded and the process dies before it cancels anything.
CrashesInReport ==
    /\ ~Synchronous /\ reporting = {} /\ replan = "none" /\ MayReport
    /\ RecordReplan
    /\ Forgotten

-----------------------------------------------------------------------------
Requests ==
    \/ \E t \in Tasks : ~Synchronous /\ UserCancels(t) /\ UNCHANGED <<integVars, epicVars>>
    \/ Reports

Daemon ==
    \/ TickBegins \/ Integrates \/ IntegrationStep \/ ScanEnds \/ Plans \/ RunsTasks
    \/ SchedulerEnds \/ Decides \/ Revises \/ Resumes

Answers(t) == DriverAnswers(t) /\ UNCHANGED <<integVars, epicVars>>
Arrives(t) == CancelArrives(t) /\ UNCHANGED <<integVars, epicVars>>
Ends(t)    == ChildEnds(t) /\ UNCHANGED <<integVars, epicVars>>
Wavers(t)  == (ChildRetries(t) \/ ChildResumes(t) \/ ChildIsLost(t)) /\ UNCHANGED <<integVars, epicVars>>
Push(r)    == ExternalPush(r) /\ UNCHANGED epicVars

Next ==
    \/ Requests \/ Daemon
    \/ \E t \in Tasks : Answers(t) \/ Arrives(t) \/ Ends(t) \/ Wavers(t)
    \/ \E r \in Repos : Push(r)
    \/ Crashes \/ CrashesInReport

\* The daemon polls, a driver that is asked answers, and a child pipeline ends
\* (its stages have deadlines).
Fairness ==
    /\ WF_vars(Daemon \/ \E t \in Tasks : Answers(t))
    /\ WF_vars(\E t \in Tasks : Ends(t))

Spec == Init /\ [][Next]_vars /\ Fairness

-----------------------------------------------------------------------------
(* Properties *)

\* The dependencies a task has in every graph that holds it.
Needs == [t \in Tasks |->
             {p \in Tasks : \A i \in {1, 2} : t \in DOMAIN Dags[i] => p \in Dags[i][t].deps}]

\* A task is dispatched only on integrated and verified predecessors, and they
\* stay so: whatever is cancelled, reconciled or revised meanwhile, no task
\* that has a dispatch lacks one of the predecessors it was planned on.
DependenciesIntegrated ==
    \A t \in Dispatched : \A p \in Needs[t] : phase[p] = "succeeded" /\ gates[p] = "passed"

\* A child pipeline that is alive is covered by the leases of its task: never
\* more children than workers, never two that write one repository, also
\* across crashes, late answers and cancellations that cross a start.
LiveChildrenAreLeased ==
    LET alive == {t \in Tasks : ChildAlive(t)}
    IN /\ alive \subseteq leased
       /\ Cardinality(alive) <= MaxWorkers
       /\ \A s, t \in alive : s # t => Writes[s] \cap Writes[t] = {}

\* The log of the abstract specification: the integrated entries by ordinal.
IntegratedLog ==
    LET S == {t \in Tasks : ledger[t] = "integrated"}
        before(t) == {s \in S : ordinal[s] < ordinal[t]}
    IN [i \in 1..Cardinality(S) |-> CHOOSE t \in S : Cardinality(before(t)) = i - 1]

Log == INSTANCE IntegrationLog WITH
           log <- IntegratedLog, branch <- refs

\* Integration is serial, in dependency order and append-only, whatever
\* crashes, partial publications and reconciliations happen on the way.
ImplementsLog == Log!Spec

\* Every dispatched task is settled in the end, or fenced for recovery: no
\* lease and no worker is lost to a crash or to a cancellation that crosses a
\* start, and a wave is not left half started.
TasksSettle ==
    <>[](TasksIn(Live \ {"recovery_required"}) = {})

=============================================================================
