------------------------------ MODULE TaskWaves ------------------------------
(***************************************************************************)
(* The task wave scheduler and its store: tasks of an epic run, each run   *)
(* by a child pipeline behind the TaskPipelineDriver interface.  A tick    *)
(* of the scheduler waits for drivers at several points; what it read      *)
(* before it waited (the phase of a task) is kept in "waiting" until the   *)
(* answer is applied.  EpicRuntime composes these steps into a tick.       *)
(***************************************************************************)
EXTENDS TaskGraphs

CONSTANTS
    MaxTrouble    \* bound: retries, losses, cancellations, faults, pushes, crashes

VARIABLES
    phase,    \* task_lifecycle_projection.phase, "absent" without a row
    gates,    \* its three gates taken together
    leased,   \* tasks with active leases (workspace, repositories, worker)
    wave,     \* task_dispatch_record.wave_ordinal, 0 without a dispatch
    waves,    \* the last wave ordinal in task_wave_plan
    child,    \* the child pipeline run of a task
    told,     \* children that were told to cancel
    trouble,  \* how much of that has happened
    pc,       \* where the tick of the coordinator stands
    tick,     \* what the tick read when it began
    waiting,  \* answers of drivers the tick waits for: task |-> what it read
    calls     \* driver.cancel calls on their way

storeVars == <<phase, gates, leased, wave, waves>>
childVars == <<child, told>>
tickVars  == <<pc, tick, waiting, calls>>
waveVars  == <<storeVars, childVars, tickVars>>

\* A bounded step.
Trouble == trouble < MaxTrouble /\ trouble' = trouble + 1

Live     == {"dispatching", "active", "retrying", "cancelling", "recovery_required"}
Settled  == {"succeeded", "failed", "cancelled"}
Terminal == Settled \cup {"blocked"}
Phases   == {"absent", "not_started"} \cup Live \cup Terminal
Nothing == [why |-> "none", phase |-> "absent"]
Idle    == [t \in Tasks |-> Nothing]
NoTick  == [rev |-> 0, unresolved |-> FALSE, again |-> FALSE, half |-> 0]

TasksIn(ps) == {t \in Tasks : phase[t] \in ps}
\* Mutant of Done: a task counts as done before its integration gate passed.
DoneUngated == TasksIn({"succeeded"})
Done        == {t \in TasksIn({"succeeded"}) : gates[t] = "passed"}
Begun       == TasksIn(Live \cup {"succeeded"})
Dag         == Dags[tick.rev]

WaveInit ==
    /\ phase = [t \in Tasks |-> "absent"]
    /\ gates = [t \in Tasks |-> "pending"]
    /\ leased = {} /\ wave = [t \in Tasks |-> 0] /\ waves = 0
    /\ child = [t \in Tasks |-> "missing"] /\ told = {} /\ trouble = 0
    /\ pc = "idle" /\ tick = NoTick /\ waiting = Idle /\ calls = {}

-----------------------------------------------------------------------------
\* The child pipelines, seen through the driver.
ChildRetries(t) ==
    /\ child[t] = "running" /\ Trouble
    /\ child' = [child EXCEPT ![t] = "retrying"]
    /\ UNCHANGED <<storeVars, told, tickVars>>

ChildResumes(t) ==
    /\ child[t] = "retrying"
    /\ child' = [child EXCEPT ![t] = "running"]
    /\ UNCHANGED <<storeVars, told, tickVars, trouble>>

ChildIsLost(t) ==
    /\ child[t] = "running" /\ Trouble
    /\ child' = [child EXCEPT ![t] = "recovery_required"]
    /\ UNCHANGED <<storeVars, told, tickVars>>

ChildEnds(t) ==
    /\ child[t] \in {"running", "retrying", "recovery_required"}
    /\ \E end \in {"succeeded", "failed"} \cup (IF t \in told THEN {"cancelled"} ELSE {}) :
          child' = [child EXCEPT ![t] = end]
    /\ UNCHANGED <<storeVars, told, tickVars, trouble>>

ChildAlive(t) == child[t] \in {"running", "retrying", "recovery_required"}

\* TaskPipelineDriver.status: a child that was told to cancel may say so.
StatusesOf(t) == {child[t]} \cup (IF t \in told /\ ChildAlive(t) THEN {"cancelling"} ELSE {})

-----------------------------------------------------------------------------
\* updatePhase: the phases a transition may start from.  A task already in the
\* target phase is left alone; from any other phase the store throws.
MayBecome(p) ==
    CASE p = "active"     -> {"dispatching", "retrying"}
      [] p = "retrying"   -> {"active"}
      [] p = "cancelling" -> {"dispatching", "active", "retrying"}
      [] p \in Settled \cup {"recovery_required"} -> Live

\* applyDriverStatus: the phase an answer asks for, given the phase the task
\* had when the tick read it; "keep" when the code returns the task as it is.
Wanted(was, status) ==
    CASE status = "missing" ->
            IF was \in {"dispatching", "recovery_required"} THEN "keep" ELSE "recovery_required"
      [] status = "running" ->
            IF was \in {"dispatching", "retrying"} THEN "active" ELSE "keep"
      [] status \notin {"missing", "running"} -> IF was = status THEN "keep" ELSE status

Refused(t, want) ==
    want # "keep" /\ phase[t] # want /\ phase[t] \notin MayBecome(want)

\* Mutant of SetPhase: a task that needs recovery gives its leases back.
SetPhaseEager(t, want) ==
    /\ phase' = IF want = "keep" THEN phase ELSE [phase EXCEPT ![t] = want]
    /\ leased' = IF want \in Settled \cup {"recovery_required"} THEN leased \ {t} ELSE leased
    /\ UNCHANGED <<gates, wave, waves>>

\* updatePhase and, for settle, the release of the task's leases.
SetPhase(t, want) ==
    /\ phase' = IF want = "keep" THEN phase ELSE [phase EXCEPT ![t] = want]
    /\ leased' = IF want \in Settled THEN leased \ {t} ELSE leased
    /\ UNCHANGED <<gates, wave, waves>>

-----------------------------------------------------------------------------
\* initialize: rows for the tasks of the graph that have none.
Initialized(rev) ==
    [t \in Tasks |-> IF phase[t] = "absent" /\ t \in DOMAIN Dags[rev] THEN "not_started"
                     ELSE phase[t]]

\* reconcileTasks starts: the live tasks are read and their drivers asked.
Reconciling == [t \in Tasks |-> IF phase[t] \in Live THEN [why |-> "reconcile", phase |-> phase[t]]
                                ELSE Nothing]

\* driver.tick for the tasks that can run.
Running == [t \in Tasks |-> IF phase[t] \in {"active", "retrying", "cancelling"}
                            THEN [why |-> "runnable", phase |-> phase[t]] ELSE Nothing]

\* Mutant of Starts: a start that failed is not tried again.
StartsOnce(t) == child[t] = "missing" /\ waiting[t].why = "start"

\* A task is (re)started when its dispatch was just accepted, or when it is
\* still dispatching and the driver does not know it.
Starts(t) ==
    /\ child[t] = "missing"
    /\ \/ waiting[t].why = "start"
       \/ waiting[t].why = "reconcile" /\ waiting[t].phase = "dispatching"

\* The driver answers; the answer is applied to what the tick had read, or,
\* after a start, to the task as it is now.  A refused transition rejects the
\* tick; the other answers still arrive.
DriverAnswers(t) ==
    /\ waiting[t] # Nothing
    /\ child' = IF Starts(t) THEN [child EXCEPT ![t] = "running"] ELSE child
    /\ \E status \in IF Starts(t) THEN {"running"} ELSE StatusesOf(t) :
          LET was  == IF waiting[t].why = "start" THEN phase[t] ELSE waiting[t].phase
              want == Wanted(was, status)
          IN \/ /\ ~Refused(t, want)
                /\ SetPhase(t, want)
                /\ UNCHANGED <<pc, tick>>
             \/ /\ Refused(t, want)
                /\ pc' = "idle" /\ tick' = NoTick
                /\ UNCHANGED storeVars
    /\ waiting' = [waiting EXCEPT ![t] = Nothing]
    /\ UNCHANGED <<told, calls, trouble>>

-----------------------------------------------------------------------------
\* propagate: pending tasks behind a failed, cancelled or blocked one.
Blocked ==
    LET hit(bad) == {t \in DOMAIN Dag : phase[t] = "not_started" /\ Dag[t].deps \cap bad # {}}
        out[k \in 0..Cardinality(Tasks)] ==
            IF k = 0 THEN TasksIn({"failed", "cancelled", "blocked"})
            ELSE out[k-1] \cup hit(out[k-1])
    IN out[Cardinality(Tasks)] \cap TasksIn({"not_started"})

Propagated == [t \in Tasks |-> IF t \in Blocked THEN "blocked" ELSE phase[t]]

\* The wave the scheduler plans once it has propagated: busy workers and
\* repositories come from the active leases.
Selected ==
    SelectWave(tick.rev, tick.unresolved,
               {t \in DOMAIN Dag : phase[t] = "not_started"} \ Blocked, Begun, Done,
               Repos \ UNION {Writes[t] : t \in leased}, Cardinality(leased))

\* propagate, planTaskWave and dispatchWave, up to the start of the children.
Dispatch ==
    LET chosen == Selected
        spread == Propagated
    IN /\ phase' = [t \in Tasks |-> IF t \in chosen THEN "dispatching" ELSE spread[t]]
       /\ leased' = leased \cup chosen
       /\ wave' = [t \in Tasks |-> IF t \in chosen THEN waves + 1 ELSE wave[t]]
       /\ waves' = IF chosen = {} THEN waves ELSE waves + 1
       /\ waiting' = [t \in Tasks |-> IF t \in chosen THEN [why |-> "start", phase |-> "dispatching"]
                                      ELSE Nothing]
       /\ UNCHANGED <<gates, childVars, calls, tick, trouble>>

-----------------------------------------------------------------------------
\* cancel, up to the await of driver.cancel.
CancelTask(t) ==
    \/ /\ phase[t] = "not_started"
       /\ phase' = [phase EXCEPT ![t] = "cancelled"]
       /\ UNCHANGED calls
    \/ /\ phase[t] \in MayBecome("cancelling")
       /\ phase' = [phase EXCEPT ![t] = "cancelling"]
       /\ calls' = calls \cup {t}
    \/ /\ phase[t] \in (Live \cup Terminal) \ MayBecome("cancelling")
       /\ UNCHANGED <<phase, calls>>

UserCancels(t) ==
    /\ phase[t] \notin {"absent", "cancelling", "recovery_required"} \cup Terminal
    /\ Trouble
    /\ CancelTask(t)
    /\ UNCHANGED <<gates, leased, wave, waves, childVars, pc, tick, waiting>>

\* The driver's cancel reaches a child that is there to hear it.
CancelArrives(t) ==
    /\ t \in calls
    /\ calls' = calls \ {t}
    /\ told' = IF ChildAlive(t) THEN told \cup {t} ELSE told
    /\ UNCHANGED <<storeVars, child, trouble, pc, tick, waiting>>
=============================================================================
