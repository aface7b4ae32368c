---------------------------- MODULE StateJournal ----------------------------
(***************************************************************************)
(* The state package: an append-only journal of events and the seven       *)
(* projection tables that commitStateChange keeps beside it.  A command is *)
(* one SQLite transaction: it appends the event, loads the rows the event  *)
(* can touch, folds the event with the reducer replay uses, writes the     *)
(* difference and commits, or rolls everything back.                       *)
(*                                                                         *)
(* A table is a function from keys to rows; a row that is not stored is    *)
(* NoRow, of revision 0.  A row keeps the columns the reducer reads; names,*)
(* paths, JSON documents and timestamps are left out or are model values.  *)
(***************************************************************************)
EXTENDS Naturals, FiniteSets

CONSTANTS
  Runs, Codebases, Repositories, Workspaces,
  Checkouts,      \* checkout paths, the keys of workspace_lease
  Leases, Owners, \* lease ids and their owners
  Artifacts,      \* artifact ids
  Names,          \* (stage, name) pairs, the slots an alias is kept for
  Hashes,         \* content hashes, which are also the relative paths
  Nil,
  MaxEvents       \* bound on the journal's length

ASSUME MaxEventsAssumption == MaxEvents \in Nat

VARIABLES
  sequence,   \* the sequence of the newest event of the journal
  tables,     \* the stored projection
  replayed    \* the fold of the reducer over the whole journal

journalVars == <<sequence, tables, replayed>>

NoRow == [revision |-> 0]

Exists(t, k) == t[k].revision > 0

\* EMPTY_PROJECTION_STATE: what replay starts from.
EmptyTables ==
  [run        |-> [k \in Runs |-> NoRow],
   codebase   |-> [k \in Codebases |-> NoRow],
   repository |-> [k \in Repositories |-> NoRow],
   workspace  |-> [k \in Workspaces |-> NoRow],
   lease      |-> [k \in Checkouts |-> NoRow],
   artifact   |-> [k \in Artifacts |-> NoRow],
   alias      |-> [k \in Runs \X Names |-> NoRow]]

-----------------------------------------------------------------------------
(* The events, by the shape of their payload.                              *)

\* Interactions, native questions and resumptions only move the revision.
RunTouches ==
  {"interaction.created", "interaction.answer_accepted", "interaction.cancelled",
   "interaction.answer_delivered", "run.resume_requested", "run.resume_delivered",
   "native_question.raised", "native_question.answered",
   "native_question.cancelled", "native_question.delivered"}

LeaseMutations ==
  {"workspace.lease_renewed", "workspace.lease_expected_sha_advanced",
   "workspace.lease_released", "workspace.lease_recovery_required"}

LeaseEvents ==
  {"workspace.lease_acquired", "workspace.lease_recovered"} \cup LeaseMutations

LandingEvents == {"run.capability_degraded", "run.capability_blocked"}

ArtifactRefs == [artifact : Artifacts, name : Names, hash : Hashes]

-----------------------------------------------------------------------------
(* The reducer.  XxxRefused is its throw, XxxApplied the state it returns  *)
(* for event e recorded at sequence n.                                     *)

\* The next revision of a row, stamped with the event that made it.
Bump(row, n) == [row EXCEPT !.revision = @ + 1, !.last = n]

RunEventRefused(s, e) ==
  \/ e.type = "run.created" /\ Exists(s.run, e.run)
  \/ e.type # "run.created" /\ ~Exists(s.run, e.run)
  \/ e.type = "run.workspace_assigned" /\ ~Exists(s.workspace, e.workspace)
  \/ e.type = "run.instructions_snapshotted" /\ s.run[e.run].snapshot # Nil
  \/ e.type \in LandingEvents /\ s.run[e.run].landing \notin {Nil, e.landing}

\* An identical capability landing is returned unchanged: no row is written.
RunEventRow(s, e, n) ==
  LET row == s.run[e.run]
  IN IF e.type = "run.created"
     THEN [revision |-> 1, last |-> n, status |-> "queued", codebase |-> e.codebase,
           workspace |-> e.workspace, snapshot |-> Nil, landing |-> Nil]
     ELSE IF e.type = "run.status_changed"
     THEN [Bump(row, n) EXCEPT !.status = e.status]
     ELSE IF e.type = "run.workspace_assigned"
     THEN [Bump(row, n) EXCEPT !.workspace = e.workspace]
     ELSE IF e.type = "run.instructions_snapshotted"
     THEN [Bump(row, n) EXCEPT !.snapshot = e.snapshot]
     ELSE IF e.type \in LandingEvents
     THEN IF row.landing = Nil THEN [Bump(row, n) EXCEPT !.landing = e.landing] ELSE row
     ELSE Bump(row, n)

NewCodebase(n, config) == [revision |-> 1, last |-> n, config |-> config]

NewRepository(n, codebase) == [revision |-> 1, last |-> n, codebase |-> codebase]

\* A registration that was already committed with the same configuration.
AlreadyRegistered(s, e) ==
  Exists(s.codebase, e.codebase) /\ s.codebase[e.codebase].config = e.config

IdentityRefused(s, e) ==
  \/ e.type = "codebase.registered" /\ Exists(s.codebase, e.codebase)
  \/ /\ e.type = "repository.registered"
     /\ Exists(s.repository, e.repository) \/ ~Exists(s.codebase, e.codebase)
  \/ /\ e.type = "codebase.registration_committed"
     /\ ~AlreadyRegistered(s, e)
     /\ \/ Exists(s.codebase, e.codebase)
        \/ \E r \in e.repositories : Exists(s.repository, r)

IdentityApplied(s, e, n) ==
  IF e.type = "codebase.registered"
  THEN [s EXCEPT !.codebase[e.codebase] = NewCodebase(n, Nil)]
  ELSE IF e.type = "repository.registered"
  THEN [s EXCEPT !.repository[e.repository] = NewRepository(n, e.codebase)]
  ELSE IF AlreadyRegistered(s, e)
  THEN s
  ELSE [s EXCEPT !.codebase[e.codebase] = NewCodebase(n, e.config),
                 !.repository = [r \in Repositories |->
                    IF r \in e.repositories THEN NewRepository(n, e.codebase) ELSE @[r]]]

WorkspaceRefused(s, e) ==
  LET row == s.workspace[e.workspace]
  IN \/ ~Exists(s.codebase, e.codebase)
     \/ e.type = "workspace.registered" /\ row.revision > 0
     \/ /\ e.type = "workspace.provisioning_recorded"
        /\ \/ ~Exists(s.repository, e.repository)
           \/ s.repository[e.repository].codebase # e.codebase
           \/ row.revision > 0 /\ row.codebase # e.codebase

\* A registration has neither repository, lifecycle nor checkout.
WorkspaceRow(s, e, n) ==
  [revision |-> s.workspace[e.workspace].revision + 1, last |-> n, codebase |-> e.codebase,
   repository |-> e.repository, lifecycle |-> e.lifecycle, checkout |-> e.checkout]

\* The lease events that change a lease only hit its current active holder.
LeaseRefused(s, e) ==
  LET old == s.lease[e.checkout]
  IN \/ ~Exists(s.workspace, e.workspace)
     \/ ~Exists(s.repository, e.repository)
     \/ e.type = "workspace.lease_acquired" /\ (old.revision > 0 \/ e.fence # 1)
     \/ /\ e.type = "workspace.lease_recovered"
        /\ old.revision = 0 \/ e.fence # old.fence + 1 \/ e.lease = old.lease
     \/ /\ e.type \in LeaseMutations
        /\ \/ old.revision = 0
           \/ e.fence # old.fence \/ e.lease # old.lease
           \/ e.workspace # old.workspace \/ e.repository # old.repository
           \/ old.state # "active"

\* The state each lease event has to produce.
StateAfter(type) ==
  IF type = "workspace.lease_released" THEN "released"
  ELSE IF type = "workspace.lease_recovery_required" THEN "recovery-required"
  ELSE "active"

LeaseRow(s, e, n) ==
  [revision |-> s.lease[e.checkout].revision + 1, last |-> n, workspace |-> e.workspace,
   repository |-> e.repository, lease |-> e.lease, owner |-> e.owner, sha |-> e.sha,
   fence |-> e.fence, state |-> StateAfter(e.type)]

NewArtifact(n, run, ref) ==
  [revision |-> 1, last |-> n, run |-> run, name |-> ref.name, hash |-> ref.hash]

\* artifactMismatchField: an artifact id names one immutable row.
Mismatch(row, run, ref) ==
  row.revision > 0 /\ (row.run # run \/ row.name # ref.name \/ row.hash # ref.hash)

ArtifactRefused(s, e) ==
  \/ ~Exists(s.run, e.run)
  \/ e.type = "artifact.published" /\ \E ref \in e.refs : Exists(s.artifact, ref.artifact)
  \/ /\ e.type = "stage.completed"
     /\ \/ \E r1, r2 \in e.refs : r1 # r2 /\ r1.name = r2.name
        \/ \E r1, r2 \in e.refs : r1 # r2 /\ r1.artifact = r2.artifact
        \/ \E ref \in e.refs : Mismatch(s.artifact[ref.artifact], e.run, ref)

\* The aliases of a stage's outputs move to them, each under its own name.
Pointed(s, e, n) ==
  LET byName(m) == CHOOSE ref \in e.refs : ref.name = m
  IN [k \in Runs \X Names |->
        IF k[1] = e.run /\ \E ref \in e.refs : ref.name = k[2]
        THEN [revision |-> s.alias[k].revision + 1, last |-> n, artifact |-> byName(k[2]).artifact]
        ELSE s.alias[k]]

\* A stage adopts an identical artifact row and moves its alias all the same.
ArtifactApplied(s, e, n) ==
  LET byId(a) == CHOOSE ref \in e.refs : ref.artifact = a
      rows == [a \in Artifacts |->
                 IF (\E ref \in e.refs : ref.artifact = a) /\ s.artifact[a].revision = 0
                 THEN NewArtifact(n, e.run, byId(a)) ELSE s.artifact[a]]
  IN IF e.type = "artifact.published"
     THEN [s EXCEPT !.artifact = rows]
     ELSE [s EXCEPT !.artifact = rows, !.alias = Pointed(s, e, n),
                    !.run[e.run] = IF e.succeeds
                                   THEN [Bump(@, n) EXCEPT !.status = "succeeded"] ELSE @]

RunEvents ==
  {"run.created", "run.status_changed", "run.workspace_assigned",
   "run.instructions_snapshotted"} \cup LandingEvents \cup RunTouches

IdentityEvents ==
  {"codebase.registered", "repository.registered", "codebase.registration_committed"}

WorkspaceEvents == {"workspace.registered", "workspace.provisioning_recorded"}

ArtifactEvents == {"artifact.published", "stage.completed"}

EventTypes == RunEvents \cup IdentityEvents \cup WorkspaceEvents \cup LeaseEvents \cup ArtifactEvents

\* The rows an event of the schema is about have keys of their tables.
WellFormed(e) ==
  /\ e.type \in EventTypes
  /\ e.type \in RunEvents \cup ArtifactEvents => e.run \in Runs
  /\ e.type \in IdentityEvents => e.codebase \in Codebases
  /\ e.type = "repository.registered" => e.repository \in Repositories
  /\ e.type \in WorkspaceEvents => e.workspace \in Workspaces
  /\ e.type \in LeaseEvents => e.checkout \in Checkouts

\* applyEvent throws.
Refused(s, e) ==
  \/ e.type \in RunEvents /\ RunEventRefused(s, e)
  \/ e.type \in IdentityEvents /\ IdentityRefused(s, e)
  \/ e.type \in WorkspaceEvents /\ WorkspaceRefused(s, e)
  \/ e.type \in LeaseEvents /\ LeaseRefused(s, e)
  \/ e.type \in ArtifactEvents /\ ArtifactRefused(s, e)

\* applyEvent returns.
Applied(s, e, n) ==
  IF e.type \in RunEvents THEN [s EXCEPT !.run[e.run] = RunEventRow(s, e, n)]
  ELSE IF e.type \in IdentityEvents THEN IdentityApplied(s, e, n)
  ELSE IF e.type \in WorkspaceEvents
  THEN [s EXCEPT !.workspace[e.workspace] = WorkspaceRow(s, e, n)]
  ELSE IF e.type \in LeaseEvents THEN [s EXCEPT !.lease[e.checkout] = LeaseRow(s, e, n)]
  ELSE ArtifactApplied(s, e, n)

-----------------------------------------------------------------------------
(* The transaction.                                                        *)

\* eventScope: the keys of the rows an event can read or write.
Scope(e) ==
  [run |-> IF e.type \in RunEvents \cup ArtifactEvents THEN {e.run} ELSE {},
   codebase |-> IF e.type \in IdentityEvents \cup WorkspaceEvents \cup {"run.created"}
                THEN {e.codebase} ELSE {},
   repository |-> IF e.type = "codebase.registration_committed" THEN e.repositories
                  ELSE IF e.type \in {"repository.registered", "workspace.provisioning_recorded"}
                                       \cup LeaseEvents
                  THEN {e.repository} ELSE {},
   workspace |-> IF e.type \in WorkspaceEvents \cup LeaseEvents
                               \cup {"run.created", "run.workspace_assigned"}
                 THEN {e.workspace} ELSE {},
   lease |-> IF e.type \in LeaseEvents THEN {e.checkout} ELSE {},
   artifact |-> IF e.type \in ArtifactEvents
                THEN {ref.artifact : ref \in e.refs} ELSE {},
   alias |-> IF e.type = "stage.completed"
             THEN {<<e.run, ref.name>> : ref \in e.refs} ELSE {}]

\* loadScopedProjectionState: a key out of scope is as absent as an unstored one.
LoadScoped(s, scope) ==
  [t \in DOMAIN s |-> [k \in DOMAIN s[t] |-> IF k \in scope[t] THEN s[t][k] ELSE NoRow]]

\* Mutant of Writes: only rows that are new are found to differ.
WritesNew(before, after) ==
  [t \in DOMAIN before |->
     {k \in DOMAIN before[t] : after[t][k].revision > 0 /\ before[t][k].revision = 0}]

\* diffTable: the rows whose revision the reducer moved.
Writes(before, after) ==
  [t \in DOMAIN before |->
     {k \in DOMAIN before[t] :
        after[t][k].revision > 0 /\ before[t][k].revision # after[t][k].revision}]

\* assertGuardedWritesAreVerified: only asserted blobs reach the two guarded tables.
GuardedWritesVerified(writes, after, asserted) ==
  /\ \A a \in writes.artifact : after.artifact[a].hash \in asserted
  /\ \A k \in writes.alias : after.artifact[after.alias[k].artifact].hash \in asserted

Merge(s, after, writes) ==
  [t \in DOMAIN s |-> [k \in DOMAIN s[t] |-> IF k \in writes[t] THEN after[t][k] ELSE s[t][k]]]

\* The triggers (first revision 1, then one more and a newer event) and the
\* update's own WHERE revision = previousRevision.
CausalWrites(s, before, after, writes) ==
  \A t \in DOMAIN s : \A k \in writes[t] :
    IF before[t][k].revision = 0
    THEN s[t][k].revision = 0 /\ after[t][k].revision = 1
    ELSE /\ s[t][k].revision = before[t][k].revision
         /\ after[t][k].revision = s[t][k].revision + 1
         /\ after[t][k].last > s[t][k].last

\* The foreign keys; a run's codebase and workspace have none.
IdentityConstraints(s) ==
  /\ \A r \in Repositories : Exists(s.repository, r) =>
        Exists(s.codebase, s.repository[r].codebase)
  /\ \A w \in Workspaces : Exists(s.workspace, w) => Exists(s.codebase, s.workspace[w].codebase)

ArtifactConstraints(s) ==
  /\ \A a \in Artifacts : Exists(s.artifact, a) => Exists(s.run, s.artifact[a].run)
  /\ \A k \in Runs \X Names : Exists(s.alias, k) => Exists(s.artifact, s.alias[k].artifact)

\* A checkout path belongs to one workspace: the unique index of migration 6.
WorkspaceConstraints(s) ==
  /\ \A w \in Workspaces : Exists(s.workspace, w) /\ s.workspace[w].repository # Nil =>
        Exists(s.repository, s.workspace[w].repository)
  /\ \A v, w \in Workspaces :
        /\ v # w /\ Exists(s.workspace, v) /\ Exists(s.workspace, w)
        /\ s.workspace[v].checkout # Nil
        => s.workspace[v].checkout # s.workspace[w].checkout
  /\ \A c \in Checkouts : Exists(s.lease, c) =>
        Exists(s.workspace, s.lease[c].workspace) /\ Exists(s.repository, s.lease[c].repository)

ConstraintsHold(s) == IdentityConstraints(s) /\ ArtifactConstraints(s) /\ WorkspaceConstraints(s)

JournalInit ==
  /\ sequence = 0
  /\ tables = EmptyTables
  /\ replayed = EmptyTables

\* appendEvent.
AppendEvent ==
  /\ sequence < MaxEvents
  /\ sequence' = sequence + 1

\* commitStateChangeInternal that commits.  One that throws is rolled back, the
\* event with it: sequence is the row's primary key, so no number is lost.
CommitAsserting(e, asserted) ==
  LET n == sequence + 1
      before == LoadScoped(tables, Scope(e))
      after == Applied(before, e, n)
      writes == Writes(before, after)
      stored == Merge(tables, after, writes)
  IN /\ AppendEvent
     /\ ~Refused(before, e)
     /\ GuardedWritesVerified(writes, after, asserted)
     /\ CausalWrites(tables, before, after, writes)
     /\ ConstraintsHold(stored)
     /\ tables' = stored
     /\ replayed' = Applied(replayed, e, n)

\* commitStateChange, the only public mutation: it asserts no blob.
Commit(e) == CommitAsserting(e, {})

-----------------------------------------------------------------------------
(* What the tables promise.                                                *)

\* compareTable: the keys of a table whose stored row is not the replayed one.
Diverging(t) == {k \in DOMAIN tables[t] : tables[t][k] # replayed[t][k]}

\* Replaying the journal gives back the stored projection: the report of
\* compareProjectionToReplay is always "converged", although the command folds
\* the event over the few rows of its scope and writes only rows whose
\* revision moved.
ReplayConverges == \A t \in DOMAIN tables : Diverging(t) = {}

=============================================================================
