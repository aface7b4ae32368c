------------------------- MODULE ArtifactStoreProofs -------------------------
(***************************************************************************)
(* Proofs about the journal and the artifact store: the stored projection  *)
(* is the fold of the reducer over the journal, and a committed artifact   *)
(* survives process deaths, failed publications and power losses.  Both    *)
(* hold for every set of keys, hashes and files and every journal length.  *)
(***************************************************************************)
EXTENDS ArtifactStore, TLAPS

TableNames == {"run", "codebase", "repository", "workspace", "lease", "artifact", "alias"}

Keys(t) == DOMAIN EmptyTables[t]

LEMMA KeysOf ==
  /\ DOMAIN EmptyTables = TableNames
  /\ Keys("run") = Runs
  /\ Keys("codebase") = Codebases
  /\ Keys("repository") = Repositories
  /\ Keys("workspace") = Workspaces
  /\ Keys("lease") = Checkouts
  /\ Keys("artifact") = Artifacts
  /\ Keys("alias") = Runs \X Names
  BY DEF TableNames, Keys, EmptyTables

(* The tables of the schema, each with one row per key. *)
Shape(s) ==
  /\ DOMAIN s = TableNames
  /\ \A t \in TableNames : DOMAIN s[t] = Keys(t)

Row(row) == "revision" \in DOMAIN row /\ row.revision \in Nat

Stored(s) == Shape(s) /\ \A t \in TableNames : \A k \in Keys(t) : Row(s[t][k])

(* Two states an event cannot tell apart: they agree on its scope. *)
Agree(s, u, scope) == \A t \in TableNames : \A k \in Keys(t) \cap scope[t] : s[t][k] = u[t][k]

-----------------------------------------------------------------------------
(* What the reducer does to a state, table by table.                        *)

(* A table other than t, and a key of t that is not k, is left alone. *)
OnlyRow(s, a, t, k) ==
  /\ \A q \in TableNames : q # t => a[q] = s[q]
  /\ \A j \in Keys(t) : j # k => a[t][j] = s[t][j]

LEMMA RunEffect ==
  ASSUME NEW s, Shape(s), NEW e, WellFormed(e), e.type \in RunEvents, NEW n
  PROVE  /\ Shape(Applied(s, e, n))
         /\ OnlyRow(s, Applied(s, e, n), "run", e.run)
         /\ Applied(s, e, n)["run"][e.run] = RunEventRow(s, e, n)
  <1>1. e.run \in Keys("run") /\ "run" \in TableNames
    BY KeysOf DEF WellFormed, TableNames
  <1>2. Applied(s, e, n) = [s EXCEPT !["run"] = [s["run"] EXCEPT ![e.run] = RunEventRow(s, e, n)]]
    BY DEF Applied
  <1> QED
    BY <1>1, <1>2 DEF Shape, OnlyRow

LEMMA KindsDisjoint ==
  ASSUME NEW x
  PROVE  /\ x \in IdentityEvents => x \notin RunEvents
         /\ x \in WorkspaceEvents => x \notin RunEvents /\ x \notin IdentityEvents
         /\ x \in LeaseEvents => x \notin RunEvents /\ x \notin IdentityEvents /\ x \notin WorkspaceEvents
         /\ x \in ArtifactEvents => /\ x \notin RunEvents /\ x \notin IdentityEvents
                                    /\ x \notin WorkspaceEvents /\ x \notin LeaseEvents
  BY DEF RunEvents, IdentityEvents, WorkspaceEvents, LeaseEvents, ArtifactEvents, RunTouches,
     LandingEvents,
         LeaseMutations

LEMMA WorkspaceEffect ==
  ASSUME NEW s, Shape(s), NEW e, WellFormed(e), e.type \in WorkspaceEvents, NEW n
  PROVE  /\ Shape(Applied(s, e, n))
         /\ OnlyRow(s, Applied(s, e, n), "workspace", e.workspace)
         /\ Applied(s, e, n)["workspace"][e.workspace] = WorkspaceRow(s, e, n)
  <1>1. e.workspace \in Keys("workspace") /\ "workspace" \in TableNames
    BY KeysOf DEF WellFormed, TableNames
  <1>2. Applied(s, e, n) =
          [s EXCEPT !["workspace"] = [s["workspace"] EXCEPT ![e.workspace] = WorkspaceRow(s, e, n)]]
    BY KindsDisjoint DEF Applied
  <1> QED
    BY <1>1, <1>2 DEF Shape, OnlyRow

LEMMA LeaseEffect ==
  ASSUME NEW s, Shape(s), NEW e, WellFormed(e), e.type \in LeaseEvents, NEW n
  PROVE  /\ Shape(Applied(s, e, n))
         /\ OnlyRow(s, Applied(s, e, n), "lease", e.checkout)
         /\ Applied(s, e, n)["lease"][e.checkout] = LeaseRow(s, e, n)
  <1>1. e.checkout \in Keys("lease") /\ "lease" \in TableNames
    BY KeysOf DEF WellFormed, TableNames
  <1>2. Applied(s, e, n) =
          [s EXCEPT !["lease"] = [s["lease"] EXCEPT ![e.checkout] = LeaseRow(s, e, n)]]
    BY KindsDisjoint DEF Applied
  <1> QED
    BY <1>1, <1>2 DEF Shape, OnlyRow

LEMMA RegisteredEffect ==
  ASSUME NEW s, Shape(s), NEW e, WellFormed(e), NEW n
  PROVE  /\ e.type = "codebase.registered" =>
              /\ Shape(Applied(s, e, n))
              /\ OnlyRow(s, Applied(s, e, n), "codebase", e.codebase)
              /\ Applied(s, e, n)["codebase"][e.codebase] = NewCodebase(n, Nil)
         /\ e.type = "repository.registered" =>
              /\ Shape(Applied(s, e, n))
              /\ OnlyRow(s, Applied(s, e, n), "repository", e.repository)
              /\ Applied(s, e, n)["repository"][e.repository] = NewRepository(n, e.codebase)
  <1> "codebase" \in TableNames /\ "repository" \in TableNames
    BY DEF TableNames
  <1>1. ASSUME e.type = "codebase.registered"
        PROVE  /\ e.codebase \in Keys("codebase")
               /\ Applied(s, e, n) =
                    [s EXCEPT !["codebase"] = [s["codebase"] EXCEPT ![e.codebase] = NewCodebase(n, Nil)]]
    <2>1. e.type \in IdentityEvents
      BY <1>1 DEF IdentityEvents
    <2> QED
      BY <1>1, <2>1, KeysOf, KindsDisjoint DEF WellFormed, Applied, IdentityApplied
  <1>2. ASSUME e.type = "repository.registered"
        PROVE  /\ e.repository \in Keys("repository")
               /\ Applied(s, e, n) = [s EXCEPT !["repository"] =
                    [s["repository"] EXCEPT ![e.repository] = NewRepository(n, e.codebase)]]
    <2>1. e.type \in IdentityEvents
      BY <1>2 DEF IdentityEvents
    <2> QED
      BY <1>2, <2>1, KeysOf, KindsDisjoint DEF WellFormed, Applied, IdentityApplied
  <1> QED
    BY <1>1, <1>2 DEF Shape, OnlyRow

LEMMA RegistrationEffect ==
  ASSUME NEW s, Shape(s), NEW e, WellFormed(e), e.type = "codebase.registration_committed", NEW n
  PROVE  /\ AlreadyRegistered(s, e) => Applied(s, e, n) = s
         /\ ~AlreadyRegistered(s, e) =>
              /\ Shape(Applied(s, e, n))
              /\ \A t \in TableNames \ {"codebase", "repository"} : Applied(s, e, n)[t] = s[t]
              /\ Applied(s, e, n)["codebase"][e.codebase] = NewCodebase(n, e.config)
              /\ \A k \in Codebases \ {e.codebase} :
                   Applied(s, e, n)["codebase"][k] = s["codebase"][k]
              /\ \A r \in Repositories : Applied(s, e, n)["repository"][r] =
                   IF r \in e.repositories THEN NewRepository(n, e.codebase) ELSE s["repository"][r]
  <1> "codebase" \in TableNames /\ "repository" \in TableNames
    BY DEF TableNames
  <1>1. e.type \in IdentityEvents
    BY DEF IdentityEvents
  <1>2. Applied(s, e, n) = IdentityApplied(s, e, n)
    BY <1>1, KindsDisjoint DEF Applied
  <1>3. AlreadyRegistered(s, e) => Applied(s, e, n) = s
    BY <1>2 DEF IdentityApplied
  <1>4. ASSUME ~AlreadyRegistered(s, e)
        PROVE  Applied(s, e, n) =
                 [s EXCEPT !["codebase"] = [s["codebase"] EXCEPT ![e.codebase] = NewCodebase(n, e.config)],
                           !["repository"] = [r \in Repositories |->
                             IF r \in e.repositories THEN NewRepository(n, e.codebase)
                             ELSE s["repository"][r]]]
    BY <1>2, <1>4 DEF IdentityApplied
  <1>5. e.codebase \in Keys("codebase")
    BY <1>1, KeysOf DEF WellFormed
  <1> QED
    BY <1>3, <1>4, <1>5, KeysOf DEF Shape

(* The row a stage or a publication leaves for artifact k. *)
ArtifactRow(s, e, n, k) ==
  IF (\E ref \in e.refs : ref.artifact = k) /\ s["artifact"][k].revision = 0
  THEN NewArtifact(n, e.run, CHOOSE ref \in e.refs : ref.artifact = k)
  ELSE s["artifact"][k]

LEMMA ArtifactEffect ==
  ASSUME NEW s, Shape(s), NEW e, WellFormed(e), e.type \in ArtifactEvents, NEW n
  PROVE  /\ Shape(Applied(s, e, n))
         /\ \A t \in TableNames \ {"artifact", "alias", "run"} : Applied(s, e, n)[t] = s[t]
         /\ \A k \in Artifacts : Applied(s, e, n)["artifact"][k] = ArtifactRow(s, e, n, k)
         /\ e.type # "stage.completed" => /\ Applied(s, e, n)["alias"] = s["alias"]
                                          /\ Applied(s, e, n)["run"] = s["run"]
         /\ e.type = "stage.completed" =>
              /\ Applied(s, e, n)["alias"] = Pointed(s, e, n)
              /\ \A k \in Runs : Applied(s, e, n)["run"][k] =
                   IF k = e.run /\ e.succeeds
                   THEN [Bump(s["run"][k], n) EXCEPT !["status"] = "succeeded"] ELSE s["run"][k]
  <1> {"run", "artifact", "alias"} \subseteq TableNames
    BY DEF TableNames
  <1> DEFINE rows == [k \in Artifacts |-> ArtifactRow(s, e, n, k)]
  <1>1. Applied(s, e, n) = ArtifactApplied(s, e, n)
    BY KindsDisjoint DEF Applied
  <1>2. ASSUME e.type # "stage.completed"
        PROVE  Applied(s, e, n) = [s EXCEPT !["artifact"] = rows]
    BY <1>1, <1>2 DEF ArtifactApplied, ArtifactEvents, ArtifactRow
  <1>3. ASSUME e.type = "stage.completed"
        PROVE  Applied(s, e, n) =
                 [s EXCEPT !["artifact"] = rows, !["alias"] = Pointed(s, e, n),
                           !["run"] = [s["run"] EXCEPT ![e.run] =
                              IF e.succeeds
                              THEN [Bump(s["run"][e.run], n) EXCEPT !["status"] = "succeeded"]
                              ELSE s["run"][e.run]]]
    BY <1>1, <1>3 DEF ArtifactApplied, ArtifactRow
  <1>4. e.run \in Keys("run")
    BY KeysOf DEF WellFormed
  <1>5. DOMAIN Pointed(s, e, n) = Keys("alias")
    BY KeysOf DEF Pointed
  <1> QED
    BY <1>2, <1>3, <1>4, <1>5, KeysOf DEF Shape

-----------------------------------------------------------------------------
(* The reducer reads and writes the rows of the event's scope only: folding *)
(* it over two states that agree there gives the same rows there, and the   *)
(* rest of the state is kept.                                               *)
SameEffect(s, u, e, n) ==
  \A t \in TableNames : \A k \in Keys(t) :
    /\ k \in Scope(e)[t] => Applied(s, e, n)[t][k] = Applied(u, e, n)[t][k]
    /\ k \notin Scope(e)[t] => Applied(s, e, n)[t][k] = s[t][k]

LEMMA Locality ==
  ASSUME NEW s, Shape(s), NEW u, Shape(u), NEW e, WellFormed(e), NEW n, Agree(s, u, Scope(e))
  PROVE  SameEffect(s, u, e, n)
  <1>1. CASE e.type \in RunEvents
    <2>1. e.run \in Keys("run") /\ e.run \in Scope(e)["run"] /\ "run" \in TableNames
      BY <1>1, KeysOf DEF WellFormed, Scope, TableNames
    <2>2. s["run"][e.run] = u["run"][e.run]
      BY <2>1 DEF Agree
    <2>3. RunEventRow(s, e, n) = RunEventRow(u, e, n)
      BY <2>2 DEF RunEventRow
    <2> QED
      BY <1>1, <2>1, <2>2, <2>3, RunEffect DEF SameEffect, OnlyRow, Agree
  <1>2. CASE e.type \in WorkspaceEvents
    <2>1. e.workspace \in Keys("workspace") /\ e.workspace \in Scope(e)["workspace"]
      BY <1>2, KeysOf DEF WellFormed, Scope
    <2>2. s["workspace"][e.workspace] = u["workspace"][e.workspace] /\ "workspace" \in TableNames
      BY <2>1 DEF Agree, TableNames
    <2>3. WorkspaceRow(s, e, n) = WorkspaceRow(u, e, n)
      BY <2>2 DEF WorkspaceRow
    <2> QED
      BY <1>2, <2>1, <2>2, <2>3, WorkspaceEffect DEF SameEffect, OnlyRow, Agree
  <1>3. CASE e.type \in LeaseEvents
    <2>1. e.checkout \in Keys("lease") /\ e.checkout \in Scope(e)["lease"]
      BY <1>3, KeysOf DEF WellFormed, Scope
    <2>2. s["lease"][e.checkout] = u["lease"][e.checkout] /\ "lease" \in TableNames
      BY <2>1 DEF Agree, TableNames
    <2>3. LeaseRow(s, e, n) = LeaseRow(u, e, n)
      BY <2>2 DEF LeaseRow
    <2> QED
      BY <1>3, <2>1, <2>2, <2>3, LeaseEffect DEF SameEffect, OnlyRow, Agree
  <1>4. CASE e.type \in IdentityEvents
    <2>1. e.codebase \in Keys("codebase") /\ e.codebase \in Scope(e)["codebase"]
      BY <1>4, KeysOf DEF WellFormed, Scope
    <2>2. s["codebase"][e.codebase] = u["codebase"][e.codebase] /\ "codebase" \in TableNames
      BY <2>1 DEF Agree, TableNames
    <2>3. CASE e.type = "codebase.registered"
      BY <2>1, <2>2, <2>3, RegisteredEffect DEF SameEffect, OnlyRow, Agree
    <2>4. CASE e.type = "repository.registered"
      <3>1. e.repository \in Keys("repository") /\ e.repository \in Scope(e)["repository"]
        BY <2>4, KeysOf DEF WellFormed, Scope
      <3>2. "repository" \in TableNames
        BY DEF TableNames
      <3> QED
        BY <2>4, <3>1, <3>2, RegisteredEffect DEF SameEffect, OnlyRow, Agree
    <2>5. CASE e.type = "codebase.registration_committed"
      <3>1. AlreadyRegistered(s, e) <=> AlreadyRegistered(u, e)
        BY <2>2 DEF AlreadyRegistered, Exists
      <3>2. Scope(e)["repository"] = e.repositories
        BY <2>5 DEF Scope
      <3>3. CASE AlreadyRegistered(s, e)
        BY <2>5, <3>1, <3>3, RegistrationEffect DEF SameEffect, Agree
      <3>4. CASE ~AlreadyRegistered(s, e)
        <4>1. \A t \in TableNames \ {"codebase", "repository"} : \A k \in Keys(t) :
                Applied(s, e, n)[t][k] = s[t][k] /\ Applied(u, e, n)[t][k] = u[t][k]
          BY <2>5, <3>1, <3>4, RegistrationEffect
        <4>2. \A k \in Keys("codebase") : IF k = e.codebase
                THEN Applied(s, e, n)["codebase"][k] = Applied(u, e, n)["codebase"][k]
                ELSE /\ Applied(s, e, n)["codebase"][k] = s["codebase"][k]
                     /\ Applied(u, e, n)["codebase"][k] = u["codebase"][k]
          BY <2>5, <3>1, <3>4, KeysOf, RegistrationEffect
        <4>3. \A k \in Keys("repository") : IF k \in Scope(e)["repository"]
                THEN Applied(s, e, n)["repository"][k] = Applied(u, e, n)["repository"][k]
                ELSE Applied(s, e, n)["repository"][k] = s["repository"][k]
          BY <2>5, <3>1, <3>2, <3>4, KeysOf, RegistrationEffect
        <4> QED
          BY <2>1, <4>1, <4>2, <4>3 DEF SameEffect, Agree
      <3> QED
        BY <3>3, <3>4
    <2> QED
      BY <1>4, <2>3, <2>4, <2>5 DEF IdentityEvents
  <1>5. CASE e.type \in ArtifactEvents
    <2>1. /\ e.run \in Keys("run") /\ e.run \in Scope(e)["run"]
          /\ Scope(e)["artifact"] = {ref.artifact : ref \in e.refs}
          /\ e.type = "stage.completed" => Scope(e)["alias"] = {<<e.run, ref.name>> : ref \in e.refs}
      BY <1>5, KeysOf DEF WellFormed, Scope
    <2>2. s["run"][e.run] = u["run"][e.run] /\ {"run", "artifact", "alias"} \subseteq TableNames
      BY <2>1 DEF Agree, TableNames
    <2>3. \A t \in TableNames \ {"artifact", "alias", "run"} : \A k \in Keys(t) :
            Applied(s, e, n)[t][k] = s[t][k] /\ Applied(u, e, n)[t][k] = u[t][k]
      BY <1>5, ArtifactEffect
    <2>4. \A k \in Keys("artifact") :
            /\ k \in Scope(e)["artifact"] => Applied(s, e, n)["artifact"][k] = Applied(u, e, n)["artifact"][k]
            /\ k \notin Scope(e)["artifact"] => Applied(s, e, n)["artifact"][k] = s["artifact"][k]
      <3>1. \A k \in Keys("artifact") :
              Applied(s, e, n)["artifact"][k] = ArtifactRow(s, e, n, k)
                /\ Applied(u, e, n)["artifact"][k] = ArtifactRow(u, e, n, k)
        BY <1>5, KeysOf, ArtifactEffect
      <3>2. \A k \in Keys("artifact") \cap Scope(e)["artifact"] : ArtifactRow(s, e, n, k) = ArtifactRow(u, e, n, k)
        BY <2>2 DEF ArtifactRow, Agree
      <3>3. \A k \in Keys("artifact") \ Scope(e)["artifact"] : ArtifactRow(s, e, n, k) = s["artifact"][k]
        BY <2>1 DEF ArtifactRow
      <3> QED
        BY <3>1, <3>2, <3>3
    <2>5. \A k \in Keys("run") :
            /\ k = e.run => Applied(s, e, n)["run"][k] = Applied(u, e, n)["run"][k]
            /\ k # e.run => Applied(s, e, n)["run"][k] = s["run"][k]
      <3>1. CASE e.type # "stage.completed"
        BY <1>5, <2>2, <3>1, ArtifactEffect
      <3>2. CASE e.type = "stage.completed"
        <4> DEFINE Ran(v, k) == IF k = e.run /\ e.succeeds
                                THEN [Bump(v["run"][k], n) EXCEPT !["status"] = "succeeded"] ELSE v["run"][k]
        <4>1. \A k \in Runs : Applied(s, e, n)["run"][k] = Ran(s, k) /\ Applied(u, e, n)["run"][k] = Ran(u, k)
          BY <1>5, <3>2, ArtifactEffect
        <4>2. Ran(s, e.run) = Ran(u, e.run)
          BY <2>2
        <4>3. \A k : k # e.run => Ran(s, k) = s["run"][k]
          OBVIOUS
        <4> HIDE DEF Ran
        <4> QED
          BY <4>1, <4>2, <4>3, KeysOf
      <3> QED
        BY <3>1, <3>2
    <2>6. \A k \in Keys("alias") :
            /\ k \in Scope(e)["alias"] => Applied(s, e, n)["alias"][k] = Applied(u, e, n)["alias"][k]
            /\ k \notin Scope(e)["alias"] => Applied(s, e, n)["alias"][k] = s["alias"][k]
      <3>1. CASE e.type # "stage.completed"
        BY <1>5, <2>2, <3>1, ArtifactEffect DEF Agree
      <3>2. CASE e.type = "stage.completed"
        <4>1. ASSUME NEW k \in Keys("alias")
              PROVE  k \in Scope(e)["alias"] <=> (k[1] = e.run /\ \E ref \in e.refs : ref.name = k[2])
          BY <2>1, <3>2, <4>1, KeysOf
        <4>2. \A k \in Keys("alias") \cap Scope(e)["alias"] : s["alias"][k] = u["alias"][k]
          BY <2>2 DEF Agree
        <4>3. \A k \in Keys("alias") : /\ Applied(s, e, n)["alias"][k] = Pointed(s, e, n)[k]
                                       /\ Applied(u, e, n)["alias"][k] = Pointed(u, e, n)[k]
          BY <1>5, <3>2, ArtifactEffect
        <4>4. ASSUME NEW k \in Keys("alias")
              PROVE  /\ k \in Scope(e)["alias"] => Pointed(s, e, n)[k] = Pointed(u, e, n)[k]
                     /\ k \notin Scope(e)["alias"] => Pointed(s, e, n)[k] = s["alias"][k]
          BY <4>1, <4>2, KeysOf DEF Pointed
        <4> QED
          BY <4>3, <4>4
      <3> QED
        BY <3>1, <3>2
    <2>7. Scope(e)["run"] = {e.run}
      BY <1>5 DEF Scope
    <2> QED
      BY <2>2, <2>3, <2>4, <2>5, <2>6, <2>7 DEF SameEffect, Agree
  <1> QED
    BY <1>1, <1>2, <1>3, <1>4, <1>5 DEF WellFormed, EventTypes

-----------------------------------------------------------------------------
(* A row the reducer changes has a new revision, so the difference of       *)
(* revisions finds it.                                                      *)
Progress(old, new) ==
  new = old \/ (Row(new) /\ new.revision > 0 /\ new.revision # old.revision)

LEMMA BumpMoves ==
  ASSUME NEW row, Row(row), NEW n
  PROVE  /\ Row(Bump(row, n))
         /\ Bump(row, n).revision > 0
         /\ Bump(row, n).revision # row.revision
         /\ "revision" # "status" /\ "revision" # "workspace" /\ "revision" # "snapshot"
         /\ "revision" # "landing"
  BY DEF Row, Bump

LEMMA FieldMoves ==
  ASSUME NEW row, Row(row), NEW n, NEW f \in {"status", "workspace", "snapshot", "landing"}, NEW v
  PROVE  Progress(row, [Bump(row, n) EXCEPT ![f] = v])
  BY BumpMoves DEF Row, Progress

LEMMA RunRowMoves ==
  ASSUME NEW s, Stored(s), NEW e, WellFormed(e), e.type \in RunEvents, ~RunEventRefused(s, e), NEW n
  PROVE  Progress(s["run"][e.run], RunEventRow(s, e, n))
  <1>1. Row(s["run"][e.run])
    BY KeysOf DEF Stored, WellFormed, TableNames
  <1>2. CASE e.type = "run.created"
    BY <1>1, <1>2 DEF RunEventRefused, Exists, RunEventRow, Progress, Row
  <1>3. CASE e.type # "run.created"
    <2>1. Progress(s["run"][e.run], Bump(s["run"][e.run], n))
      BY <1>1, BumpMoves DEF Progress
    <2> QED
      BY <1>1, <1>3, <2>1, FieldMoves DEF RunEventRow, Progress
  <1> QED
    BY <1>2, <1>3

LEMMA Moves ==
  ASSUME NEW s, Stored(s), NEW e, WellFormed(e), ~Refused(s, e), NEW n
  PROVE  /\ Shape(Applied(s, e, n))
         /\ \A t \in TableNames : \A k \in Keys(t) : Progress(s[t][k], Applied(s, e, n)[t][k])
  <1> Shape(s)
    BY DEF Stored
  <1> \A x : Progress(x, x)
    BY DEF Progress
  <1>1. CASE e.type \in RunEvents
    <2>1. Progress(s["run"][e.run], RunEventRow(s, e, n))
      BY <1>1, RunRowMoves DEF Refused
    <2> QED
      BY <1>1, <2>1, RunEffect DEF OnlyRow
  <1>2. CASE e.type \in WorkspaceEvents
    <2>1. Progress(s["workspace"][e.workspace], WorkspaceRow(s, e, n))
      BY <1>2, KeysOf DEF Stored, WellFormed, TableNames, WorkspaceRow, Progress, Row
    <2> QED
      BY <1>2, <2>1, WorkspaceEffect DEF OnlyRow
  <1>3. CASE e.type \in LeaseEvents
    <2>1. Progress(s["lease"][e.checkout], LeaseRow(s, e, n))
      BY <1>3, KeysOf DEF Stored, WellFormed, TableNames, LeaseRow, Progress, Row
    <2> QED
      BY <1>3, <2>1, LeaseEffect DEF OnlyRow
  <1>4. CASE e.type \in IdentityEvents
    <2>1. ~IdentityRefused(s, e)
      BY <1>4 DEF Refused
    <2>2. CASE e.type = "codebase.registered"
      <3>1. Progress(s["codebase"][e.codebase], NewCodebase(n, Nil))
        BY <2>1, <2>2, <1>4, KeysOf DEF IdentityRefused, Exists, Stored, WellFormed, TableNames,
           NewCodebase,
                                        Progress, Row
      <3> QED
        BY <2>2, <3>1, RegisteredEffect DEF OnlyRow
    <2>3. CASE e.type = "repository.registered"
      <3>1. Progress(s["repository"][e.repository], NewRepository(n, e.codebase))
        BY <2>1, <2>3, KeysOf DEF IdentityRefused, Exists, Stored, WellFormed, TableNames,
           NewRepository,
                                  Progress, Row
      <3> QED
        BY <2>3, <3>1, RegisteredEffect DEF OnlyRow
    <2>4. CASE e.type = "codebase.registration_committed"
      <3>1. CASE AlreadyRegistered(s, e)
        BY <2>4, <3>1, RegistrationEffect
      <3>2. CASE ~AlreadyRegistered(s, e)
        <4>1. Progress(s["codebase"][e.codebase], NewCodebase(n, e.config))
          BY <1>4, <2>1, <2>4, <3>2, KeysOf DEF IdentityRefused, Exists, Stored, WellFormed,
             TableNames,
                                                NewCodebase, Progress, Row
        <4>2. \A r \in Repositories : r \in e.repositories =>
                Progress(s["repository"][r], NewRepository(n, e.codebase))
          BY <2>1, <2>4, <3>2, KeysOf DEF IdentityRefused, Exists, Stored, TableNames,
             NewRepository,
                                          Progress, Row
        <4>3. \A k \in Keys("codebase") : Progress(s["codebase"][k], Applied(s, e, n)["codebase"][k])
          BY <2>4, <3>2, <4>1, KeysOf, RegistrationEffect
        <4>4. \A k \in Keys("repository") : Progress(s["repository"][k], Applied(s, e, n)["repository"][k])
          BY <2>4, <3>2, <4>2, KeysOf, RegistrationEffect
        <4> QED
          BY <2>4, <3>2, <4>3, <4>4, RegistrationEffect
      <3> QED
        BY <3>1, <3>2
    <2> QED
      BY <1>4, <2>2, <2>3, <2>4 DEF IdentityEvents
  <1>5. CASE e.type \in ArtifactEvents
    <2>1. \A k \in Keys("artifact") : Progress(s["artifact"][k], Applied(s, e, n)["artifact"][k])
      <3>1. \A k \in Artifacts : Progress(s["artifact"][k], ArtifactRow(s, e, n, k))
        BY KeysOf DEF ArtifactRow, NewArtifact, Progress, Row
      <3> QED
        BY <1>5, <3>1, KeysOf, ArtifactEffect
    <2>2. \A k \in Keys("run") : Progress(s["run"][k], Applied(s, e, n)["run"][k])
      <3>1. \A k \in Runs : Progress(s["run"][k], [Bump(s["run"][k], n) EXCEPT !["status"] = "succeeded"])
        BY KeysOf, FieldMoves DEF Stored, TableNames
      <3>2. CASE e.type # "stage.completed"
        BY <1>5, <3>2, ArtifactEffect
      <3>3. CASE e.type = "stage.completed"
        <4>1. \A k \in Runs :
                \/ Applied(s, e, n)["run"][k] = s["run"][k]
                \/ Applied(s, e, n)["run"][k] = [Bump(s["run"][k], n) EXCEPT !["status"] = "succeeded"]
          BY <1>5, <3>3, ArtifactEffect
        <4> QED
          BY <3>1, <4>1, KeysOf
      <3> QED
        BY <3>2, <3>3
    <2>3. \A k \in Keys("alias") : Progress(s["alias"][k], Applied(s, e, n)["alias"][k])
      <3>1. \A k \in Keys("alias") : Progress(s["alias"][k], Pointed(s, e, n)[k])
        BY KeysOf DEF Stored, TableNames, Pointed, Progress, Row
      <3> QED
        BY <1>5, <3>1, KeysOf, ArtifactEffect
    <2> QED
      BY <1>5, <2>1, <2>2, <2>3, ArtifactEffect
  <1> QED
    BY <1>1, <1>2, <1>3, <1>4, <1>5 DEF WellFormed, EventTypes

LEMMA EffectShape ==
  ASSUME NEW s, Shape(s), NEW e, WellFormed(e), NEW n
  PROVE  Shape(Applied(s, e, n))
  BY RunEffect, WorkspaceEffect, LeaseEffect, RegisteredEffect, RegistrationEffect, ArtifactEffect
  DEF WellFormed, EventTypes, IdentityEvents

-----------------------------------------------------------------------------
(* The transaction.                                                         *)

LEMMA ScopedShape ==
  ASSUME NEW s, Stored(s), NEW scope
  PROVE  /\ Stored(LoadScoped(s, scope))
         /\ Agree(LoadScoped(s, scope), s, scope)
  <1>1. Shape(LoadScoped(s, scope))
    BY DEF LoadScoped, Stored, Shape
  <1>2. \A t \in TableNames : \A k \in Keys(t) :
          LoadScoped(s, scope)[t][k] = IF k \in scope[t] THEN s[t][k] ELSE NoRow
    BY DEF LoadScoped, Stored, Shape
  <1>3. Row(NoRow)
    BY DEF NoRow, Row
  <1> QED
    BY <1>1, <1>2, <1>3 DEF Stored, Agree

(* The journal's invariant: both folds are stored states with equal rows. *)
Converged ==
  /\ Stored(tables)
  /\ Stored(replayed)
  /\ \A t \in TableNames : \A k \in Keys(t) : tables[t][k] = replayed[t][k]

LEMMA CommitConverges ==
  ASSUME Converged, NEW e, WellFormed(e), NEW asserted, CommitAsserting(e, asserted)
  PROVE  Converged'
  <1> DEFINE n == sequence + 1
             before == LoadScoped(tables, Scope(e))
             after == Applied(before, e, n)
             writes == Writes(before, after)
  <1>1. /\ ~Refused(before, e)
        /\ tables' = Merge(tables, after, writes)
        /\ replayed' = Applied(replayed, e, n)
    BY DEF CommitAsserting
  <1>2. Stored(tables) /\ Stored(replayed) /\ Shape(replayed)
    BY DEF Converged, Stored
  <1>3. Stored(before) /\ Shape(before) /\ Agree(before, tables, Scope(e))
    BY <1>2, ScopedShape DEF Stored
  <1>4. Agree(before, replayed, Scope(e)) /\ Agree(replayed, before, Scope(e))
    BY <1>3 DEF Agree, Converged
  <1>5. SameEffect(before, replayed, e, n) /\ SameEffect(replayed, before, e, n)
    BY <1>2, <1>3, <1>4, Locality
  <1>6. /\ Shape(after)
        /\ \A t \in TableNames : \A k \in Keys(t) : Progress(before[t][k], after[t][k])
    BY <1>1, <1>3, Moves
  <1>7. /\ DOMAIN tables' = TableNames
        /\ \A t \in TableNames : DOMAIN tables'[t] = Keys(t)
        /\ \A t \in TableNames : \A k \in Keys(t) :
             tables'[t][k] = IF k \in writes[t] THEN after[t][k] ELSE tables[t][k]
    BY <1>1, <1>2 DEF Merge, Stored, Shape
  <1>8. \A t \in TableNames : \A k \in Keys(t) :
          k \in writes[t] <=> after[t][k].revision > 0 /\ before[t][k].revision # after[t][k].revision
    BY <1>3 DEF Writes, Shape
  <1> HIDE DEF n, before, after, writes
  <1>9. ASSUME NEW t \in TableNames, NEW k \in Keys(t)
        PROVE  tables'[t][k] = replayed'[t][k] /\ Row(tables'[t][k])
    <2>1. CASE k \in Scope(e)[t]
      <3>1. before[t][k] = tables[t][k] /\ Row(before[t][k])
        BY <1>3, <2>1 DEF Agree, Stored
      <3>2. after[t][k] = replayed'[t][k]
        BY <1>1, <1>5, <2>1 DEF SameEffect, after
      <3>3. tables'[t][k] = after[t][k] /\ Row(after[t][k])
        BY <1>6, <1>7, <1>8, <3>1 DEF Progress
      <3> QED
        BY <3>2, <3>3
    <2>2. CASE k \notin Scope(e)[t]
      <3>1. after[t][k] = before[t][k]
        BY <1>5, <2>2 DEF SameEffect, after
      <3>2. tables'[t][k] = tables[t][k]
        BY <1>7, <1>8, <3>1
      <3>3. replayed'[t][k] = replayed[t][k]
        BY <1>1, <1>5, <2>2 DEF SameEffect
      <3> QED
        BY <3>2, <3>3 DEF Converged, Stored
    <2> QED
      BY <2>1, <2>2
  <1>10. Shape(tables')
    BY <1>7 DEF Shape
  <1>11. Shape(replayed')
    <2>1. Shape(Applied(replayed, e, n))
      BY <1>2, EffectShape
    <2> QED
      BY <1>1, <2>1
  <1> QED
    BY <1>9, <1>10, <1>11 DEF Converged, Stored

LEMMA StageIsWellFormed ==
  ASSUME NEW run \in Runs, NEW given, NEW names, NEW succeeds
  PROVE  WellFormed(StageCompleted(run, given, names, succeeds))
  BY DEF WellFormed, StageCompleted, EventTypes, ArtifactEvents, IdentityEvents, WorkspaceEvents,
     LeaseEvents,
         LeaseMutations

(* A step either leaves the journal alone or commits one well-formed event. *)
LEMMA JournalStep ==
  ASSUME [StoreNext]_storeAllVars
  PROVE  \/ UNCHANGED journalVars
         \/ \E e, asserted : WellFormed(e) /\ CommitAsserting(e, asserted)
  <1>1. ASSUME NEW e \in Commands, PublicCommit(e)
        PROVE  WellFormed(e) /\ CommitAsserting(e, {})
    BY <1>1, CommandsAssumption DEF PublicCommit, Commit
  <1>2. ASSUME Completing
        PROVE  \/ UNCHANGED journalVars
               \/ \E e, asserted : WellFormed(e) /\ CommitAsserting(e, asserted)
    <2>0. PICK run \in Runs, succeeds \in BOOLEAN, given \in SUBSET receipts :
            \E names \in [given -> Names] :
              \/ CompleteStage(run, given, names, succeeds)
              \/ CompleteStageRefused(run, given, names, succeeds)
      BY <1>2 DEF Completing
    <2>1. PICK names \in [given -> Names] :
            \/ CompleteStage(run, given, names, succeeds)
            \/ CompleteStageRefused(run, given, names, succeeds)
      BY <2>0
    <2>2. CASE CompleteStage(run, given, names, succeeds)
      <3>1. CommitAsserting(StageCompleted(run, given, names, succeeds), {r.hash : r \in given})
        BY <2>2 DEF CompleteStage
      <3> QED
        BY <3>1, StageIsWellFormed
    <2>3. CASE CompleteStageRefused(run, given, names, succeeds)
      BY <2>3 DEF CompleteStageRefused
    <2> QED
      BY <2>1, <2>2, <2>3
  <1> QED
    BY <1>1, <1>2 DEF StoreNext, Publishing, Faults, storeAllVars

LEMMA InitConverged == JournalInit => Converged
  <1> SUFFICES ASSUME JournalInit
               PROVE  Converged
    OBVIOUS
  <1>1. Shape(EmptyTables)
    BY KeysOf DEF Shape, Keys
  <1>2. \A t \in TableNames : \A k \in Keys(t) : EmptyTables[t][k] = NoRow
    BY DEF TableNames, Keys, EmptyTables
  <1>3. Row(NoRow)
    BY DEF NoRow, Row
  <1> QED
    BY <1>1, <1>2, <1>3 DEF JournalInit, Converged, Stored

(* Every step that commits an event folds it into the stored tables exactly *)
(* as a replay of the whole journal does, and no other step touches either. *)
THEOREM JournalConverges == StoreSpec => []Converged
  <1>1. StoreInit => Converged
    BY InitConverged DEF StoreInit
  <1>2. Converged /\ [StoreNext]_storeAllVars => Converged'
    <2> SUFFICES ASSUME Converged, [StoreNext]_storeAllVars
                 PROVE  Converged'
      OBVIOUS
    <2>1. CASE UNCHANGED journalVars
      BY <2>1 DEF journalVars, Converged
    <2> QED
      BY <2>1, JournalStep, CommitConverges
  <1> QED
    BY <1>1, <1>2, PTL DEF StoreSpec

(* The report of compareProjectionToReplay is "converged" after any         *)
(* sequence of commands: loading only the rows of an event's scope and      *)
(* writing only rows whose revision moved loses nothing.                    *)
THEOREM ReplayAgrees == StoreSpec => []ReplayConverges
  <1>1. Converged => ReplayConverges
    BY DEF Converged, Stored, Shape, ReplayConverges, Diverging
  <1> QED
    BY JournalConverges, <1>1, PTL

-----------------------------------------------------------------------------
(* The files.                                                               *)

(* The blob of h is on the disk, under its name, with bytes that hash to h. *)
Good(h) ==
  /\ durable[h] # Nil /\ durable[h] \in synced /\ content[durable[h]] = h
  /\ blobs[h] # Nil /\ content[blobs[h]] = h

Pinned(h) == h \in Hashes /\ (h \in rotted \/ Good(h))

Publications == {"write", "fsync", "link", "quarantine", "unlink", "relink", "resync", "dirsync", "done"}

Jobs == [pc : Publications, ino : Inodes, temp : Inodes, hash : Hashes, adopted : BOOLEAN]

FileTypeOK ==
  /\ content \in [Inodes -> Hashes \cup {Nil, Corrupt}]
  /\ synced \subseteq Inodes
  /\ blobs \in [Hashes -> Inodes \cup {Nil}]
  /\ durable \in [Hashes -> Inodes \cup {Nil}]
  /\ rotted \subseteq Hashes
  /\ job \in {Idle, Down} \cup Jobs

(* What a directory entry names has been fsynced, and holds the bytes it is *)
(* named after unless the medium corrupted them.                            *)
BlobsSound ==
  \A h \in Hashes : blobs[h] # Nil =>
    /\ blobs[h] \in synced
    /\ content[blobs[h]] = h \/ (content[blobs[h]] = Corrupt /\ h \in rotted)

DurableSound ==
  \A h \in Hashes : durable[h] # Nil =>
    /\ durable[h] \in synced
    /\ content[durable[h]] = h \/ (content[durable[h]] = Corrupt /\ h \in rotted)

(* Only the replacement of a corrupt blob unlinks. *)
UnlinkedIsRotted == \A h \in Hashes : durable[h] # Nil /\ blobs[h] = Nil => h \in rotted

(* A publication's own file has no name in blobs/ before it is linked, so   *)
(* nothing can corrupt it; from then on the entry stays until it is synced. *)
Unlinked == {"write", "fsync", "link", "quarantine", "unlink", "relink"}

JobSound ==
  /\ job.pc = "write" => content[job.ino] = Nil
  /\ job.pc \in Unlinked \ {"write"} => content[job.ino] = job.hash
  /\ job.pc \in Unlinked => \A h \in Hashes : blobs[h] # job.ino /\ durable[h] # job.ino
  /\ job.pc \in Unlinked \ {"write", "fsync"} => job.ino \in synced
  /\ job.pc \in {"quarantine", "unlink", "relink"} => job.hash \in rotted
  /\ job.pc \in {"resync", "dirsync"} => blobs[job.hash] # Nil
  /\ job.pc = "done" => Pinned(job.hash)

Disk == FileTypeOK /\ BlobsSound /\ DurableSound /\ UnlinkedIsRotted /\ JobSound

FilesInv ==
  /\ Disk
  /\ \A r \in receipts : Pinned(r.hash)
  /\ \A a \in Artifacts : Exists(tables["artifact"], a) => Pinned(tables["artifact"][a].hash)

LEMMA JobFields ==
  ASSUME FileTypeOK, job.pc \in Publications
  PROVE  job \in Jobs
  BY DEF FileTypeOK, Idle, Down, Publications

LEMMA GoesTo ==
  ASSUME job \in Jobs, NEW p \in Publications, GoTo(p)
  PROVE  job' \in Jobs /\ job'.pc = p /\ job'.ino = job.ino /\ job'.hash = job.hash
  BY DEF GoTo, Jobs

(* What a publication step or a fault may do to a name or a file that       *)
(* somebody relies on: nothing, unless the medium corrupts it.              *)
PinsKept == \A h : Pinned(h) => Pinned(h)'

LEMMA WriteAllStep ==
  ASSUME Disk, WriteAll
  PROVE  Disk' /\ PinsKept
  <1> USE StoreAssumption DEF Disk, FileTypeOK, BlobsSound, DurableSound, UnlinkedIsRotted,
  JobSound, Unlinked,
                              Publications, Corrupt, PinsKept, Pinned, Good
  <1>1. job \in Jobs /\ job.ino \in Inodes /\ job.hash \in Hashes
    BY JobFields DEF WriteAll, At, Jobs
  <1>2. job' \in Jobs /\ job'.pc = "fsync" /\ job'.ino = job.ino /\ job'.hash = job.hash
    BY <1>1, GoesTo DEF WriteAll
  <1> QED
    BY <1>1, <1>2 DEF WriteAll, At

LEMMA SyncTempStep ==
  ASSUME Disk, SyncTemp
  PROVE  Disk' /\ PinsKept
  <1> USE StoreAssumption DEF Disk, FileTypeOK, BlobsSound, DurableSound, UnlinkedIsRotted,
  JobSound, Unlinked,
                              Publications, Corrupt, PinsKept, Pinned, Good
  <1>1. job \in Jobs /\ job.ino \in Inodes /\ job.hash \in Hashes
    BY JobFields DEF SyncTemp, At, Jobs
  <1>2. job' \in Jobs /\ job'.pc = "link" /\ job'.ino = job.ino /\ job'.hash = job.hash
    BY <1>1, GoesTo DEF SyncTemp
  <1> QED
    BY <1>1, <1>2 DEF SyncTemp, At

LEMMA QuarantineLinkStep ==
  ASSUME Disk, QuarantineLink
  PROVE  Disk' /\ PinsKept
  <1> USE StoreAssumption DEF Disk, FileTypeOK, BlobsSound, DurableSound, UnlinkedIsRotted,
  JobSound, Unlinked,
                              Publications, Corrupt, PinsKept, Pinned, Good
  <1>1. job \in Jobs /\ job.ino \in Inodes /\ job.hash \in Hashes
    BY JobFields DEF QuarantineLink, At, Jobs
  <1>2. job' \in Jobs /\ job'.pc = "unlink" /\ job'.ino = job.ino /\ job'.hash = job.hash
    BY <1>1, GoesTo DEF QuarantineLink
  <1> QED
    BY <1>1, <1>2 DEF QuarantineLink, At

LEMMA UnlinkCorruptStep ==
  ASSUME Disk, UnlinkCorrupt
  PROVE  Disk' /\ PinsKept
  <1> USE StoreAssumption DEF Disk, FileTypeOK, BlobsSound, DurableSound, UnlinkedIsRotted,
  JobSound, Unlinked,
                              Publications, Corrupt, PinsKept, Pinned, Good
  <1>1. job \in Jobs /\ job.ino \in Inodes /\ job.hash \in Hashes
    BY JobFields DEF UnlinkCorrupt, At, Jobs
  <1>2. job' \in Jobs /\ job'.pc = "relink" /\ job'.ino = job.ino /\ job'.hash = job.hash
    BY <1>1, GoesTo DEF UnlinkCorrupt
  <1> QED
    BY <1>1, <1>2 DEF UnlinkCorrupt, At

LEMMA RelinkBlobStep ==
  ASSUME Disk, RelinkBlob
  PROVE  Disk' /\ PinsKept
  <1> USE StoreAssumption DEF Disk, FileTypeOK, BlobsSound, DurableSound, UnlinkedIsRotted,
  JobSound, Unlinked,
                              Publications, Corrupt, PinsKept, Pinned, Good
  <1>1. job \in Jobs /\ job.ino \in Inodes /\ job.hash \in Hashes
    BY JobFields DEF RelinkBlob, At, Jobs
  <1>2. job' \in Jobs /\ job'.pc = "resync" /\ job'.ino = job.ino /\ job'.hash = job.hash
    BY <1>1, GoesTo DEF RelinkBlob
  <1> QED
    BY <1>1, <1>2 DEF RelinkBlob, At

LEMMA ResyncBlobStep ==
  ASSUME Disk, ResyncBlob
  PROVE  Disk' /\ PinsKept
  <1> USE StoreAssumption DEF Disk, FileTypeOK, BlobsSound, DurableSound, UnlinkedIsRotted,
  JobSound, Unlinked,
                              Publications, Corrupt, PinsKept, Pinned, Good
  <1>1. job \in Jobs /\ job.ino \in Inodes /\ job.hash \in Hashes
    BY JobFields DEF ResyncBlob, At, Jobs
  <1>2. job' \in Jobs /\ job'.pc = "dirsync" /\ job'.ino = job.ino /\ job'.hash = job.hash
    BY <1>1, GoesTo DEF ResyncBlob
  <1> QED
    BY <1>1, <1>2 DEF ResyncBlob, At

LEMMA SyncBlobsDirStep ==
  ASSUME Disk, SyncBlobsDir
  PROVE  Disk' /\ PinsKept
  <1> USE StoreAssumption DEF Disk, FileTypeOK, BlobsSound, DurableSound, UnlinkedIsRotted,
  JobSound, Unlinked,
                              Publications, Corrupt, PinsKept, Pinned, Good
  <1>1. job \in Jobs /\ job.ino \in Inodes /\ job.hash \in Hashes
    BY JobFields DEF SyncBlobsDir, At, Jobs
  <1>2. job' \in Jobs /\ job'.pc = "done" /\ job'.ino = job.ino /\ job'.hash = job.hash
    BY <1>1, GoesTo DEF SyncBlobsDir
  <1> QED
    BY <1>1, <1>2 DEF SyncBlobsDir, At

LEMMA LinkBlobStep ==
  ASSUME Disk, LinkBlob
  PROVE  Disk' /\ PinsKept
  <1> USE StoreAssumption DEF Disk, FileTypeOK, BlobsSound, DurableSound, UnlinkedIsRotted,
  JobSound, Unlinked,
                              Publications, Corrupt, PinsKept, Pinned, Good
  <1>1. job \in Jobs /\ job.ino \in Inodes /\ job.hash \in Hashes
    BY JobFields DEF LinkBlob, At, Jobs
  <1>2. UNCHANGED <<content, synced, durable, rotted>> /\ job.pc = "link"
    BY DEF LinkBlob, At
  <1>3. CASE blobs[job.hash] = Nil /\ blobs' = [blobs EXCEPT ![job.hash] = job.ino] /\ GoTo("resync")
    <2>1. job' \in Jobs /\ job'.pc = "resync" /\ job'.ino = job.ino /\ job'.hash = job.hash
      BY <1>1, <1>3, GoesTo
    <2> QED
      BY <1>1, <1>2, <1>3, <2>1
  <1>4. CASE /\ blobs[job.hash] # Nil /\ content[blobs[job.hash]] = job.hash
             /\ job' = [job EXCEPT !.pc = "dirsync", !.ino = blobs[job.hash], !.adopted = TRUE]
             /\ UNCHANGED blobs
    <2>1. job' \in Jobs /\ job'.pc = "dirsync" /\ job'.hash = job.hash
      BY <1>1, <1>4 DEF Jobs
    <2> QED
      BY <1>1, <1>2, <1>4, <2>1
  <1>5. CASE /\ blobs[job.hash] # Nil /\ content[blobs[job.hash]] # job.hash
             /\ GoTo("quarantine") /\ UNCHANGED blobs
    <2>1. job' \in Jobs /\ job'.pc = "quarantine" /\ job'.ino = job.ino /\ job'.hash = job.hash
      BY <1>1, <1>5, GoesTo
    <2> QED
      BY <1>1, <1>2, <1>5, <2>1
  <1> QED
    BY <1>3, <1>4, <1>5 DEF LinkBlob

LEMMA OpenTempStep ==
  ASSUME Disk, NEW h \in Hashes, OpenTemp(h)
  PROVE  Disk' /\ PinsKept
  <1> USE StoreAssumption DEF Disk, FileTypeOK, BlobsSound, DurableSound, UnlinkedIsRotted,
  JobSound, Unlinked,
                              Publications, Corrupt, PinsKept, Pinned, Good
  <1>1. PICK i \in Inodes \ Used :
          job' = [pc |-> "write", ino |-> i, temp |-> i, hash |-> h, adopted |-> FALSE]
    BY DEF OpenTemp
  <1>2. content[i] = Nil
    BY <1>1 DEF Used
  <1>3. job' \in Jobs /\ job'.pc = "write" /\ job'.ino = i /\ job'.hash = h
    BY <1>1 DEF Jobs
  <1>4. UNCHANGED <<content, synced, blobs, durable, rotted>>
    BY DEF OpenTemp
  <1>5. \A k \in Hashes : blobs[k] # i /\ durable[k] # i
    BY <1>1, <1>2
  <1>6. JobSound'
    BY <1>2, <1>3, <1>4, <1>5
  <1> QED
    BY <1>3, <1>4, <1>6

(* A publication that ends, the process with it or not, leaves the names    *)
(* and the files as they are.                                               *)
LEMMA EndsJob ==
  ASSUME Disk, job' \in {Idle, Down}, UNCHANGED <<content, synced, blobs, durable, rotted>>
  PROVE  Disk' /\ PinsKept
  <1> USE StoreAssumption DEF Disk, FileTypeOK, BlobsSound, DurableSound, UnlinkedIsRotted,
  JobSound, Unlinked,
                              Publications, Corrupt, PinsKept, Pinned, Good
  <1>1. job'.pc \notin Publications
    BY DEF Idle, Down
  <1> QED
    BY <1>1

LEMMA RotStep ==
  ASSUME Disk, NEW h \in Hashes, Rot(h)
  PROVE  Disk' /\ PinsKept
  <1> USE StoreAssumption DEF Disk, FileTypeOK, BlobsSound, DurableSound, UnlinkedIsRotted,
  JobSound, Unlinked,
                              Publications, Corrupt, PinsKept, Pinned, Good
  <1>1. PICK i \in Inodes : i = blobs[h] /\ content[i] = h
    BY DEF Rot
  <1>2. /\ content'[i] = Corrupt /\ \A j \in Inodes : j # i => content'[j] = content[j]
        /\ rotted' = rotted \cup {h} /\ UNCHANGED <<synced, blobs, durable, job>>
    BY <1>1 DEF Rot
  <1>3. \A k \in Hashes : (blobs[k] = i => k = h) /\ (durable[k] = i => k = h)
    BY <1>1
  <1>4. job.pc \in Publications => job.ino \in Inodes /\ job.hash \in Hashes
    BY JobFields DEF Jobs
  <1>5. FileTypeOK'
    BY <1>2 DEF Rot
  <1>6. BlobsSound' /\ DurableSound' /\ UnlinkedIsRotted'
    BY <1>2, <1>3
  <1>7. PinsKept
    BY <1>2, <1>3
  <1>8. JobSound'
    BY <1>1, <1>2, <1>4, <1>7
  <1> QED
    BY <1>5, <1>6, <1>7, <1>8

LEMMA PowerFailsStep ==
  ASSUME Disk, PowerFails
  PROVE  Disk' /\ PinsKept
  <1> USE StoreAssumption DEF Disk, FileTypeOK, BlobsSound, DurableSound, UnlinkedIsRotted,
  JobSound, Unlinked,
                              Publications, Corrupt, PinsKept, Pinned, Good
  <1>1. /\ durable' = blobs'
        /\ blobs' \in [Hashes -> Inodes \cup {Nil}]
        /\ \A h \in Hashes : blobs'[h] = blobs[h] \/ blobs'[h] = durable[h]
    BY DEF PowerFails
  <1>2. /\ content' \in [Inodes -> Hashes \cup {Nil, Corrupt}]
        /\ \A i \in Inodes : i \in synced => content'[i] = content[i]
    BY DEF PowerFails
  <1>3. synced' = {i \in Inodes : content[i] # Nil} /\ rotted' = rotted
    BY DEF PowerFails
  <1>4. job' = Down /\ job'.pc \notin Publications
    BY DEF PowerFails, Down
  <1>5. BlobsSound' /\ DurableSound' /\ UnlinkedIsRotted'
    BY <1>1, <1>2, <1>3
  <1>6. PinsKept
    BY <1>1, <1>2, <1>3
  <1> QED
    BY <1>1, <1>2, <1>3, <1>4, <1>5, <1>6

LEMMA PublishingStep ==
  ASSUME FilesInv, Publishing
  PROVE  Disk' /\ PinsKept /\ \A r \in receipts' : Pinned(r.hash)'
  <1> Disk /\ UNCHANGED tables
    BY DEF FilesInv, Publishing, journalVars
  <1>1. CASE ReturnReceipt
    <2>1. Disk' /\ PinsKept
      BY <1>1, EndsJob DEF ReturnReceipt
    <2>2. Pinned(job.hash)
      BY <1>1 DEF ReturnReceipt, At, Disk, JobSound
    <2>3. \A r \in receipts' : r \in receipts \/ r.hash = job.hash
      BY <1>1 DEF ReturnReceipt
    <2> QED
      BY <2>1, <2>2, <2>3 DEF FilesInv, PinsKept
  <1>2. CASE ~ReturnReceipt
    <2>1. receipts' = receipts
      BY <1>2 DEF Publishing, OpenTemp, WriteAll, SyncTemp, LinkBlob, QuarantineLink,
         UnlinkCorrupt,
                  RelinkBlob, ResyncBlob, SyncBlobsDir, PublishFails, RecoverArtifacts
    <2>2. Disk' /\ PinsKept
      <3>1. ASSUME PublishFails \/ RecoverArtifacts
            PROVE  Disk' /\ PinsKept
        BY <3>1, EndsJob DEF PublishFails, RecoverArtifacts, fileVars
      <3> QED
        BY <1>2, <3>1, OpenTempStep, WriteAllStep, SyncTempStep, LinkBlobStep, QuarantineLinkStep,
           UnlinkCorruptStep, RelinkBlobStep, ResyncBlobStep, SyncBlobsDirStep
        DEF Publishing
    <2> QED
      BY <2>1, <2>2 DEF FilesInv, PinsKept
  <1> QED
    BY <1>1, <1>2

LEMMA FaultsStep ==
  ASSUME FilesInv, Faults
  PROVE  Disk' /\ PinsKept /\ \A r \in receipts' : Pinned(r.hash)'
  <1> Disk
    BY DEF FilesInv
  <1>1. ASSUME NEW h \in Hashes, Rot(h)
        PROVE  Disk' /\ PinsKept /\ receipts' = receipts
    BY <1>1, RotStep DEF Rot
  <1>2. ASSUME ProcessDies
        PROVE  Disk' /\ PinsKept /\ receipts' = {}
    BY <1>2, EndsJob DEF ProcessDies, fileVars
  <1>3. ASSUME PowerFails
        PROVE  Disk' /\ PinsKept /\ receipts' = {}
    BY <1>3, PowerFailsStep DEF PowerFails
  <1> QED
    BY <1>1, <1>2, <1>3 DEF Faults, FilesInv, PinsKept

(* A commit adds artifact rows for asserted blobs only. *)
LEMMA CommitGuards ==
  ASSUME Converged, NEW e, NEW asserted, CommitAsserting(e, asserted), NEW a \in Artifacts
  PROVE  \/ tables'["artifact"][a] = tables["artifact"][a]
         \/ tables'["artifact"][a].hash \in asserted
  <1> DEFINE before == LoadScoped(tables, Scope(e))
             after == Applied(before, e, sequence + 1)
             writes == Writes(before, after)
  <1>1. tables' = Merge(tables, after, writes) /\ GuardedWritesVerified(writes, after, asserted)
    BY DEF CommitAsserting
  <1>2. "artifact" \in DOMAIN tables /\ a \in DOMAIN tables["artifact"]
    BY KeysOf DEF Converged, Stored, Shape, TableNames
  <1> HIDE DEF before, after, writes
  <1>3. tables'["artifact"][a] = IF a \in writes["artifact"] THEN after["artifact"][a] ELSE tables["artifact"][a]
    BY <1>1, <1>2 DEF Merge
  <1>4. a \in writes["artifact"] => after["artifact"][a].hash \in asserted
    BY <1>1 DEF GuardedWritesVerified
  <1> QED
    BY <1>3, <1>4

LEMMA CommitKeepsFiles ==
  ASSUME Converged, FilesInv, NEW e, NEW asserted, CommitAsserting(e, asserted), UNCHANGED <<fileVars, job, rotted>>,
         \A h \in asserted : Pinned(h), receipts' \subseteq receipts
  PROVE  FilesInv'
  <1>1. Disk'
    BY DEF FilesInv, Disk, FileTypeOK, BlobsSound, DurableSound, UnlinkedIsRotted, JobSound,
       Pinned, Good, fileVars
  <1>2. PinsKept
    BY DEF PinsKept, Pinned, Good, fileVars
  <1>3. ASSUME NEW a \in Artifacts, Exists(tables'["artifact"], a)
        PROVE  Pinned(tables'["artifact"][a].hash)
    BY <1>3, CommitGuards DEF FilesInv, Exists
  <1> QED
    BY <1>1, <1>2, <1>3 DEF FilesInv, PinsKept, Exists

LEMMA FilesStep == Converged /\ FilesInv /\ [StoreNext]_storeAllVars => FilesInv'
  <1> SUFFICES ASSUME Converged, FilesInv, [StoreNext]_storeAllVars
               PROVE  FilesInv'
    OBVIOUS
  <1>1. ASSUME NEW e \in Commands, PublicCommit(e)
        PROVE  FilesInv'
    <2>1. CommitAsserting(e, {}) /\ UNCHANGED <<fileVars, job, rotted>> /\ receipts' \subseteq receipts
      BY <1>1 DEF PublicCommit, Commit, storeVars
    <2> QED
      BY <2>1, CommitKeepsFiles
  <1>2. CASE Publishing
    <2>1. tables' = tables
      BY <1>2 DEF Publishing, journalVars
    <2> QED
      BY <1>2, <2>1, PublishingStep DEF FilesInv, PinsKept
  <1>3. CASE Faults
    <2>1. tables' = tables
      BY <1>3 DEF Faults, journalVars
    <2> QED
      BY <1>3, <2>1, FaultsStep DEF FilesInv, PinsKept
  <1>4. ASSUME NEW run \in Runs, NEW succeeds \in BOOLEAN, NEW given \in SUBSET receipts, NEW names,
               CompleteStage(run, given, names, succeeds)
        PROVE  FilesInv'
    <2>1. /\ CommitAsserting(StageCompleted(run, given, names, succeeds), {r.hash : r \in given})
          /\ UNCHANGED <<fileVars, job, rotted>> /\ receipts' \subseteq receipts
      BY <1>4 DEF CompleteStage
    <2>2. \A h \in {r.hash : r \in given} : Pinned(h)
      BY DEF FilesInv
    <2> QED
      BY <2>1, <2>2, CommitKeepsFiles
  <1>5. ASSUME UNCHANGED <<journalVars, fileVars, job, rotted>>, receipts' \subseteq receipts
        PROVE  FilesInv'
    <2>1. Disk'
      BY <1>5 DEF FilesInv, Disk, FileTypeOK, BlobsSound, DurableSound, UnlinkedIsRotted,
         JobSound, Pinned, Good,
                  fileVars
    <2>2. PinsKept
      BY <1>5 DEF PinsKept, Pinned, Good, fileVars
    <2> QED
      BY <1>5, <2>1, <2>2 DEF FilesInv, PinsKept, journalVars
  <1>6. CASE Completing
    <2>1. PICK run \in Runs, succeeds \in BOOLEAN, given \in SUBSET receipts :
            \E names \in [given -> Names] :
              \/ CompleteStage(run, given, names, succeeds)
              \/ CompleteStageRefused(run, given, names, succeeds)
      BY <1>6 DEF Completing
    <2>2. ASSUME NEW names \in [given -> Names], CompleteStageRefused(run, given, names, succeeds)
          PROVE  FilesInv'
      BY <1>5, <2>2 DEF CompleteStageRefused
    <2> QED
      BY <1>4, <2>1, <2>2
  <1>7. CASE UNCHANGED storeAllVars
    BY <1>5, <1>7 DEF storeAllVars, storeVars
  <1> QED
    BY <1>1, <1>2, <1>3, <1>6, <1>7 DEF StoreNext

LEMMA InitFiles == StoreInit => FilesInv
  <1> SUFFICES ASSUME StoreInit
               PROVE  FilesInv
    OBVIOUS
  <1>1. Disk
    BY DEF StoreInit, FilesInit, Disk, FileTypeOK, BlobsSound, DurableSound, UnlinkedIsRotted,
       JobSound, Idle,
           Unlinked
  <1>2. \A a \in Artifacts : ~Exists(tables["artifact"], a)
    BY DEF StoreInit, JournalInit, EmptyTables, NoRow, Exists
  <1> QED
    BY <1>1, <1>2 DEF FilesInv, StoreInit, FilesInit

(* Every artifact row a stage has committed names bytes that are on the     *)
(* disk under their hash, unless the medium itself corrupted them: for any  *)
(* interleaving of publications, adoptions, replacements of corrupt blobs,  *)
(* failures, process deaths and power losses.                               *)
THEOREM CommittedDurable == StoreSpec => []CommittedIsDurable
  <1>1. FilesInv => CommittedIsDurable
    BY DEF FilesInv, Pinned, Good, CommittedIsDurable, Verified, Exists
  <1> QED
    BY JournalConverges, InitFiles, FilesStep, <1>1, PTL DEF StoreSpec

=============================================================================
