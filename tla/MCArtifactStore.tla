--------------------------- MODULE MCArtifactStore ---------------------------
(* Two ways to look at the store.  In one a run publishes under one or two names *)
(* while files and processes fail, and a command tries to publish without a       *)
(* receipt.  In the other the file system rests and the commands register a       *)
(* codebase, its repositories and workspaces and hand their leases around.         *)
EXTENDS ArtifactStore, TLC

CONSTANTS c1, p1, w1, r1

VARIABLE part

StoreCommands ==
  [type : {"artifact.published"}, run : Runs, refs : {{ref} : ref \in ArtifactRefs}]

JournalCommands ==
  [type : {"run.created"}, run : Runs, codebase : {c1}, workspace : {Nil}]
  \cup [type : {"run.workspace_assigned"}, run : Runs, workspace : Workspaces]
  \cup [type : {"run.status_changed"}, run : Runs, status : {"running"}]
  \cup [type : {"run.instructions_snapshotted"}, run : Runs, snapshot : Hashes]
  \cup [type : LandingEvents, run : Runs, landing : Names]
  \cup [type : {"interaction.created"}, run : Runs]
  \cup [type : {"codebase.registered"}, codebase : Codebases]
  \cup [type : {"repository.registered"}, codebase : Codebases, repository : Repositories]
  \cup [type : {"codebase.registration_committed"}, codebase : Codebases, config : Hashes,
        repositories : {Repositories}]
  \cup [type : {"workspace.registered"}, codebase : Codebases, workspace : Workspaces,
        repository : {Nil}, lifecycle : {Nil}, checkout : {Nil}]
  \cup [type : {"workspace.provisioning_recorded"}, codebase : Codebases, workspace : Workspaces,
        repository : Repositories, lifecycle : {"ready"}, checkout : Checkouts]
  \cup [type : LeaseEvents, checkout : Checkouts, workspace : Workspaces,
        repository : Repositories, lease : Leases, owner : Owners, sha : {Nil}, fence : 1..2]

\* What four commands leave: a codebase with a repository, a workspace and a run.
Registered ==
  LET one == Applied(EmptyTables, [type |-> "codebase.registered", codebase |-> c1], 1)
      two == Applied(one, [type |-> "repository.registered", codebase |-> c1, repository |-> p1], 2)
      three == Applied(two, [type |-> "workspace.registered", codebase |-> c1, workspace |-> w1,
                             repository |-> Nil, lifecycle |-> Nil, checkout |-> Nil], 3)
  IN Applied(three, [type |-> "run.created", run |-> r1, codebase |-> Nil, workspace |-> Nil], 4)

MCInit ==
  \/ part = "journal" /\ StoreInit
  \/ /\ part = "store" /\ FilesInit
     /\ sequence = 4 /\ tables = Registered /\ replayed = Registered

MCNext ==
  \/ part = "store" /\ StoreNext /\ UNCHANGED part
  \/ part = "journal" /\ (\E e \in JournalCommands : PublicCommit(e)) /\ UNCHANGED part

MCSpec == MCInit /\ [][MCNext]_<<part, storeAllVars>>

MCSymmetry == Permutations(Hashes) \cup Permutations(Names)
=============================================================================
