-------------------------- MODULE ManagedWorkspaces --------------------------
(***************************************************************************)
(* Managed workspaces: a Git worktree per workspace, its manifest and its  *)
(* writer lease in the state database, and the setup script in a process   *)
(* group of its own that outlives the daemon.                              *)
(*                                                                         *)
(* A step is the code between two awaits.  A call works with the manifest  *)
(* and the lease it read (call[w].m, call[w].fence); the lease it holds may*)
(* expire at any moment, which fresh records, and the daemon may die.  A   *)
(* lease id is as fresh as the fencing revision it comes with, so fence    *)
(* stands for both.  A commit is its upstream base and how much was        *)
(* committed on top of it.  One call at a time works on a workspace: the   *)
(* daemon gives every run a workspace id of its own.                       *)
(***************************************************************************)
EXTENDS Naturals, FiniteSets

CONSTANTS
  Spaces,        \* workspace ids; each has one checkout path
  HasSetup,      \* configuration.scripts.setup is not null
  MaxMoves,      \* bound on upstream pushes
  MaxWork,       \* bound on commits made in a checkout
  MaxStarts,     \* bound on daemon instances
  MaxFences      \* bound on the leases of one checkout

ASSUME WorkspaceBounds ==
  /\ HasSetup \in BOOLEAN
  /\ {MaxMoves, MaxWork, MaxStarts, MaxFences} \subseteq Nat
  /\ MaxStarts > 0

VARIABLES
  daemon,     \* the running daemon instance, the owner of its leases
  remote,     \* the sha of the remote base branch
  branch,     \* the tip of the integration branch, or NoCommit
  present,    \* the workspaces whose worktree is on the disk
  dirty,      \* the worktrees with uncommitted changes
  manifest,   \* the stored manifest, or NoManifest
  lease,      \* the stored writer lease, or NoLease
  fresh,      \* the workspaces whose lease has not expired
  groups,     \* the setup process groups that are alive, by workspace and lease
  call        \* the call at work on a workspace, or Idle

managedVars ==
  <<daemon, remote, branch, present, dirty, manifest, lease, fresh, groups, call>>

NoCommit == [base |-> MaxMoves + 1, work |-> 0]
Tip(base) == [base |-> base, work |-> 0]

Phases == {"base-resolved", "checkout-creating", "checkout-created", "files-copying",
           "files-copied", "setup-started", "completed", "failed", "recovery-required"}
NoManifest == [lifecycle |-> "none", phase |-> "none", setup |-> "skipped",
               base |-> 0, observed |-> 0, head |-> NoCommit]

NoLease == [fence |-> 0, owner |-> 0, sha |-> NoCommit, state |-> "released", witnesses |-> {}]

Idle == [op |-> "none", pc |-> "idle", m |-> NoManifest, fence |-> 0, base |-> 0,
         outcome |-> "none", renewed |-> TRUE]

ManagedInit ==
  /\ daemon = 1
  /\ remote = 0
  /\ branch = [w \in Spaces |-> NoCommit]
  /\ present = {}
  /\ dirty = {}
  /\ manifest = [w \in Spaces |-> NoManifest]
  /\ lease = [w \in Spaces |-> NoLease]
  /\ fresh = {}
  /\ groups = {}
  /\ call = [w \in Spaces |-> Idle]

-----------------------------------------------------------------------------
(* The lease service.                                                      *)

\* assertIdentity accepts the lease the call was given.
Current(w) ==
  /\ lease[w].state = "active"
  /\ w \in fresh
  /\ lease[w].fence = call[w].fence

\* assertCurrent: the lease is current and the checkout is where it says.
CurrentAt(w, sha) == Current(w) /\ lease[w].sha = sha

\* witnessState of every process the lease names; the daemon itself is one.
WitnessesDead(w) ==
  /\ lease[w].owner # daemon
  /\ \A g \in lease[w].witnesses : <<w, g>> \notin groups

\* acquire answers with the lease that its owner already has.
HeldAlready(w, sha) ==
  /\ lease[w].state = "active" /\ w \in fresh
  /\ lease[w].owner = daemon /\ lease[w].sha = sha

\* Mutant of MayAcquire: an expired lease is free, whoever still runs under it.
MayAcquireExpired(w, sha) ==
  \/ lease[w].state = "released"
  \/ lease[w].state = "recovery-required" /\ lease[w].owner = daemon /\ lease[w].sha = sha
  \/ w \notin fresh

\* acquire may replace the lease: it was released, its own holder lost it with
\* its setup settled, or it expired and everything that ran under it is dead.
MayAcquire(w, sha) ==
  \/ lease[w].state = "released"
  \/ lease[w].state = "recovery-required" /\ lease[w].owner = daemon /\ lease[w].sha = sha
  \/ w \notin fresh /\ WitnessesDead(w)

\* The lease acquire leaves behind.
Acquired(w, sha) ==
  IF HeldAlready(w, sha) THEN lease[w]
  ELSE [fence |-> lease[w].fence + 1, owner |-> daemon, sha |-> sha, state |-> "active",
        witnesses |-> {}]

Acquire(w, sha) ==
  /\ HeldAlready(w, sha) \/ (MayAcquire(w, sha) /\ lease[w].fence < MaxFences)
  /\ lease' = [lease EXCEPT ![w] = Acquired(w, sha)]
  /\ fresh' = fresh \cup {w}

\* release of the call's lease, which throws when it is not current.
ReleaseIfCurrent(w) ==
  IF Current(w)
  THEN /\ lease' = [lease EXCEPT ![w].state = "released"]
       /\ fresh' = fresh \ {w}
  ELSE UNCHANGED <<lease, fresh>>

\* A lease runs out.  A renewal in time leaves everything as it was.
Expire(w) ==
  /\ w \in fresh
  /\ fresh' = fresh \ {w}
  /\ UNCHANGED <<daemon, remote, branch, present, dirty, manifest, lease, groups, call>>

-----------------------------------------------------------------------------
(* Steps that every operation shares.                                      *)

At(w, pc) == call[w].pc = pc

Record(w, m) == manifest' = [manifest EXCEPT ![w] = m]

\* The call ends, with a result or an exception.
End(w) == call' = [call EXCEPT ![w] = Idle]

\* The manifest provision's catch writes, from the copy the call holds.
Failed(w) == [call[w].m EXCEPT !.lifecycle = "failed", !.phase = "failed"]

\* An exception: provision records the failure, provision and synchronize
\* release the lease if they still can, recover does neither.
Throw(w) ==
  /\ IF call[w].op = "provision" THEN Record(w, Failed(w)) ELSE UNCHANGED manifest
  /\ IF call[w].op = "recover" THEN UNCHANGED <<lease, fresh>> ELSE ReleaseIfCurrent(w)
  /\ End(w)
  /\ UNCHANGED <<daemon, remote, branch, present, dirty, groups>>

\* finishSetup starts: the files are about to be copied.
Copying(m) == [m EXCEPT !.phase = "files-copying"]

\* copyConfiguredFiles, one lease check per file; a missing, changed or
\* different file is an exception.
CopyFiles(w) ==
  /\ At(w, "copying")
  /\ w \in present /\ CurrentAt(w, branch[w])
  /\ LET copied == [manifest[w] EXCEPT !.phase = "files-copied"]
         started == [copied EXCEPT !.phase = "setup-started", !.setup = "running"]
     IN IF HasSetup
        THEN Record(w, started) /\ call' = [call EXCEPT ![w].pc = "starting"]
        ELSE Record(w, copied) /\ call' = [call EXCEPT ![w].pc = "finishing"]
  /\ UNCHANGED <<daemon, remote, branch, present, dirty, lease, fresh, groups>>

CopyFilesFails(w) == At(w, "copying") /\ Throw(w)

\* runSetup: the supervisor's group becomes a witness of the lease before the
\* start message is sent.  A group is named by the lease it runs under.
StartSetup(w) ==
  /\ At(w, "starting")
  /\ w \in present /\ CurrentAt(w, branch[w])
  /\ lease' = [lease EXCEPT ![w].witnesses = @ \cup {call[w].fence}]
  /\ groups' = groups \cup {<<w, call[w].fence>>}
  /\ call' = [call EXCEPT ![w].pc = "setup"]
  /\ UNCHANGED <<daemon, remote, branch, present, dirty, manifest, fresh>>

StartSetupFails(w) ==
  /\ At(w, "starting")
  /\ w \notin present \/ ~CurrentAt(w, branch[w])
  /\ Throw(w)

\* The renewal timer finds the lease gone and signals the group.
RenewalFails(w) ==
  /\ At(w, "setup") /\ call[w].outcome = "none" /\ call[w].renewed
  /\ ~Current(w)
  /\ call' = [call EXCEPT ![w].renewed = FALSE]
  /\ UNCHANGED <<daemon, remote, branch, present, dirty, manifest, lease, fresh, groups>>

\* The setup script ends by itself or by a signal.  A daemon that died
\* meanwhile never learns of it.  The script may leave the checkout dirty.
SetupEnds(w, g, ok) ==
  /\ <<w, g>> \in groups
  /\ groups' = groups \ {<<w, g>>}
  /\ dirty' \in {dirty, dirty \cup {w}}
  /\ call' = IF At(w, "setup") /\ call[w].fence = g
             THEN [call EXCEPT ![w].outcome = IF ok THEN "succeeded" ELSE "failed"]
             ELSE call
  /\ UNCHANGED <<daemon, remote, branch, present, manifest, lease, fresh>>

\* The manifest finishSetup records last.
Final(w, setup) ==
  LET ready == setup \in {"succeeded", "skipped"}
  IN [manifest[w] EXCEPT
        !.lifecycle = IF ready THEN "ready" ELSE setup,
        !.phase = IF ready THEN "completed" ELSE setup,
        !.setup = setup, !.head = branch[w]]

\* finishSetup records the outcome and the operation releases its lease.  When
\* the lease is gone the release throws: provision then overwrites the outcome.
FinishSetup(w) ==
  LET setup == IF At(w, "finishing") THEN call[w].m.setup ELSE call[w].outcome
  IN /\ At(w, "finishing") \/ (At(w, "setup") /\ call[w].outcome # "none" /\ call[w].renewed)
     /\ w \in present
     /\ IF Current(w) \/ call[w].op # "provision"
        THEN Record(w, Final(w, setup)) ELSE Record(w, Failed(w))
     /\ ReleaseIfCurrent(w)
     /\ End(w)
     /\ UNCHANGED <<daemon, remote, branch, present, dirty, groups>>

\* A setup whose lease could not be renewed is uncertain.  The lease is marked
\* when it is current again, which it never is: markRecoveryRequired throws.
FinishUnrenewed(w) ==
  /\ At(w, "setup") /\ call[w].outcome # "none" /\ ~call[w].renewed
  /\ IF Current(w)
     THEN /\ lease' = [lease EXCEPT ![w].state = "recovery-required"]
          /\ Record(w, Final(w, "recovery-required"))
          /\ End(w)
          /\ UNCHANGED <<daemon, remote, branch, present, dirty, fresh, groups>>
     ELSE Throw(w)

-----------------------------------------------------------------------------
(* provision                                                               *)

\* The request is checked against the stored manifest, then the base is
\* resolved; a request that is refused or already done changes nothing.
ProvisionBegins(w) ==
  LET m == manifest[w]
  IN /\ call[w] = Idle
     /\ m.phase \notin {"setup-started", "recovery-required", "completed", "failed"}
     /\ m.setup # "running"
     /\ call' = [call EXCEPT ![w] = [Idle EXCEPT !.op = "provision", !.pc = "resolving", !.m = m]]
     /\ UNCHANGED <<daemon, remote, branch, present, dirty, manifest, lease, fresh, groups>>

\* The base is resolved; a base that moved, or a lease that is not to be had,
\* ends the call before anything is written.
ProvisionAcquires(w) ==
  LET new == call[w].m = NoManifest
  IN /\ At(w, "resolving")
     /\ new \/ call[w].m.base = remote
     /\ Acquire(w, Tip(remote))
     /\ call' = [call EXCEPT ![w].pc = "leased", ![w].fence = lease'[w].fence,
           ![w].base = remote,
           ![w].m = IF new THEN [NoManifest EXCEPT !.lifecycle = "provisioning",
                                   !.phase = "base-resolved", !.base = remote, !.observed = remote]
                    ELSE @]
     /\ UNCHANGED <<daemon, remote, branch, present, dirty, manifest, groups>>

ProvisionRefused(w) ==
  /\ At(w, "resolving")
  /\ End(w)
  /\ UNCHANGED <<daemon, remote, branch, present, dirty, manifest, lease, fresh, groups>>

\* The intent is recorded before the worktree is created; a checkout that was
\* recorded earlier is used again.
RecordIntent(w) ==
  LET creating == [call[w].m EXCEPT !.phase = "checkout-creating"]
  IN /\ At(w, "leased") /\ CurrentAt(w, Tip(call[w].base))
     /\ IF call[w].m.phase \in {"checkout-created", "files-copying", "files-copied"}
        THEN call' = [call EXCEPT ![w].pc = "created"] /\ UNCHANGED manifest
        ELSE /\ Record(w, creating)
             /\ call' = [call EXCEPT ![w].pc = "adding", ![w].m = creating]
     /\ UNCHANGED <<daemon, remote, branch, present, dirty, lease, fresh, groups>>

\* git worktree add -b: it refuses a branch that exists.
AddWorktree(w) ==
  /\ At(w, "adding") /\ CurrentAt(w, Tip(call[w].base))
  /\ branch[w] = NoCommit
  /\ branch' = [branch EXCEPT ![w] = Tip(call[w].base)]
  /\ present' = present \cup {w}
  /\ call' = [call EXCEPT ![w].pc = "created"]
  /\ UNCHANGED <<daemon, remote, dirty, manifest, lease, fresh, groups>>

RecordCheckout(w) ==
  LET created == [call[w].m EXCEPT !.phase = "checkout-created", !.head = branch[w]]
  IN /\ At(w, "created")
     /\ w \in present /\ CurrentAt(w, branch[w])
     /\ Record(w, Copying(created))
     /\ call' = [call EXCEPT ![w].pc = "copying", ![w].m = created]
     /\ UNCHANGED <<daemon, remote, branch, present, dirty, lease, fresh, groups>>

\* A Git command or a lease check fails before the setup.
ProvisionFails(w) ==
  /\ call[w].op = "provision"
  /\ At(w, "leased") \/ At(w, "adding") \/ At(w, "created")
  /\ Throw(w)

-----------------------------------------------------------------------------
(* synchronize                                                             *)

Strategies == {"rebase-before-build", "recreate"}

\* strategy notify only records what it observed.
Notify(w) ==
  /\ call[w] = Idle /\ manifest[w] # NoManifest /\ w \in present
  /\ remote # manifest[w].base
  /\ Record(w, [manifest[w] EXCEPT !.observed = remote])
  /\ UNCHANGED <<daemon, remote, branch, present, dirty, lease, fresh, groups, call>>

SynchronizeBegins(w, strategy) ==
  /\ call[w] = Idle /\ manifest[w] # NoManifest /\ w \in present \ dirty
  /\ remote # manifest[w].base
  /\ Acquire(w, branch[w])
  /\ call' = [call EXCEPT ![w] =
        [Idle EXCEPT !.op = strategy, !.m = manifest[w], !.fence = lease'[w].fence,
           !.base = remote,
           !.pc = IF strategy = "recreate" THEN "removing" ELSE "rebasing"]]
  /\ UNCHANGED <<daemon, remote, branch, present, dirty, manifest, groups>>

\* git rebase --onto keeps what was committed on top of the old base.
Rebase(w) ==
  /\ At(w, "rebasing") /\ w \in present /\ CurrentAt(w, branch[w])
  /\ branch[w].base >= call[w].m.base
  /\ branch' = [branch EXCEPT ![w].base = call[w].base]
  /\ call' = [call EXCEPT ![w].pc = "synced"]
  /\ UNCHANGED <<daemon, remote, present, dirty, manifest, lease, fresh, groups>>

\* The rebase conflicts and is aborted; an abort that does not restore the head
\* is the one case that marks the lease.
RebaseConflicts(w) ==
  /\ At(w, "rebasing")
  /\ \/ Throw(w)
     \/ /\ Current(w)
        /\ lease' = [lease EXCEPT ![w].state = "recovery-required"]
        /\ End(w)
        /\ UNCHANGED <<daemon, remote, branch, present, dirty, manifest, fresh, groups>>

\* Mutant of RemoveWorktree: commits beyond the recorded base are not looked for.
RemoveWorktreeAnyway(w) ==
  /\ At(w, "removing") /\ w \in present \ dirty /\ CurrentAt(w, branch[w])
  /\ present' = present \ {w}
  /\ call' = [call EXCEPT ![w].pc = "removed"]
  /\ UNCHANGED <<daemon, remote, branch, dirty, manifest, lease, fresh, groups>>

\* Recreate refuses commits beyond the recorded base; git refuses a dirty tree.
RemoveWorktree(w) ==
  /\ At(w, "removing") /\ w \in present \ dirty /\ CurrentAt(w, branch[w])
  /\ branch[w] = Tip(call[w].m.base)
  /\ present' = present \ {w}
  /\ call' = [call EXCEPT ![w].pc = "removed"]
  /\ UNCHANGED <<daemon, remote, branch, dirty, manifest, lease, fresh, groups>>

MoveBranch(w) ==
  /\ At(w, "removed") /\ Current(w)
  /\ branch' = [branch EXCEPT ![w] = Tip(call[w].base)]
  /\ call' = [call EXCEPT ![w].pc = "moved"]
  /\ UNCHANGED <<daemon, remote, present, dirty, manifest, lease, fresh, groups>>

ReaddWorktree(w) ==
  /\ At(w, "moved") /\ Current(w)
  /\ present' = present \cup {w}
  /\ call' = [call EXCEPT ![w].pc = "synced"]
  /\ UNCHANGED <<daemon, remote, branch, dirty, manifest, lease, fresh, groups>>

\* advanceExpectedSha, the manifest of the new base, and the files again.
RecordSynchronized(w) ==
  LET updated == [call[w].m EXCEPT !.lifecycle = "provisioning", !.phase = "checkout-created",
                    !.base = call[w].base, !.observed = call[w].base, !.head = branch[w]]
  IN /\ At(w, "synced") /\ w \in present /\ Current(w)
     /\ lease' = [lease EXCEPT ![w].sha = branch[w]]
     /\ Record(w, Copying(updated))
     /\ call' = [call EXCEPT ![w].pc = "copying", ![w].m = updated]
     /\ UNCHANGED <<daemon, remote, branch, present, dirty, fresh, groups>>

SynchronizeFails(w) ==
  /\ \E pc \in {"removing", "removed", "moved", "synced"} : At(w, pc)
  /\ Throw(w)

-----------------------------------------------------------------------------
(* recover                                                                 *)

\* retry-setup: only where the phase says that a setup is uncertain.
RecoverRetries(w) ==
  /\ call[w] = Idle
  /\ manifest[w].phase \in {"setup-started", "recovery-required"}
  /\ w \in present
  /\ Acquire(w, branch[w])
  /\ Record(w, Copying(manifest[w]))
  /\ call' = [call EXCEPT ![w] = [Idle EXCEPT !.op = "recover", !.pc = "copying",
                                    !.m = manifest[w], !.fence = lease'[w].fence]]
  /\ UNCHANGED <<daemon, remote, branch, present, dirty, groups>>

\* fail-workspace: a lease that is not released is taken over and released.
RecoverFails(w) ==
  /\ call[w] = Idle /\ manifest[w] # NoManifest
  /\ IF lease[w].state = "released" THEN UNCHANGED <<lease, fresh>>
     ELSE /\ HeldAlready(w, lease[w].sha)
             \/ (MayAcquire(w, lease[w].sha) /\ lease[w].fence < MaxFences)
          /\ lease' = [lease EXCEPT ![w] = [Acquired(w, lease[w].sha) EXCEPT !.state = "released"]]
          /\ fresh' = fresh \ {w}
  /\ Record(w, [manifest[w] EXCEPT !.lifecycle = "failed", !.phase = "failed"])
  /\ UNCHANGED <<daemon, remote, branch, present, dirty, groups, call>>

-----------------------------------------------------------------------------
(* The environment.                                                        *)

RemoteMoves ==
  /\ remote < MaxMoves
  /\ remote' = remote + 1
  /\ UNCHANGED <<daemon, branch, present, dirty, manifest, lease, fresh, groups, call>>

\* A run works in a ready workspace: it commits, or leaves changes behind.
RunWorks(w) ==
  /\ call[w] = Idle /\ manifest[w].lifecycle = "ready" /\ w \in present
  /\ \/ branch[w].work < MaxWork /\ branch' = [branch EXCEPT ![w].work = @ + 1] /\ UNCHANGED dirty
     \/ dirty' = (IF w \in dirty THEN dirty \ {w} ELSE dirty \cup {w}) /\ UNCHANGED branch
  /\ UNCHANGED <<daemon, remote, present, manifest, lease, fresh, groups, call>>

\* The daemon dies and its successor starts; setup groups live on.
DaemonRestarts ==
  /\ daemon < MaxStarts
  /\ daemon' = daemon + 1
  /\ call' = [w \in Spaces |-> Idle]
  /\ UNCHANGED <<remote, branch, present, dirty, manifest, lease, fresh, groups>>

\* The machine reboots: the boot witness of every older lease is dead.
Reboots ==
  /\ daemon < MaxStarts
  /\ daemon' = daemon + 1
  /\ call' = [w \in Spaces |-> Idle]
  /\ groups' = {}
  /\ UNCHANGED <<remote, branch, present, dirty, manifest, lease, fresh>>

\* A step of the call at work on w.
CallStep(w) ==
  \/ ProvisionAcquires(w) \/ ProvisionRefused(w) \/ RecordIntent(w) \/ AddWorktree(w)
  \/ RecordCheckout(w) \/ ProvisionFails(w)
  \/ CopyFiles(w) \/ CopyFilesFails(w) \/ StartSetup(w) \/ StartSetupFails(w)
  \/ RenewalFails(w) \/ FinishSetup(w) \/ FinishUnrenewed(w)
  \/ Rebase(w) \/ RebaseConflicts(w) \/ RemoveWorktree(w) \/ MoveBranch(w)
  \/ ReaddWorktree(w) \/ RecordSynchronized(w) \/ SynchronizeFails(w)

SetupEndsSomehow(w) == \E g \in 1..MaxFences, ok \in BOOLEAN : SetupEnds(w, g, ok)

ManagedNext ==
  \/ \E w \in Spaces :
       \/ CallStep(w) \/ SetupEndsSomehow(w) \/ Expire(w)
       \/ ProvisionBegins(w) \/ Notify(w) \/ RecoverRetries(w) \/ RecoverFails(w)
       \/ RunWorks(w)
       \/ \E strategy \in Strategies : SynchronizeBegins(w, strategy)
  \/ RemoteMoves \/ DaemonRestarts \/ Reboots

ManagedSpec == ManagedInit /\ [][ManagedNext]_managedVars

-----------------------------------------------------------------------------
(* Properties                                                              *)

\* Two setup scripts never run in one checkout, however often the daemon died,
\* the lease expired and the workspace was recovered or synchronized: a script
\* that runs is a witness of the checkout's lease, and that lease is neither
\* released nor replaced (acquire in lease.ts, runSetup in service.ts).
SetupIsExclusive ==
  /\ \A g \in groups : g[2] \in lease[g[1]].witnesses /\ lease[g[1]].state = "active"
  /\ \A w \in Spaces : Cardinality({g \in groups : g[1] = w}) <= 1

\* What a run committed survives every synchronization.
WorkIsKept ==
  [][\A w \in Spaces : branch[w] # NoCommit => branch'[w].work >= branch[w].work]_managedVars
=============================================================================
