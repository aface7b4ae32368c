--------------------------- MODULE WorkspaceProofs ---------------------------
(***************************************************************************)
(* Proofs about what the daemon keeps in directories.  Managed workspaces: *)
(* two setup scripts never run in one checkout, and what a run committed   *)
(* survives every synchronization.  Composites and their variants: a       *)
(* composite that is reported ready is complete, and a variant that is     *)
(* reported integrated is installed in every target it writes.  Claudexor  *)
(* runtimes: what is selected was attested, recorded and is intact.  They   *)
(* hold for any number of workspaces, daemon instances, leases, pushes,     *)
(* repositories, variants, deaths, runtime versions and calls, and any      *)
(* setup dependencies.                                                     *)
(***************************************************************************)
EXTENDS MCWorkspaces, Integers, TLAPS, FiniteSetTheorems, WellFoundedInduction

-----------------------------------------------------------------------------
(* Managed workspaces *)

(* The rows and calls keep their fields; the counters are natural numbers. *)
Shaped ==
  /\ daemon \in Nat
  /\ DOMAIN branch = Spaces /\ DOMAIN lease = Spaces /\ DOMAIN call = Spaces
  /\ \A w \in Spaces :
       /\ DOMAIN branch[w] = {"base", "work"} /\ branch[w].work \in Nat
       /\ DOMAIN lease[w] = {"fence", "owner", "sha", "state", "witnesses"}
       /\ lease[w].fence \in Nat /\ lease[w].owner \in Nat
       /\ DOMAIN call[w] = {"op", "pc", "m", "fence", "base", "outcome", "renewed"}

(* A lease belongs to the daemon that runs or to an earlier one. *)
OwnersPast == \A w \in Spaces : lease[w].owner <= daemon

(* From the acquisition on a call works under the checkout's newest lease:  *)
(* nothing else acquires while a call is at work.                           *)
CallHasLease ==
  \A w \in Spaces : call[w].pc \notin {"idle", "resolving"} =>
    call[w].fence = lease[w].fence /\ lease[w].owner = daemon

(* Only a call that awaits its setup has learned an outcome. *)
OutcomeIsSetup == \A w \in Spaces : call[w].pc # "setup" => call[w].outcome = "none"

(* A setup group runs under its checkout's newest lease, is its witness, and *)
(* either the call of this daemon awaits it or the daemon that started it    *)
(* is dead.                                                                  *)
GroupRuns(w) ==
  /\ lease[w].fence \in lease[w].witnesses
  /\ lease[w].state = "active"
  /\ lease[w].owner = daemon => call[w].pc = "setup" /\ call[w].outcome = "none"

GroupsWitnessed ==
  \A g \in groups : \E w \in Spaces : g = <<w, lease[w].fence>> /\ GroupRuns(w)

(* A worktree is removed only when nothing was committed on its base. *)
RemovedIsEmpty == \A w \in Spaces : call[w].pc = "removed" => branch[w].work = 0

IInv ==
  /\ Shaped /\ OwnersPast /\ CallHasLease /\ OutcomeIsSetup /\ GroupsWitnessed /\ RemovedIsEmpty

-----------------------------------------------------------------------------
LEMMA InitI == ManagedInit => IInv
  BY WorkspaceBounds
  DEF ManagedInit, IInv, Shaped, OwnersPast, CallHasLease, OutcomeIsSetup, GroupsWitnessed,
      RemovedIsEmpty, NoLease, NoCommit, Idle

(* A lease is handed out only when no setup runs in the checkout: while one  *)
(* does, its lease is active, and either its call is still at work or its    *)
(* owner is dead and the group itself is a living witness.                   *)
LEMMA AcquireAlone ==
  ASSUME IInv, NEW w \in Spaces, NEW sha, call[w].pc # "setup",
         HeldAlready(w, sha) \/ MayAcquire(w, sha)
  PROVE  \A g \in groups : g[1] # w
  BY DEF IInv, GroupsWitnessed, GroupRuns, HeldAlready, MayAcquire, WitnessesDead

(* An exception, and the end of a call, release only what no setup uses. *)
LEMMA ThrowKeeps ==
  ASSUME IInv, NEW w \in Spaces, call[w].pc \notin {"idle", "resolving"},
         call[w].pc # "setup" \/ call[w].outcome # "none", Throw(w)
  PROVE  IInv'
  <1>1. Shaped' /\ OwnersPast' /\ CallHasLease' /\ OutcomeIsSetup' /\ RemovedIsEmpty'
    BY DEF IInv, Shaped, OwnersPast, CallHasLease, OutcomeIsSetup, RemovedIsEmpty, Throw,
           ReleaseIfCurrent, End, Idle
  <1>2. GroupsWitnessed'
    BY DEF IInv, Shaped, CallHasLease, GroupsWitnessed, GroupRuns, Throw, ReleaseIfCurrent, End,
           Idle, Current
  <1> QED
    BY <1>1, <1>2 DEF IInv

LEMMA ProvisionAcquiresKeeps == ASSUME IInv, NEW w \in Spaces, ProvisionAcquires(w) PROVE IInv'
  <1>1. Shaped' /\ OwnersPast'
    BY DEF IInv, Shaped, OwnersPast, ProvisionAcquires, At, Idle, Acquire, Acquired,
        HeldAlready, MayAcquire, WitnessesDead, Tip
  <1>2. CallHasLease' /\ OutcomeIsSetup' /\ RemovedIsEmpty'
    BY DEF IInv, Shaped, CallHasLease, OutcomeIsSetup, RemovedIsEmpty, ProvisionAcquires, At,
        Idle, Acquire, Acquired, HeldAlready, MayAcquire, WitnessesDead, Tip
  <1>3. GroupsWitnessed'
    BY AcquireAlone DEF IInv, Shaped, CallHasLease, OutcomeIsSetup, GroupsWitnessed, GroupRuns,
        ProvisionAcquires, At, Idle, Acquire, Acquired, HeldAlready, MayAcquire, WitnessesDead,
        Tip
  <1> QED
    BY <1>1, <1>2, <1>3 DEF IInv

LEMMA ProvisionRefusedKeeps == ASSUME IInv, NEW w \in Spaces, ProvisionRefused(w) PROVE IInv'
  <1>1. Shaped' /\ OwnersPast'
    BY DEF IInv, Shaped, OwnersPast, ProvisionRefused, At, Idle, Throw, ReleaseIfCurrent,
        Failed, End, Record, Current
  <1>2. CallHasLease' /\ OutcomeIsSetup' /\ RemovedIsEmpty'
    BY DEF IInv, Shaped, CallHasLease, OutcomeIsSetup, RemovedIsEmpty, ProvisionRefused, At,
        Idle, Throw, ReleaseIfCurrent, Failed, End, Record, Current
  <1>3. GroupsWitnessed'
    BY DEF IInv, Shaped, CallHasLease, OutcomeIsSetup, GroupsWitnessed, GroupRuns,
        ProvisionRefused, At, Idle, Throw, ReleaseIfCurrent, Failed, End, Record, Current
  <1> QED
    BY <1>1, <1>2, <1>3 DEF IInv

LEMMA RecordIntentKeeps == ASSUME IInv, NEW w \in Spaces, RecordIntent(w) PROVE IInv'
  <1>1. Shaped' /\ OwnersPast'
    BY DEF IInv, Shaped, OwnersPast, RecordIntent, At, Idle, Record, Copying, Current,
        CurrentAt, Tip
  <1>2. CallHasLease' /\ OutcomeIsSetup' /\ RemovedIsEmpty'
    BY DEF IInv, Shaped, CallHasLease, OutcomeIsSetup, RemovedIsEmpty, RecordIntent, At, Idle,
        Record, Copying, Current, CurrentAt, Tip
  <1>3. GroupsWitnessed'
    BY DEF IInv, Shaped, CallHasLease, OutcomeIsSetup, GroupsWitnessed, GroupRuns, RecordIntent,
        At, Idle, Record, Copying, Current, CurrentAt, Tip
  <1> QED
    BY <1>1, <1>2, <1>3 DEF IInv

LEMMA AddWorktreeKeeps == ASSUME IInv, NEW w \in Spaces, AddWorktree(w) PROVE IInv'
  <1>1. Shaped' /\ OwnersPast'
    BY DEF IInv, Shaped, OwnersPast, AddWorktree, At, Idle, Current, CurrentAt, Tip
  <1>2. CallHasLease' /\ OutcomeIsSetup' /\ RemovedIsEmpty'
    BY DEF IInv, Shaped, CallHasLease, OutcomeIsSetup, RemovedIsEmpty, AddWorktree, At, Idle,
        Current, CurrentAt, Tip
  <1>3. GroupsWitnessed'
    BY DEF IInv, Shaped, CallHasLease, OutcomeIsSetup, GroupsWitnessed, GroupRuns, AddWorktree,
        At, Idle, Current, CurrentAt, Tip
  <1> QED
    BY <1>1, <1>2, <1>3 DEF IInv

LEMMA RecordCheckoutKeeps == ASSUME IInv, NEW w \in Spaces, RecordCheckout(w) PROVE IInv'
  <1>1. Shaped' /\ OwnersPast'
    BY DEF IInv, Shaped, OwnersPast, RecordCheckout, At, Idle, Record, Copying, Current,
        CurrentAt, Tip
  <1>2. CallHasLease' /\ OutcomeIsSetup' /\ RemovedIsEmpty'
    BY DEF IInv, Shaped, CallHasLease, OutcomeIsSetup, RemovedIsEmpty, RecordCheckout, At, Idle,
        Record, Copying, Current, CurrentAt, Tip
  <1>3. GroupsWitnessed'
    BY DEF IInv, Shaped, CallHasLease, OutcomeIsSetup, GroupsWitnessed, GroupRuns,
        RecordCheckout, At, Idle, Record, Copying, Current, CurrentAt, Tip
  <1> QED
    BY <1>1, <1>2, <1>3 DEF IInv

LEMMA ProvisionFailsKeeps == ASSUME IInv, NEW w \in Spaces, ProvisionFails(w) PROVE IInv'
  BY ThrowKeeps DEF ProvisionFails, At, IInv, OutcomeIsSetup

LEMMA CopyFilesKeeps == ASSUME IInv, NEW w \in Spaces, CopyFiles(w) PROVE IInv'
  <1>1. Shaped' /\ OwnersPast'
    BY DEF IInv, Shaped, OwnersPast, CopyFiles, At, Idle, Record, Copying, Current, CurrentAt,
        Tip
  <1>2. CallHasLease' /\ OutcomeIsSetup' /\ RemovedIsEmpty'
    BY DEF IInv, Shaped, CallHasLease, OutcomeIsSetup, RemovedIsEmpty, CopyFiles, At, Idle,
        Record, Copying, Current, CurrentAt, Tip
  <1>3. GroupsWitnessed'
    BY DEF IInv, Shaped, CallHasLease, OutcomeIsSetup, GroupsWitnessed, GroupRuns, CopyFiles,
        At, Idle, Record, Copying, Current, CurrentAt, Tip
  <1> QED
    BY <1>1, <1>2, <1>3 DEF IInv

LEMMA CopyFilesFailsKeeps == ASSUME IInv, NEW w \in Spaces, CopyFilesFails(w) PROVE IInv'
  BY ThrowKeeps DEF CopyFilesFails, At, IInv, OutcomeIsSetup

LEMMA StartSetupKeeps == ASSUME IInv, NEW w \in Spaces, StartSetup(w) PROVE IInv'
  <1>1. Shaped' /\ OwnersPast'
    BY DEF IInv, Shaped, OwnersPast, StartSetup, At, Idle, Current, CurrentAt, Tip
  <1>2. CallHasLease' /\ OutcomeIsSetup' /\ RemovedIsEmpty'
    BY DEF IInv, Shaped, CallHasLease, OutcomeIsSetup, RemovedIsEmpty, StartSetup, At, Idle,
        Current, CurrentAt, Tip
  <1>3. GroupsWitnessed'
    BY DEF IInv, Shaped, CallHasLease, OutcomeIsSetup, GroupsWitnessed, GroupRuns, StartSetup,
        At, Idle, Current, CurrentAt, Tip
  <1> QED
    BY <1>1, <1>2, <1>3 DEF IInv

LEMMA StartSetupFailsKeeps == ASSUME IInv, NEW w \in Spaces, StartSetupFails(w) PROVE IInv'
  BY ThrowKeeps DEF StartSetupFails, At, IInv, OutcomeIsSetup

LEMMA RenewalFailsKeeps == ASSUME IInv, NEW w \in Spaces, RenewalFails(w) PROVE IInv'
  <1>1. Shaped' /\ OwnersPast'
    BY DEF IInv, Shaped, OwnersPast, RenewalFails, At, Idle
  <1>2. CallHasLease' /\ OutcomeIsSetup' /\ RemovedIsEmpty'
    BY DEF IInv, Shaped, CallHasLease, OutcomeIsSetup, RemovedIsEmpty, RenewalFails, At, Idle
  <1>3. GroupsWitnessed'
    BY DEF IInv, Shaped, CallHasLease, OutcomeIsSetup, GroupsWitnessed, GroupRuns, RenewalFails,
        At, Idle
  <1> QED
    BY <1>1, <1>2, <1>3 DEF IInv

LEMMA FinishSetupKeeps == ASSUME IInv, NEW w \in Spaces, FinishSetup(w) PROVE IInv'
  <1>1. Shaped' /\ OwnersPast'
    BY DEF IInv, Shaped, OwnersPast, FinishSetup, At, Idle, Throw, ReleaseIfCurrent, Failed,
        End, Record, Current, Final
  <1>2. CallHasLease' /\ OutcomeIsSetup' /\ RemovedIsEmpty'
    BY DEF IInv, Shaped, CallHasLease, OutcomeIsSetup, RemovedIsEmpty, FinishSetup, At, Idle,
        Throw, ReleaseIfCurrent, Failed, End, Record, Current, Final
  <1>3. GroupsWitnessed'
    BY DEF IInv, Shaped, CallHasLease, OutcomeIsSetup, GroupsWitnessed, GroupRuns, FinishSetup,
        At, Idle, Throw, ReleaseIfCurrent, Failed, End, Record, Current, Final
  <1> QED
    BY <1>1, <1>2, <1>3 DEF IInv

LEMMA FinishUnrenewedKeeps == ASSUME IInv, NEW w \in Spaces, FinishUnrenewed(w) PROVE IInv'
  <1>1. Shaped' /\ OwnersPast'
    BY DEF IInv, Shaped, OwnersPast, FinishUnrenewed, At, Idle, Throw, ReleaseIfCurrent, Failed,
        End, Record, Current, Final
  <1>2. CallHasLease' /\ OutcomeIsSetup' /\ RemovedIsEmpty'
    BY DEF IInv, Shaped, CallHasLease, OutcomeIsSetup, RemovedIsEmpty, FinishUnrenewed, At,
        Idle, Throw, ReleaseIfCurrent, Failed, End, Record, Current, Final
  <1>3. GroupsWitnessed'
    BY DEF IInv, Shaped, CallHasLease, OutcomeIsSetup, GroupsWitnessed, GroupRuns,
        FinishUnrenewed, At, Idle, Throw, ReleaseIfCurrent, Failed, End, Record, Current, Final
  <1> QED
    BY <1>1, <1>2, <1>3 DEF IInv

LEMMA RebaseKeeps == ASSUME IInv, NEW w \in Spaces, Rebase(w) PROVE IInv'
  <1>1. Shaped' /\ OwnersPast'
    BY DEF IInv, Shaped, OwnersPast, Rebase, At, Idle, Current, CurrentAt, Tip
  <1>2. CallHasLease' /\ OutcomeIsSetup' /\ RemovedIsEmpty'
    BY DEF IInv, Shaped, CallHasLease, OutcomeIsSetup, RemovedIsEmpty, Rebase, At, Idle,
        Current, CurrentAt, Tip
  <1>3. GroupsWitnessed'
    BY DEF IInv, Shaped, CallHasLease, OutcomeIsSetup, GroupsWitnessed, GroupRuns, Rebase, At,
        Idle, Current, CurrentAt, Tip
  <1> QED
    BY <1>1, <1>2, <1>3 DEF IInv

LEMMA RebaseConflictsKeeps == ASSUME IInv, NEW w \in Spaces, RebaseConflicts(w) PROVE IInv'
  <1>1. Shaped' /\ OwnersPast'
    BY DEF IInv, Shaped, OwnersPast, RebaseConflicts, At, Idle, Throw, ReleaseIfCurrent, Failed,
        End, Record, Current
  <1>2. CallHasLease' /\ OutcomeIsSetup' /\ RemovedIsEmpty'
    BY DEF IInv, Shaped, CallHasLease, OutcomeIsSetup, RemovedIsEmpty, RebaseConflicts, At,
        Idle, Throw, ReleaseIfCurrent, Failed, End, Record, Current
  <1>3. GroupsWitnessed'
    BY DEF IInv, Shaped, CallHasLease, OutcomeIsSetup, GroupsWitnessed, GroupRuns,
        RebaseConflicts, At, Idle, Throw, ReleaseIfCurrent, Failed, End, Record, Current
  <1> QED
    BY <1>1, <1>2, <1>3 DEF IInv

LEMMA RemoveWorktreeKeeps == ASSUME IInv, NEW w \in Spaces, RemoveWorktree(w) PROVE IInv'
  <1>1. Shaped' /\ OwnersPast'
    BY DEF IInv, Shaped, OwnersPast, RemoveWorktree, At, Idle, Current, CurrentAt, Tip
  <1>2. CallHasLease' /\ OutcomeIsSetup' /\ RemovedIsEmpty'
    BY DEF IInv, Shaped, CallHasLease, OutcomeIsSetup, RemovedIsEmpty, RemoveWorktree, At, Idle,
        Current, CurrentAt, Tip
  <1>3. GroupsWitnessed'
    BY DEF IInv, Shaped, CallHasLease, OutcomeIsSetup, GroupsWitnessed, GroupRuns,
        RemoveWorktree, At, Idle, Current, CurrentAt, Tip
  <1> QED
    BY <1>1, <1>2, <1>3 DEF IInv

LEMMA MoveBranchKeeps == ASSUME IInv, NEW w \in Spaces, MoveBranch(w) PROVE IInv'
  <1>1. Shaped' /\ OwnersPast'
    BY DEF IInv, Shaped, OwnersPast, MoveBranch, At, Idle, Current, CurrentAt, Tip
  <1>2. CallHasLease' /\ OutcomeIsSetup' /\ RemovedIsEmpty'
    BY DEF IInv, Shaped, CallHasLease, OutcomeIsSetup, RemovedIsEmpty, MoveBranch, At, Idle,
        Current, CurrentAt, Tip
  <1>3. GroupsWitnessed'
    BY DEF IInv, Shaped, CallHasLease, OutcomeIsSetup, GroupsWitnessed, GroupRuns, MoveBranch,
        At, Idle, Current, CurrentAt, Tip
  <1> QED
    BY <1>1, <1>2, <1>3 DEF IInv

LEMMA ReaddWorktreeKeeps == ASSUME IInv, NEW w \in Spaces, ReaddWorktree(w) PROVE IInv'
  <1>1. Shaped' /\ OwnersPast'
    BY DEF IInv, Shaped, OwnersPast, ReaddWorktree, At, Idle, Current, CurrentAt, Tip
  <1>2. CallHasLease' /\ OutcomeIsSetup' /\ RemovedIsEmpty'
    BY DEF IInv, Shaped, CallHasLease, OutcomeIsSetup, RemovedIsEmpty, ReaddWorktree, At, Idle,
        Current, CurrentAt, Tip
  <1>3. GroupsWitnessed'
    BY DEF IInv, Shaped, CallHasLease, OutcomeIsSetup, GroupsWitnessed, GroupRuns,
        ReaddWorktree, At, Idle, Current, CurrentAt, Tip
  <1> QED
    BY <1>1, <1>2, <1>3 DEF IInv

LEMMA RecordSynchronizedKeeps == ASSUME IInv, NEW w \in Spaces, RecordSynchronized(w) PROVE IInv'
  <1>1. Shaped' /\ OwnersPast'
    BY DEF IInv, Shaped, OwnersPast, RecordSynchronized, At, Idle, Record, Copying, Current,
        CurrentAt, Tip
  <1>2. CallHasLease' /\ OutcomeIsSetup' /\ RemovedIsEmpty'
    BY DEF IInv, Shaped, CallHasLease, OutcomeIsSetup, RemovedIsEmpty, RecordSynchronized, At,
        Idle, Record, Copying, Current, CurrentAt, Tip
  <1>3. GroupsWitnessed'
    BY DEF IInv, Shaped, CallHasLease, OutcomeIsSetup, GroupsWitnessed, GroupRuns,
        RecordSynchronized, At, Idle, Record, Copying, Current, CurrentAt, Tip
  <1> QED
    BY <1>1, <1>2, <1>3 DEF IInv

LEMMA SynchronizeFailsKeeps == ASSUME IInv, NEW w \in Spaces, SynchronizeFails(w) PROVE IInv'
  BY ThrowKeeps DEF SynchronizeFails, At, IInv, OutcomeIsSetup

LEMMA ExpireKeeps == ASSUME IInv, NEW w \in Spaces, Expire(w) PROVE IInv'
  <1>1. Shaped' /\ OwnersPast'
    BY DEF IInv, Shaped, OwnersPast, Expire, At, Idle
  <1>2. CallHasLease' /\ OutcomeIsSetup' /\ RemovedIsEmpty'
    BY DEF IInv, Shaped, CallHasLease, OutcomeIsSetup, RemovedIsEmpty, Expire, At, Idle
  <1>3. GroupsWitnessed'
    BY DEF IInv, Shaped, CallHasLease, OutcomeIsSetup, GroupsWitnessed, GroupRuns, Expire, At,
        Idle
  <1> QED
    BY <1>1, <1>2, <1>3 DEF IInv

LEMMA ProvisionBeginsKeeps == ASSUME IInv, NEW w \in Spaces, ProvisionBegins(w) PROVE IInv'
  <1>1. Shaped' /\ OwnersPast'
    BY DEF IInv, Shaped, OwnersPast, ProvisionBegins, At, Idle
  <1>2. CallHasLease' /\ OutcomeIsSetup' /\ RemovedIsEmpty'
    BY DEF IInv, Shaped, CallHasLease, OutcomeIsSetup, RemovedIsEmpty, ProvisionBegins, At, Idle
  <1>3. GroupsWitnessed'
    BY DEF IInv, Shaped, CallHasLease, OutcomeIsSetup, GroupsWitnessed, GroupRuns,
        ProvisionBegins, At, Idle
  <1> QED
    BY <1>1, <1>2, <1>3 DEF IInv

LEMMA NotifyKeeps == ASSUME IInv, NEW w \in Spaces, Notify(w) PROVE IInv'
  <1>1. Shaped' /\ OwnersPast'
    BY DEF IInv, Shaped, OwnersPast, Notify, At, Idle, Record, Copying
  <1>2. CallHasLease' /\ OutcomeIsSetup' /\ RemovedIsEmpty'
    BY DEF IInv, Shaped, CallHasLease, OutcomeIsSetup, RemovedIsEmpty, Notify, At, Idle, Record,
        Copying
  <1>3. GroupsWitnessed'
    BY DEF IInv, Shaped, CallHasLease, OutcomeIsSetup, GroupsWitnessed, GroupRuns, Notify, At,
        Idle, Record, Copying
  <1> QED
    BY <1>1, <1>2, <1>3 DEF IInv

LEMMA RecoverRetriesKeeps == ASSUME IInv, NEW w \in Spaces, RecoverRetries(w) PROVE IInv'
  <1>1. Shaped' /\ OwnersPast'
    BY DEF IInv, Shaped, OwnersPast, RecoverRetries, At, Idle, Acquire, Acquired, HeldAlready,
        MayAcquire, WitnessesDead, Tip, Record, Copying
  <1>2. CallHasLease' /\ OutcomeIsSetup' /\ RemovedIsEmpty'
    BY DEF IInv, Shaped, CallHasLease, OutcomeIsSetup, RemovedIsEmpty, RecoverRetries, At, Idle,
        Acquire, Acquired, HeldAlready, MayAcquire, WitnessesDead, Tip, Record, Copying
  <1>3. GroupsWitnessed'
    BY AcquireAlone DEF IInv, Shaped, CallHasLease, OutcomeIsSetup, GroupsWitnessed, GroupRuns,
        RecoverRetries, At, Idle, Acquire, Acquired, HeldAlready, MayAcquire, WitnessesDead,
        Tip, Record, Copying
  <1> QED
    BY <1>1, <1>2, <1>3 DEF IInv

LEMMA RecoverFailsKeeps == ASSUME IInv, NEW w \in Spaces, RecoverFails(w) PROVE IInv'
  <1>1. Shaped' /\ OwnersPast'
    BY DEF IInv, Shaped, OwnersPast, RecoverFails, At, Idle, Acquire, Acquired, HeldAlready,
        MayAcquire, WitnessesDead, Tip, Record, Copying
  <1>2. CallHasLease' /\ OutcomeIsSetup' /\ RemovedIsEmpty'
    BY DEF IInv, Shaped, CallHasLease, OutcomeIsSetup, RemovedIsEmpty, RecoverFails, At, Idle,
        Acquire, Acquired, HeldAlready, MayAcquire, WitnessesDead, Tip, Record, Copying
  <1>3. GroupsWitnessed'
    BY AcquireAlone DEF IInv, Shaped, CallHasLease, OutcomeIsSetup, GroupsWitnessed, GroupRuns,
        RecoverFails, At, Idle, Acquire, Acquired, HeldAlready, MayAcquire, WitnessesDead, Tip,
        Record, Copying
  <1> QED
    BY <1>1, <1>2, <1>3 DEF IInv

LEMMA RunWorksKeeps == ASSUME IInv, NEW w \in Spaces, RunWorks(w) PROVE IInv'
  <1>1. Shaped' /\ OwnersPast'
    BY DEF IInv, Shaped, OwnersPast, RunWorks, At, Idle
  <1>2. CallHasLease' /\ OutcomeIsSetup' /\ RemovedIsEmpty'
    BY DEF IInv, Shaped, CallHasLease, OutcomeIsSetup, RemovedIsEmpty, RunWorks, At, Idle
  <1>3. GroupsWitnessed'
    BY DEF IInv, Shaped, CallHasLease, OutcomeIsSetup, GroupsWitnessed, GroupRuns, RunWorks, At,
        Idle
  <1> QED
    BY <1>1, <1>2, <1>3 DEF IInv

LEMMA SynchronizeBeginsKeeps ==
  ASSUME IInv, NEW w \in Spaces, NEW strategy, SynchronizeBegins(w, strategy)
  PROVE  IInv'
  <1>1. Shaped' /\ OwnersPast'
    BY DEF IInv, Shaped, OwnersPast, SynchronizeBegins, Idle, Acquire, Acquired, HeldAlready
  <1>2. CallHasLease' /\ OutcomeIsSetup' /\ RemovedIsEmpty'
    BY DEF IInv, Shaped, CallHasLease, OutcomeIsSetup, RemovedIsEmpty, SynchronizeBegins, Idle,
           Acquire, Acquired, HeldAlready
  <1>3. GroupsWitnessed'
    BY AcquireAlone
    DEF IInv, Shaped, GroupsWitnessed, GroupRuns, SynchronizeBegins, Idle, Acquire
  <1> QED
    BY <1>1, <1>2, <1>3 DEF IInv

(* The group that ends is the one under the newest lease, so a call that awaits *)
(* its setup learns of it, and no other group runs in the checkout.             *)
LEMMA SetupEndsKeeps ==
  ASSUME IInv, NEW w \in Spaces, NEW g, NEW ok \in BOOLEAN, SetupEnds(w, g, ok)
  PROVE  IInv'
  <1>1. Shaped' /\ OwnersPast' /\ CallHasLease' /\ OutcomeIsSetup' /\ RemovedIsEmpty'
    BY DEF IInv, Shaped, OwnersPast, CallHasLease, OutcomeIsSetup, RemovedIsEmpty, SetupEnds, At
  <1>2. GroupsWitnessed'
    BY DEF IInv, Shaped, CallHasLease, GroupsWitnessed, GroupRuns, SetupEnds, At
  <1> QED
    BY <1>1, <1>2 DEF IInv

LEMMA RemoteMovesKeeps == ASSUME IInv, RemoteMoves PROVE IInv'
  BY DEF IInv, Shaped, OwnersPast, CallHasLease, OutcomeIsSetup, GroupsWitnessed, GroupRuns,
         RemovedIsEmpty, RemoteMoves

(* A restart makes every lease somebody else's: its calls are gone. *)
LEMMA RestartKeeps == ASSUME IInv, DaemonRestarts \/ Reboots PROVE IInv'
  <1>1. Shaped' /\ OwnersPast' /\ CallHasLease' /\ OutcomeIsSetup' /\ RemovedIsEmpty'
    BY DEF IInv, Shaped, OwnersPast, CallHasLease, OutcomeIsSetup, RemovedIsEmpty, DaemonRestarts,
           Reboots, Idle
  <1>2. GroupsWitnessed'
    BY DEF IInv, Shaped, OwnersPast, GroupsWitnessed, GroupRuns, DaemonRestarts, Reboots
  <1> QED
    BY <1>1, <1>2 DEF IInv

LEMMA CallStepKeeps == ASSUME IInv, NEW w \in Spaces, CallStep(w) PROVE IInv'
  BY ProvisionAcquiresKeeps, ProvisionRefusedKeeps, RecordIntentKeeps, AddWorktreeKeeps,
     RecordCheckoutKeeps, ProvisionFailsKeeps, CopyFilesKeeps, CopyFilesFailsKeeps,
     StartSetupKeeps, StartSetupFailsKeeps, RenewalFailsKeeps, FinishSetupKeeps,
     FinishUnrenewedKeeps, RebaseKeeps, RebaseConflictsKeeps, RemoveWorktreeKeeps,
     MoveBranchKeeps, ReaddWorktreeKeeps, RecordSynchronizedKeeps, SynchronizeFailsKeeps
  DEF CallStep

LEMMA NextKeeps == ASSUME IInv, [ManagedNext]_managedVars PROVE IInv'
  <1>1. ASSUME NEW w \in Spaces, CallStep(w) PROVE IInv'
    BY <1>1, CallStepKeeps
  <1>2. ASSUME NEW w \in Spaces, SetupEndsSomehow(w) PROVE IInv'
    BY <1>2, SetupEndsKeeps DEF SetupEndsSomehow
  <1>3. ASSUME NEW w \in Spaces,
               \/ Expire(w) \/ ProvisionBegins(w) \/ Notify(w) \/ RecoverRetries(w)
               \/ RecoverFails(w) \/ RunWorks(w)
        PROVE  IInv'
    BY <1>3, ExpireKeeps, ProvisionBeginsKeeps, NotifyKeeps, RecoverRetriesKeeps,
       RecoverFailsKeeps,
       RunWorksKeeps
  <1>4. ASSUME NEW w \in Spaces, NEW strategy \in Strategies, SynchronizeBegins(w, strategy)
        PROVE  IInv'
    BY <1>4, SynchronizeBeginsKeeps
  <1>5. CASE RemoteMoves \/ DaemonRestarts \/ Reboots
    BY <1>5, RemoteMovesKeeps, RestartKeeps
  <1>6. CASE UNCHANGED managedVars
    BY <1>6 DEF managedVars, IInv, Shaped, OwnersPast, CallHasLease, OutcomeIsSetup,
                GroupsWitnessed, GroupRuns, RemovedIsEmpty
  <1> QED
    BY <1>1, <1>2, <1>3, <1>4, <1>5, <1>6 DEF ManagedNext

LEMMA Invariant == ManagedSpec => []IInv
  <1>1. IInv /\ [ManagedNext]_managedVars => IInv'
    BY NextKeeps
  <1> QED
    BY InitI, <1>1, PTL DEF ManagedSpec

-----------------------------------------------------------------------------
(* However often the daemon dies, the lease expires and the workspace is      *)
(* recovered or synchronized, the setup script that runs in a checkout is a    *)
(* witness of its lease, that lease is neither released nor replaced, and no   *)
(* second one runs (acquire in lease.ts, runSetup in service.ts).              *)
THEOREM SetupExclusive == ManagedSpec => []SetupIsExclusive
  <1>1. IInv => SetupIsExclusive
    <2> SUFFICES ASSUME IInv PROVE SetupIsExclusive
      OBVIOUS
    <2>1. \A g \in groups : g[2] \in lease[g[1]].witnesses /\ lease[g[1]].state = "active"
      BY DEF IInv, GroupsWitnessed, GroupRuns
    <2>2. ASSUME NEW w \in Spaces PROVE Cardinality({g \in groups : g[1] = w}) <= 1
      <3> DEFINE Own == {g \in groups : g[1] = w}
                 Only == {<<w, lease[w].fence>>}
      <3>1. Own \subseteq Only
        BY DEF IInv, GroupsWitnessed
      <3>2. IsFiniteSet(Only) /\ Cardinality(Only) = 1
        BY FS_Singleton
      <3>3. IsFiniteSet(Own) /\ Cardinality(Own) <= Cardinality(Only)
        BY <3>1, <3>2, FS_Subset
      <3> QED
        BY <3>2, <3>3
    <2> QED
      BY <2>1, <2>2 DEF SetupIsExclusive
  <1> QED
    BY Invariant, <1>1, PTL

(* No step takes back what a run committed: a rebase keeps it, and recreate    *)
(* moves the branch only of a checkout it found without commits, whatever the   *)
(* runs, the other calls and the crashes did in between (synchronize).          *)
THEOREM WorkKept == ManagedSpec => WorkIsKept
  <1> DEFINE Kept == \A w \in Spaces : branch[w] # NoCommit => branch'[w].work >= branch[w].work
  <1>1. IInv /\ [ManagedNext]_managedVars => [Kept]_managedVars
    <2> SUFFICES ASSUME IInv, ManagedNext PROVE Kept
      OBVIOUS
    <2> USE DEF IInv, Shaped
    <2>1. ASSUME NEW w \in Spaces, CallStep(w) PROVE Kept
      <3>1. CASE AddWorktree(w)
        BY <3>1 DEF AddWorktree
      <3>2. CASE Rebase(w)
        BY <3>2 DEF Rebase
      <3>3. CASE MoveBranch(w)
        BY <3>3 DEF MoveBranch, RemovedIsEmpty, At, Tip
      <3>4. CASE UNCHANGED branch
        BY <3>4
      <3>5. CASE FinishSetup(w) \/ FinishUnrenewed(w) \/ RebaseConflicts(w) \/ ProvisionFails(w)
                   \/ CopyFilesFails(w) \/ StartSetupFails(w) \/ SynchronizeFails(w)
        BY <3>4, <3>5
        DEF FinishSetup, FinishUnrenewed, RebaseConflicts, ProvisionFails, CopyFilesFails,
            StartSetupFails, SynchronizeFails, Throw
      <3> QED
        BY <2>1, <3>1, <3>2, <3>3, <3>4, <3>5
        DEF CallStep, ProvisionAcquires, ProvisionRefused, RecordIntent, RecordCheckout,
        CopyFiles,
            StartSetup, RenewalFails, RemoveWorktree, ReaddWorktree, RecordSynchronized
    <2>2. ASSUME NEW w \in Spaces, RunWorks(w) PROVE Kept
      BY <2>2 DEF RunWorks
    <2>3. CASE UNCHANGED branch
      BY <2>3
    <2>4. ASSUME NEW w \in Spaces, SetupEndsSomehow(w) \/ Expire(w) \/ ProvisionBegins(w) \/ Notify(w)
                                     \/ RecoverRetries(w) \/ RecoverFails(w)
          PROVE  Kept
      BY <2>3, <2>4 DEF SetupEndsSomehow, SetupEnds, Expire, ProvisionBegins, Notify,
         RecoverRetries,
                        RecoverFails
    <2>5. ASSUME NEW w \in Spaces, NEW strategy \in Strategies, SynchronizeBegins(w, strategy)
          PROVE  Kept
      BY <2>3, <2>5 DEF SynchronizeBegins
    <2>6. CASE RemoteMoves \/ DaemonRestarts \/ Reboots
      BY <2>3, <2>6 DEF RemoteMoves, DaemonRestarts, Reboots
    <2> HIDE DEF Kept, IInv, Shaped
    <2> QED
      BY <2>1, <2>2, <2>4, <2>5, <2>6 DEF ManagedNext
  <1> QED
    BY Invariant, <1>1, PTL DEF ManagedSpec, WorkIsKept

-----------------------------------------------------------------------------
(* Composite workspaces and their variants *)

Broken == {"failed", "timed-out", "blocked"}

Complete(e) == e.checkout /\ e.material = "succeeded"

(* What the manifest may say of one repository, phase by phase.             *)
EntryOk(e) ==
  /\ DOMAIN e = {"phase", "checkout", "material", "setup"} /\ e.checkout \in BOOLEAN
  /\ \/ e.phase \in {"pending", "materializing"} /\ ~e.checkout /\ e.setup \in {"pending", "skipped"}
     \/ e.phase = "materialized" /\ Complete(e) /\ e.setup \in {"pending", "skipped"}
     \/ e.phase = "setup-running" /\ Complete(e) /\ e.setup = "running"
     \/ e.phase = "completed" /\ Complete(e) /\ e.setup \in {"pending", "succeeded", "skipped"}
     \/ e.phase \in {"failed", "blocked"} /\ e.setup \in Broken
     \/ e.phase = "recovery-required" /\ (e.checkout => Complete(e)) /\ e.setup # "running"

(* The manifest file, which does not exist before the first call. *)
FileOk ==
  /\ composite.lifecycle = "none" => composite = NoComposite /\ comp.pc = "idle"
  /\ composite.lifecycle # "none" =>
       /\ DOMAIN composite = {"lifecycle", "repos"} /\ DOMAIN composite.repos = Repos
       /\ \A r \in Repos : EntryOk(Entry(r))

(* An uncertain provisioner or setup is marked together with the manifest. *)
MarkedTogether ==
  \A r \in Repos : composite.lifecycle # "none" /\ Entry(r).phase = "recovery-required" =>
    composite.lifecycle = "recovery-required"

CallOk ==
  /\ DOMAIN comp = {"pc", "next", "wave", "done"} /\ comp.next \in Nat
  /\ comp.pc \in {"idle", "begin", "materialize", "work", "custom", "observe", "wave", "await"}
  /\ comp.done \subseteq [repo : Repos, outcome : {"succeeded", "failed", "timed-out"}]

(* The repositories the call has passed are recorded and complete, or their  *)
(* setup is already known not to have happened; nothing is uncertain but the  *)
(* wave that runs.                                                           *)
CallPassed ==
  comp.pc \notin {"idle", "begin"} =>
    /\ composite.lifecycle \notin {"none", "recovery-required"} /\ comp.next >= 1
    /\ \A q \in Repos : q < comp.next =>
         Entry(q).phase \in Settled /\ (Complete(Entry(q)) \/ Entry(q).setup \in Broken)
    /\ \A q \in Repos : Entry(q).phase = "setup-running" =>
         comp.pc \in {"wave", "await"} /\ q \in comp.wave

CallWorks ==
  comp.pc \in {"work", "custom", "observe"} =>
    comp.next \in Repos /\ Entry(comp.next).phase = "materializing"

WaveRuns ==
  comp.pc \in {"wave", "await"} =>
    /\ comp.next > NRepos /\ comp.wave \subseteq Repos /\ comp.wave # {}
    /\ \A q \in comp.wave : Entry(q).phase = "setup-running"

ReadyHolds ==
  composite.lifecycle = "ready" =>
    \A r \in Repos : /\ Entry(r).phase \in {"materialized", "completed"} /\ Complete(Entry(r))
                     /\ Entry(r).setup \in {"succeeded", "skipped"}

CompositeInv ==
  FileOk /\ MarkedTogether /\ CallOk /\ CallPassed /\ CallWorks /\ WaveRuns /\ ReadyHolds

-----------------------------------------------------------------------------
(* The rows of a variant: its manifest m, the call c at work on it, the      *)
(* revision b it is bound to, over the targets tg.                           *)
RowsShaped(m, c) ==
  /\ DOMAIN m = {"lifecycle", "repos", "phase", "candidate"}
  /\ DOMAIN m.candidate = Repos /\ DOMAIN m.phase = Repos
  /\ DOMAIN c = {"pc", "next", "swapped"}

Walks == {"checkout", "prepare", "publish", "swap", "swapped"}

(* A call walks over the repositories of a valid task revision. *)
WalkOk(v, m, c, b) ==
  /\ m.lifecycle # "none" => TaskRevisionValid(v)
  /\ c.pc # "idle" => m.lifecycle # "none"
  /\ b # 0 => m.lifecycle # "none"
  /\ c.pc \in Walks => c.next \in Nat /\ c.next >= 1

(* A variant is bound only when all of its checkouts were made. *)
BoundHasCheckouts(v, m, c, b) ==
  /\ c.pc = "checkout" =>
       /\ m.lifecycle = "provisioning"
       /\ \A q \in Reads[v] : q < c.next => q \in m.repos
  /\ c.pc = "bind" \/ b # 0 => Reads[v] \subseteq m.repos
  /\ c.pc \in Walks \ {"checkout"} => b # 0
  /\ c.pc = "prepare" => m.lifecycle # "integrated"

(* A candidate contains the base it was made of. *)
CandidateOk(m) == \A r \in Repos : m.candidate[r] = {} \/ Base \subseteq m.candidate[r]

Installed(m, tg, r) == m.candidate[r] # {} /\ m.candidate[r] \subseteq tg[r]

(* The publication has installed every repository it has passed. *)
PublishOk(v, m, c, tg) ==
  /\ c.pc \in {"publish", "swap", "swapped"} => \A q \in Writes[v] : q < c.next => Installed(m, tg, q)
  /\ c.pc = "swap" => c.next \in Writes[v] /\ m.candidate[c.next] # {}
  /\ c.pc = "swapped" => c.next \in Writes[v] /\ Installed(m, tg, c.next)
  /\ m.lifecycle = "integrated" => \A r \in Writes[v] : Installed(m, tg, r)

RowsOk(v, m, c, b, tg) ==
  /\ RowsShaped(m, c) /\ WalkOk(v, m, c, b) /\ BoundHasCheckouts(v, m, c, b)
  /\ CandidateOk(m) /\ PublishOk(v, m, c, tg)

VariantInv ==
  /\ DOMAIN variant = Variants /\ DOMAIN vcall = Variants /\ DOMAIN bound = Variants
  /\ DOMAIN target = Repos /\ \A r \in Repos : Base \subseteq target[r]
  /\ \A v \in Variants : RowsOk(v, variant[v], vcall[v], bound[v], target)

-----------------------------------------------------------------------------
(* The composite: every step keeps the invariant.                          *)

LEMMA CompositeInitI == CompositeInit => CompositeInv
  BY DEF CompositeInit, CompositeInv, FileOk, MarkedTogether, CallOk, CallPassed, CallWorks,
     WaveRuns,
         ReadyHolds, NoComposite, Resting

(* What a call leaves behind: lifecycle l and the entries e(r). *)
FileIs(l) ==
  composite.lifecycle = l /\ DOMAIN composite = {"lifecycle", "repos"} /\ DOMAIN composite.repos = Repos

(* One entry is written: the others, and the lifecycle, stay. *)
LEMMA WriteEntryEffect ==
  ASSUME CompositeInv, composite.lifecycle # "none", NEW r \in Repos, NEW e, WriteEntry(r, e)
  PROVE  /\ FileIs(composite.lifecycle)'
         /\ composite'.lifecycle = composite.lifecycle
         /\ Entry(r)' = e
         /\ \A q \in Repos : q # r => Entry(q)' = Entry(q)
  BY DEF CompositeInv, FileOk, WriteEntry, Entry, FileIs

LEMMA CompositeBeginsKeeps == ASSUME CompositeInv, CompositeBegins PROVE CompositeInv'
  <1>1. CASE composite = NoComposite
    <2>1. /\ composite'.lifecycle = "provisioning" /\ FileIs("provisioning")'
          /\ \A r \in Repos : Entry(r)' = NewEntry(r)
          /\ comp' = [Resting EXCEPT !.pc = "materialize", !.next = 1]
      BY <1>1 DEF CompositeBegins, FileIs, Entry
    <2>2. \A r \in Repos : EntryOk(NewEntry(r)) /\ NewEntry(r).phase = "pending"
      BY DEF NewEntry, EntryOk
    <2>3. FileOk' /\ MarkedTogether' /\ ReadyHolds'
      BY <2>1, <2>2 DEF FileOk, MarkedTogether, ReadyHolds, FileIs, Entry, EntryOk
    <2>4. CallOk' /\ CallPassed' /\ CallWorks' /\ WaveRuns'
      BY <2>1, <2>2 DEF CallOk, CallPassed, CallWorks, WaveRuns, Resting, Repos
    <2> QED
      BY <2>3, <2>4 DEF CompositeInv
  <1>2. CASE composite # NoComposite /\ \E r \in Repos : Uncertain(Entry(r))
    <2>1. /\ composite'.lifecycle = "recovery-required" /\ FileIs("recovery-required")'
          /\ \A r \in Repos : Entry(r)' =
               IF Uncertain(Entry(r))
               THEN [Entry(r) EXCEPT !.phase = "recovery-required", !.setup = "recovery-required"]
               ELSE Entry(r)
          /\ comp' = Resting
      <3>1. /\ composite' = [lifecycle |-> "recovery-required", repos |-> [r \in Repos |->
                 IF Uncertain(Entry(r))
                 THEN [Entry(r) EXCEPT !.phase = "recovery-required", !.setup = "recovery-required"]
                 ELSE Entry(r)]]
            /\ comp' = Resting
        BY <1>2 DEF CompositeBegins, Stop
      <3> QED
        BY <3>1 DEF FileIs, Entry
    <2>2. \A r \in Repos : EntryOk(Entry(r)')
      <3>1. SUFFICES ASSUME NEW r \in Repos PROVE EntryOk(Entry(r)')
        OBVIOUS
      <3>2. EntryOk(Entry(r))
        BY <1>2 DEF CompositeInv, FileOk
      <3>3. CASE Uncertain(Entry(r))
        BY <2>1, <3>2, <3>3 DEF EntryOk, Uncertain, Complete, Broken
      <3>4. CASE ~Uncertain(Entry(r))
        BY <2>1, <3>2, <3>4
      <3> QED
        BY <3>3, <3>4
    <2>3. FileOk' /\ MarkedTogether' /\ ReadyHolds'
      BY <2>1, <2>2 DEF FileOk, MarkedTogether, ReadyHolds, FileIs, Entry
    <2>4. CallOk' /\ CallPassed' /\ CallWorks' /\ WaveRuns'
      BY <2>1 DEF CallOk, CallPassed, CallWorks, WaveRuns, Resting
    <2> QED
      BY <2>3, <2>4 DEF CompositeInv
  <1>3. CASE composite # NoComposite /\ \A r \in Repos : ~Uncertain(Entry(r))
    <2>1. /\ UNCHANGED composite /\ composite.lifecycle \notin {"none", "recovery-required"}
          /\ comp' = [Resting EXCEPT !.pc = "materialize", !.next = 1]
      BY <1>3 DEF CompositeBegins, CompositeInv, FileOk
    <2>2. FileOk' /\ MarkedTogether' /\ ReadyHolds'
      BY <2>1 DEF CompositeInv, FileOk, MarkedTogether, ReadyHolds, Entry
    <2>3. CallOk' /\ CallPassed' /\ CallWorks' /\ WaveRuns'
      BY <1>3, <2>1 DEF CallOk, CallPassed, CallWorks, WaveRuns, Resting, Repos, Entry, Uncertain
    <2> QED
      BY <2>2, <2>3 DEF CompositeInv
  <1> QED
    BY <1>1, <1>2, <1>3 DEF CompositeBegins

LEMMA StartMaterializingKeeps == ASSUME CompositeInv, StartMaterializing PROVE CompositeInv'
  <1>0. PICK r : r = comp.next
    OBVIOUS
  <1> DEFINE interrupted == Entry(r).phase = "materializing"
  <1>1. /\ r \in Repos /\ comp.pc = "materialize" /\ Entry(r).phase \notin Settled
        /\ composite.lifecycle \notin {"none", "recovery-required"}
    BY <1>0, CompositeAssumption DEF StartMaterializing, CompositeInv, CallOk, CallPassed, Repos
  <1>2. EntryOk(Entry(r)) /\ Entry(r).phase \in {"pending", "materializing"}
    BY <1>1 DEF CompositeInv, FileOk, EntryOk, Settled, MarkedTogether
  <1>3. composite.lifecycle # "ready"
    BY <1>1, <1>2 DEF CompositeInv, ReadyHolds
  <1>4. CASE interrupted /\ r \in Custom
    <2>1. /\ composite'.lifecycle = "recovery-required" /\ FileIs("recovery-required")'
          /\ Entry(r)' = [Entry(r) EXCEPT !.phase = "recovery-required",
                                          !.material = "recovery-required"]
          /\ \A q \in Repos : q # r => Entry(q)' = Entry(q)
          /\ comp' = Resting
      <3>1. /\ composite' = [composite EXCEPT !.lifecycle = "recovery-required",
                   !.repos[r] = [@ EXCEPT !.phase = "recovery-required",
                                          !.material = "recovery-required"]]
            /\ comp' = Resting
        BY <1>0, <1>1, <1>4 DEF StartMaterializing, Stop
      <3>2. DOMAIN composite = {"lifecycle", "repos"} /\ DOMAIN composite.repos = Repos
        BY <1>1 DEF CompositeInv, FileOk
      <3> QED
        BY <1>1, <3>1, <3>2 DEF FileIs, Entry
    <2>2. EntryOk(Entry(r)')
      BY <1>2, <2>1 DEF EntryOk
    <2>3. FileOk' /\ MarkedTogether' /\ ReadyHolds'
      BY <1>1, <2>1, <2>2 DEF CompositeInv, FileOk, MarkedTogether, ReadyHolds, FileIs, Entry
    <2>4. CallOk' /\ CallPassed' /\ CallWorks' /\ WaveRuns'
      BY <2>1 DEF CallOk, CallPassed, CallWorks, WaveRuns, Resting
    <2> QED
      BY <2>3, <2>4 DEF CompositeInv
  <1>5. CASE UNCHANGED composite /\ comp' = Resting
    BY <1>5 DEF CompositeInv, FileOk, MarkedTogether, ReadyHolds, CallOk, CallPassed, CallWorks,
                WaveRuns, Resting, Entry
  <1>6. CASE WriteEntry(r, Materialized(r)) /\ comp' = [comp EXCEPT !.next = @ + 1]
    <2>1. /\ FileIs(composite.lifecycle)' /\ composite'.lifecycle = composite.lifecycle
          /\ Entry(r)' = Materialized(r) /\ \A q \in Repos : q # r => Entry(q)' = Entry(q)
      BY <1>1, <1>6, WriteEntryEffect
    <2>2. /\ EntryOk(Materialized(r)) /\ Complete(Materialized(r))
          /\ Materialized(r).phase \in {"materialized", "completed"}
      BY <1>2 DEF Materialized, EntryOk, Complete
    <2>3. FileOk' /\ MarkedTogether' /\ ReadyHolds'
      BY <1>1, <1>3, <2>1, <2>2 DEF CompositeInv, FileOk, MarkedTogether, ReadyHolds, FileIs,
         Entry
    <2>4. CallOk' /\ CallWorks' /\ WaveRuns'
      BY <1>0, <1>1, <1>6 DEF CompositeInv, CallOk, CallWorks, WaveRuns
    <2>5. CallPassed'
      BY <1>0, <1>1, <1>6, <2>1, <2>2 DEF CompositeInv, CallOk, CallPassed, Settled, Repos
    <2> QED
      BY <2>3, <2>4, <2>5 DEF CompositeInv
  <1>7. CASE /\ WriteEntry(r, [Entry(r) EXCEPT !.phase = "materializing", !.material = "running"])
             /\ comp' = [comp EXCEPT !.pc = "work"]
    <2>1. /\ FileIs(composite.lifecycle)' /\ composite'.lifecycle = composite.lifecycle
          /\ Entry(r)' = [Entry(r) EXCEPT !.phase = "materializing", !.material = "running"]
          /\ \A q \in Repos : q # r => Entry(q)' = Entry(q)
      BY <1>1, <1>7, WriteEntryEffect
    <2>2. EntryOk(Entry(r)') /\ Entry(r)'.phase = "materializing"
      BY <1>2, <2>1 DEF EntryOk
    <2>3. FileOk' /\ MarkedTogether' /\ ReadyHolds'
      BY <1>1, <1>3, <2>1, <2>2 DEF CompositeInv, FileOk, MarkedTogether, ReadyHolds, FileIs,
         Entry
    <2>4. CallOk' /\ comp'.next = r /\ comp'.pc = "work"
      BY <1>0, <1>1, <1>7 DEF CompositeInv, CallOk
    <2>5. CallWorks' /\ WaveRuns'
      BY <1>1, <2>2, <2>4 DEF CallWorks, WaveRuns, Entry
    <2>6. CallPassed'
      <3>1. \A q \in Repos : q # r => Entry(q)' = Entry(q)
        BY <2>1
      <3>2. ~ (r < r)
        BY <1>1 DEF Repos
      <3> QED
        BY <1>0, <1>1, <2>1, <2>2, <2>4, <3>1, <3>2, Zenon DEF CompositeInv, CallPassed
    <2> QED
      BY <2>3, <2>4, <2>5, <2>6 DEF CompositeInv
  <1> QED
    BY <1>0, <1>4, <1>5, <1>6, <1>7 DEF StartMaterializing, Stop

LEMMA ObserveCheckoutKeeps == ASSUME CompositeInv, ObserveCheckout PROVE CompositeInv'
  <1>0. PICK r : r = comp.next
    OBVIOUS
  <1>1. /\ r \in Repos /\ composite.lifecycle \notin {"none", "recovery-required"}
        /\ EntryOk(Entry(r)) /\ Entry(r).phase = "materializing"
    BY <1>0 DEF ObserveCheckout, CompositeInv, CallPassed, CallWorks, FileOk
  <1>2. composite.lifecycle # "ready"
    BY <1>1 DEF CompositeInv, ReadyHolds
  <1>3. /\ FileIs(composite.lifecycle)' /\ composite'.lifecycle = composite.lifecycle
        /\ Entry(r)' = Materialized(r) /\ \A q \in Repos : q # r => Entry(q)' = Entry(q)
        /\ comp' = [comp EXCEPT !.pc = "materialize", !.next = @ + 1]
    BY <1>0, <1>1, WriteEntryEffect DEF ObserveCheckout
  <1>4. /\ EntryOk(Materialized(r)) /\ Complete(Materialized(r))
        /\ Materialized(r).phase \in {"materialized", "completed"}
    BY <1>1 DEF Materialized, EntryOk, Complete
  <1>5. FileOk' /\ MarkedTogether' /\ ReadyHolds'
    BY <1>1, <1>2, <1>3, <1>4 DEF CompositeInv, FileOk, MarkedTogether, ReadyHolds, FileIs, Entry
  <1>6. CallOk' /\ CallWorks' /\ WaveRuns'
    BY <1>1, <1>3 DEF CompositeInv, CallOk, CallWorks, WaveRuns
  <1>7. CallPassed'
    BY <1>0, <1>1, <1>3, <1>4 DEF CompositeInv, CallOk, CallPassed, Settled, Repos,
       ObserveCheckout
  <1> QED
    BY <1>5, <1>6, <1>7 DEF CompositeInv

(* A setup that is pending where the call has passed has its checkout. *)
LEMMA PendingIsComplete ==
  ASSUME CompositeInv, comp.pc = "materialize", comp.next > NRepos
  PROVE  /\ composite.lifecycle \notin {"none", "recovery-required"}
         /\ \A r \in Repos : /\ EntryOk(Entry(r)) /\ Entry(r).phase \in Settled \ {"setup-running"}
                             /\ Complete(Entry(r)) \/ Entry(r).setup \in Broken
         /\ \A r \in Pending : Complete(Entry(r))
  BY CompositeAssumption
  DEF CompositeInv, CallOk, CallPassed, FileOk, Pending, Repos, Settled, Broken

LEMMA MarkWaveKeeps == ASSUME CompositeInv, MarkWave PROVE CompositeInv'
  <1>1. /\ comp.pc = "materialize" /\ comp.next > NRepos /\ Runnable # {}
        /\ Runnable \subseteq Pending /\ Pending \subseteq Repos
    BY DEF MarkWave, Runnable, Pending
  <1>2. /\ FileIs(composite.lifecycle)' /\ composite'.lifecycle = composite.lifecycle
        /\ \A r \in Runnable :
             Entry(r)' = [Entry(r) EXCEPT !.phase = "setup-running", !.setup = "running"]
        /\ \A r \in Repos \ Runnable : Entry(r)' = Entry(r)
        /\ comp' = [comp EXCEPT !.pc = "wave", !.wave = Runnable, !.done = {}]
    BY <1>1, PendingIsComplete DEF MarkWave, FileIs, Entry, CompositeInv, FileOk
  <1>3. \A r \in Runnable : /\ EntryOk(Entry(r)') /\ Entry(r)'.phase = "setup-running"
                            /\ Complete(Entry(r)')
    <2>1. ASSUME NEW r \in Runnable
          PROVE  EntryOk(Entry(r)') /\ Entry(r)'.phase = "setup-running" /\ Complete(Entry(r)')
      <3>1. EntryOk(Entry(r)) /\ Complete(Entry(r))
        BY <1>1, PendingIsComplete
      <3>2. Entry(r)' = [Entry(r) EXCEPT !.phase = "setup-running", !.setup = "running"]
        BY <1>2
      <3> QED
        BY <3>1, <3>2 DEF EntryOk, Complete
    <2> QED
      BY <2>1
  <1>4. composite.lifecycle # "ready"
    BY <1>1 DEF CompositeInv, ReadyHolds, Pending
  <1>5. FileOk' /\ MarkedTogether' /\ ReadyHolds'
    BY <1>1, <1>2, <1>3, <1>4, PendingIsComplete
    DEF CompositeInv, FileOk, MarkedTogether, ReadyHolds, FileIs, Entry
  <1>6. /\ comp'.pc = "wave" /\ comp'.next = comp.next /\ comp'.wave = Runnable /\ comp.next \in Nat
        /\ CallOk'
    BY <1>2 DEF CompositeInv, CallOk
  <1>7. CallWorks' /\ WaveRuns'
    BY <1>1, <1>3, <1>6 DEF CallWorks, WaveRuns, Entry
  <1>8. CallPassed'
    BY <1>1, <1>2, <1>3, <1>6, PendingIsComplete DEF CompositeInv, CallPassed, Settled
  <1> QED
    BY <1>5, <1>6, <1>7, <1>8 DEF CompositeInv

LEMMA RecordWaveKeeps == ASSUME CompositeInv, RecordWave PROVE CompositeInv'
  <1> DEFINE outcome(r) == (CHOOSE d \in comp.done : d.repo = r).outcome
             entry(r) == [Entry(r) EXCEPT
                            !.phase = IF outcome(r) = "succeeded" THEN "completed" ELSE "failed",
                            !.setup = outcome(r)]
  <1>1. /\ comp.pc = "await" /\ comp.next > NRepos /\ comp.wave \subseteq Repos /\ comp.wave # {}
        /\ \A r \in comp.wave : Entry(r).phase = "setup-running"
        /\ composite.lifecycle \notin {"none", "recovery-required"}
    BY DEF RecordWave, CompositeInv, WaveRuns, CallPassed
  <1>2. \A r \in comp.wave : outcome(r) \in {"succeeded", "failed", "timed-out"}
    BY DEF RecordWave, CompositeInv, CallOk
  <1>3. /\ FileIs(composite.lifecycle)' /\ composite'.lifecycle = composite.lifecycle
        /\ \A r \in comp.wave : Entry(r)' = entry(r)
        /\ \A r \in Repos \ comp.wave : Entry(r)' = Entry(r)
        /\ comp' = [comp EXCEPT !.pc = "materialize", !.wave = {}, !.done = {}]
    BY <1>1, Zenon DEF RecordWave, FileIs, Entry, CompositeInv, FileOk
  <1> HIDE DEF outcome
  <1>4. \A r \in comp.wave : EntryOk(Entry(r)) /\ Complete(Entry(r))
    BY <1>1 DEF CompositeInv, FileOk, EntryOk
  <1>5. \A r \in comp.wave : /\ EntryOk(entry(r)) /\ Complete(entry(r))
                             /\ entry(r).phase \in {"completed", "failed"}
    BY <1>2, <1>4 DEF EntryOk, Complete, Broken
  <1> HIDE DEF entry
  <1>6. composite.lifecycle # "ready"
    BY <1>1 DEF CompositeInv, ReadyHolds
  <1>7. FileOk' /\ MarkedTogether' /\ ReadyHolds'
    BY <1>1, <1>3, <1>5, <1>6 DEF CompositeInv, FileOk, MarkedTogether, ReadyHolds, FileIs, Entry
  <1>8. comp'.pc = "materialize" /\ comp'.next = comp.next /\ CallOk' /\ CallWorks' /\ WaveRuns'
    BY <1>3 DEF CompositeInv, CallOk, CallWorks, WaveRuns
  <1>9. CallPassed'
    BY <1>1, <1>3, <1>5, <1>8 DEF CompositeInv, CallPassed, Settled
  <1> QED
    BY <1>7, <1>8, <1>9 DEF CompositeInv

LEMMA BlockRestKeeps == ASSUME CompositeInv, BlockRest PROVE CompositeInv'
  <1>1. comp.pc = "materialize" /\ comp.next > NRepos /\ Pending # {} /\ Pending \subseteq Repos
    BY DEF BlockRest, Pending
  <1>2. /\ FileIs(composite.lifecycle)' /\ composite'.lifecycle = composite.lifecycle
        /\ \A r \in Pending : Entry(r)' = [Entry(r) EXCEPT !.phase = "blocked", !.setup = "blocked"]
        /\ \A r \in Repos \ Pending : Entry(r)' = Entry(r)
        /\ comp' = comp
    BY <1>1, PendingIsComplete DEF BlockRest, FileIs, Entry, CompositeInv, FileOk
  <1>3. \A r \in Pending : /\ EntryOk(Entry(r)') /\ Entry(r)'.phase = "blocked"
                           /\ Entry(r)'.setup \in Broken
    BY <1>1, <1>2, PendingIsComplete DEF EntryOk, Broken
  <1>4. composite.lifecycle # "ready"
    BY <1>1 DEF CompositeInv, ReadyHolds, Pending
  <1>5. FileOk' /\ MarkedTogether' /\ ReadyHolds'
    BY <1>1, <1>2, <1>3, <1>4, PendingIsComplete
    DEF CompositeInv, FileOk, MarkedTogether, ReadyHolds, FileIs, Entry
  <1>6. CallOk' /\ CallWorks' /\ WaveRuns'
    BY <1>1, <1>2 DEF CompositeInv, CallOk, CallWorks, WaveRuns
  <1>7. CallPassed'
    BY <1>1, <1>2, <1>3, PendingIsComplete DEF CompositeInv, CallPassed, Settled
  <1> QED
    BY <1>5, <1>6, <1>7 DEF CompositeInv

LEMMA CustomEndsKeeps == ASSUME CompositeInv, NEW ok \in BOOLEAN, CustomEnds(ok) PROVE CompositeInv'
  <1>0. PICK r : r = comp.next
    OBVIOUS
  <1> DEFINE failed == [Entry(r) EXCEPT !.phase = "failed", !.material = "failed", !.setup = "blocked"]
  <1>1. /\ r \in Repos /\ composite.lifecycle \notin {"none", "recovery-required"}
        /\ EntryOk(Entry(r)) /\ Entry(r).phase = "materializing" /\ comp.pc = "custom"
    BY <1>0 DEF CustomEnds, CompositeInv, CallPassed, CallWorks, FileOk
  <1>2. composite.lifecycle # "ready"
    BY <1>1 DEF CompositeInv, ReadyHolds
  <1>3. CASE UNCHANGED composite /\ comp' = [comp EXCEPT !.pc = "observe"]
    BY <1>0, <1>1, <1>3 DEF CompositeInv, FileOk, MarkedTogether, ReadyHolds, CallOk, CallPassed,
                      CallWorks, WaveRuns, Entry
  <1>4. CASE /\ WriteEntry(r, failed)
             /\ comp' = [comp EXCEPT !.pc = "materialize", !.next = @ + 1]
    <2>1. /\ FileIs(composite.lifecycle)' /\ composite'.lifecycle = composite.lifecycle
          /\ Entry(r)' = failed /\ \A q \in Repos : q # r => Entry(q)' = Entry(q)
      <3> HIDE DEF failed
      <3> QED
        BY <1>1, <1>4, WriteEntryEffect
    <2>2. EntryOk(failed) /\ failed.phase = "failed" /\ failed.setup \in Broken
      BY <1>1 DEF EntryOk, Broken
    <2> HIDE DEF failed
    <2>3. FileOk' /\ MarkedTogether' /\ ReadyHolds'
      BY <1>1, <1>2, <2>1, <2>2 DEF CompositeInv, FileOk, MarkedTogether, ReadyHolds, FileIs,
         Entry
    <2>4. /\ CallOk' /\ CallWorks' /\ WaveRuns'
          /\ comp'.next = r + 1 /\ r \in Nat /\ comp'.pc = "materialize"
      BY <1>0, <1>1, <1>4 DEF CompositeInv, CallOk, CallWorks, WaveRuns
    <2>5. CallPassed'
      BY <1>0, <1>1, <2>1, <2>2, <2>4 DEF CompositeInv, CallPassed, Settled, Repos
    <2> QED
      BY <2>3, <2>4, <2>5 DEF CompositeInv
  <1> QED
    BY <1>0, <1>3, <1>4 DEF CustomEnds

LEMMA FailUncertainKeeps == ASSUME CompositeInv, FailUncertain PROVE CompositeInv'
  <1>1. /\ composite.lifecycle # "none" /\ comp = Resting /\ comp' = comp
        /\ composite'.lifecycle = "partial-failure" /\ FileIs("partial-failure")'
        /\ \A r \in Repos : Entry(r)' =
             IF Entry(r).phase = "recovery-required"
             THEN [Entry(r) EXCEPT !.phase = "failed", !.material = "failed", !.setup = "failed"]
             ELSE Entry(r)
    BY DEF FailUncertain, FileIs, Entry, CompositeInv, FileOk
  <1>2. \A r \in Repos : EntryOk(Entry(r)') /\ Entry(r)'.phase # "recovery-required"
    BY <1>1 DEF CompositeInv, FileOk, EntryOk, Broken, Complete
  <1>3. FileOk' /\ MarkedTogether' /\ ReadyHolds'
    BY <1>1, <1>2 DEF FileOk, MarkedTogether, ReadyHolds, FileIs, Entry
  <1>4. CallOk' /\ CallPassed' /\ CallWorks' /\ WaveRuns'
    BY <1>1 DEF CallOk, CallPassed, CallWorks, WaveRuns, Resting
  <1> QED
    BY <1>3, <1>4 DEF CompositeInv

LEMMA RetryUncertainKeeps == ASSUME CompositeInv, RetryUncertain PROVE CompositeInv'
  <1>1. /\ composite.lifecycle # "none" /\ comp' = [Resting EXCEPT !.pc = "begin"]
        /\ composite'.lifecycle = "provisioning" /\ FileIs("provisioning")'
        /\ \A r \in Repos : Entry(r)' = Retried(r)
    BY DEF RetryUncertain, FileIs, Entry, CompositeInv, FileOk
  <1>2. ASSUME NEW r \in Repos PROVE EntryOk(Retried(r)) /\ Retried(r).phase # "recovery-required"
    <2>1. EntryOk(Entry(r))
      BY <1>1 DEF CompositeInv, FileOk
    <2>2. CASE Entry(r).phase # "recovery-required"
      BY <2>1, <2>2 DEF Retried
    <2>3. CASE Entry(r).phase = "recovery-required" /\ ~Entry(r).checkout
      BY <2>1, <2>3 DEF Retried, EntryOk
    <2>4. CASE Entry(r).phase = "recovery-required" /\ Entry(r).checkout
      BY <2>1, <2>4 DEF Retried, EntryOk, Complete
    <2> QED
      BY <2>2, <2>3, <2>4
  <1>3. FileOk' /\ MarkedTogether' /\ ReadyHolds'
    BY <1>1, <1>2 DEF FileOk, MarkedTogether, ReadyHolds, FileIs, Entry
  <1>4. CallOk' /\ CallPassed' /\ CallWorks' /\ WaveRuns'
    BY <1>1 DEF CallOk, CallPassed, CallWorks, WaveRuns, Resting
  <1> QED
    BY <1>3, <1>4 DEF CompositeInv


LEMMA CheckRecordedKeeps == ASSUME CompositeInv, CheckRecorded PROVE CompositeInv'
  <1>1. FileOk' /\ MarkedTogether'
    BY CompositeAssumption DEF CompositeInv, FileOk, MarkedTogether, CallPassed, CallWorks,
          WaveRuns, CallOk, EntryOk, Complete, Broken, Settled, Entry, Repos, CheckRecorded,
          Resting
  <1>2. CallOk'
    BY CompositeAssumption DEF CompositeInv, CallOk, EntryOk, Complete, Broken, Settled, Entry,
          Repos, CheckRecorded, Resting
  <1>3. CallPassed'
    BY CompositeAssumption DEF CompositeInv, FileOk, MarkedTogether, CallOk, CallPassed,
          CallWorks, WaveRuns, EntryOk, Complete, Broken, Settled, Entry, Repos, CheckRecorded,
          Resting
  <1>4. CallWorks' /\ WaveRuns'
    BY CompositeAssumption DEF CompositeInv, FileOk, CallOk, CallPassed, CallWorks, WaveRuns,
          EntryOk, Complete, Broken, Settled, Entry, Repos, CheckRecorded, Resting
  <1>5. ReadyHolds'
    BY CompositeAssumption DEF CompositeInv, FileOk, MarkedTogether, CallOk, CallPassed,
          CallWorks, WaveRuns, ReadyHolds, EntryOk, Complete, Broken, Settled, Entry, Repos,
          CheckRecorded, Resting
  <1> QED
    BY <1>1, <1>2, <1>3, <1>4, <1>5 DEF CompositeInv

LEMMA AddManagedKeeps == ASSUME CompositeInv, AddManaged PROVE CompositeInv'
  <1>1. FileOk' /\ MarkedTogether'
    BY CompositeAssumption DEF CompositeInv, FileOk, MarkedTogether, CallPassed, CallWorks,
          WaveRuns, CallOk, EntryOk, Complete, Broken, Settled, Entry, Repos, AddManaged
  <1>2. CallOk'
    BY CompositeAssumption DEF CompositeInv, CallOk, EntryOk, Complete, Broken, Settled, Entry,
          Repos, AddManaged
  <1>3. CallPassed'
    BY CompositeAssumption DEF CompositeInv, FileOk, MarkedTogether, CallOk, CallPassed,
          CallWorks, WaveRuns, EntryOk, Complete, Broken, Settled, Entry, Repos, AddManaged
  <1>4. CallWorks' /\ WaveRuns'
    BY CompositeAssumption DEF CompositeInv, FileOk, CallOk, CallPassed, CallWorks, WaveRuns,
          EntryOk, Complete, Broken, Settled, Entry, Repos, AddManaged
  <1>5. ReadyHolds'
    BY CompositeAssumption DEF CompositeInv, FileOk, MarkedTogether, CallOk, CallPassed,
          CallWorks, WaveRuns, ReadyHolds, EntryOk, Complete, Broken, Settled, Entry, Repos,
          AddManaged
  <1> QED
    BY <1>1, <1>2, <1>3, <1>4, <1>5 DEF CompositeInv

LEMMA AdoptCheckoutKeeps == ASSUME CompositeInv, AdoptCheckout PROVE CompositeInv'
  <1>1. FileOk' /\ MarkedTogether'
    BY CompositeAssumption DEF CompositeInv, FileOk, MarkedTogether, CallPassed, CallWorks,
          WaveRuns, CallOk, EntryOk, Complete, Broken, Settled, Entry, Repos, AdoptCheckout
  <1>2. CallOk'
    BY CompositeAssumption DEF CompositeInv, CallOk, EntryOk, Complete, Broken, Settled, Entry,
          Repos, AdoptCheckout
  <1>3. CallPassed'
    BY CompositeAssumption DEF CompositeInv, FileOk, MarkedTogether, CallOk, CallPassed,
          CallWorks, WaveRuns, EntryOk, Complete, Broken, Settled, Entry, Repos, AdoptCheckout
  <1>4. CallWorks' /\ WaveRuns'
    BY CompositeAssumption DEF CompositeInv, FileOk, CallOk, CallPassed, CallWorks, WaveRuns,
          EntryOk, Complete, Broken, Settled, Entry, Repos, AdoptCheckout
  <1>5. ReadyHolds'
    BY CompositeAssumption DEF CompositeInv, FileOk, MarkedTogether, CallOk, CallPassed,
          CallWorks, WaveRuns, ReadyHolds, EntryOk, Complete, Broken, Settled, Entry, Repos,
          AdoptCheckout
  <1> QED
    BY <1>1, <1>2, <1>3, <1>4, <1>5 DEF CompositeInv

LEMMA RunCustomKeeps == ASSUME CompositeInv, RunCustom PROVE CompositeInv'
  <1>1. FileOk' /\ MarkedTogether'
    BY CompositeAssumption DEF CompositeInv, FileOk, MarkedTogether, CallPassed, CallWorks,
          WaveRuns, CallOk, EntryOk, Complete, Broken, Settled, Entry, Repos, RunCustom
  <1>2. CallOk'
    BY CompositeAssumption DEF CompositeInv, CallOk, EntryOk, Complete, Broken, Settled, Entry,
          Repos, RunCustom
  <1>3. CallPassed'
    BY CompositeAssumption DEF CompositeInv, FileOk, MarkedTogether, CallOk, CallPassed,
          CallWorks, WaveRuns, EntryOk, Complete, Broken, Settled, Entry, Repos, RunCustom
  <1>4. CallWorks' /\ WaveRuns'
    BY CompositeAssumption DEF CompositeInv, FileOk, CallOk, CallPassed, CallWorks, WaveRuns,
          EntryOk, Complete, Broken, Settled, Entry, Repos, RunCustom
  <1>5. ReadyHolds'
    BY CompositeAssumption DEF CompositeInv, FileOk, MarkedTogether, CallOk, CallPassed,
          CallWorks, WaveRuns, ReadyHolds, EntryOk, Complete, Broken, Settled, Entry, Repos,
          RunCustom
  <1> QED
    BY <1>1, <1>2, <1>3, <1>4, <1>5 DEF CompositeInv

LEMMA MaterializeFailsKeeps == ASSUME CompositeInv, MaterializeFails PROVE CompositeInv'
  <1>1. FileOk' /\ MarkedTogether'
    BY CompositeAssumption DEF CompositeInv, FileOk, MarkedTogether, CallPassed, CallWorks,
          WaveRuns, CallOk, EntryOk, Complete, Broken, Settled, Entry, Repos, MaterializeFails,
          Stop, Resting
  <1>2. CallOk'
    BY CompositeAssumption DEF CompositeInv, CallOk, EntryOk, Complete, Broken, Settled, Entry,
          Repos, MaterializeFails, Stop, Resting
  <1>3. CallPassed'
    BY CompositeAssumption DEF CompositeInv, FileOk, MarkedTogether, CallOk, CallPassed,
          CallWorks, WaveRuns, EntryOk, Complete, Broken, Settled, Entry, Repos, MaterializeFails,
          Stop, Resting
  <1>4. CallWorks' /\ WaveRuns'
    BY CompositeAssumption DEF CompositeInv, FileOk, CallOk, CallPassed, CallWorks, WaveRuns,
          EntryOk, Complete, Broken, Settled, Entry, Repos, MaterializeFails, Stop, Resting
  <1>5. ReadyHolds'
    BY CompositeAssumption DEF CompositeInv, FileOk, MarkedTogether, CallOk, CallPassed,
          CallWorks, WaveRuns, ReadyHolds, EntryOk, Complete, Broken, Settled, Entry, Repos,
          MaterializeFails, Stop, Resting
  <1> QED
    BY <1>1, <1>2, <1>3, <1>4, <1>5 DEF CompositeInv

LEMMA StartWaveKeeps == ASSUME CompositeInv, StartWave PROVE CompositeInv'
  <1>1. FileOk' /\ MarkedTogether'
    BY CompositeAssumption DEF CompositeInv, FileOk, MarkedTogether, CallPassed, CallWorks,
          WaveRuns, CallOk, EntryOk, Complete, Broken, Settled, Entry, Repos, StartWave, Resting
  <1>2. CallOk'
    BY CompositeAssumption DEF CompositeInv, CallOk, EntryOk, Complete, Broken, Settled, Entry,
          Repos, StartWave, Resting
  <1>3. CallPassed'
    BY CompositeAssumption DEF CompositeInv, FileOk, MarkedTogether, CallOk, CallPassed,
          CallWorks, WaveRuns, EntryOk, Complete, Broken, Settled, Entry, Repos, StartWave,
          Resting
  <1>4. CallWorks' /\ WaveRuns'
    BY CompositeAssumption DEF CompositeInv, FileOk, CallOk, CallPassed, CallWorks, WaveRuns,
          EntryOk, Complete, Broken, Settled, Entry, Repos, StartWave, Resting
  <1>5. ReadyHolds'
    BY CompositeAssumption DEF CompositeInv, FileOk, MarkedTogether, CallOk, CallPassed,
          CallWorks, WaveRuns, ReadyHolds, EntryOk, Complete, Broken, Settled, Entry, Repos,
          StartWave, Resting
  <1> QED
    BY <1>1, <1>2, <1>3, <1>4, <1>5 DEF CompositeInv

LEMMA SetupCommandEndsKeeps ==
  ASSUME CompositeInv, NEW r \in Repos, NEW outcome \in {"succeeded", "failed", "timed-out"}, SetupCommandEnds(r, outcome)
  PROVE  CompositeInv'
  <1>1. FileOk' /\ MarkedTogether'
    BY CompositeAssumption DEF CompositeInv, FileOk, MarkedTogether, CallPassed, CallWorks,
          WaveRuns, CallOk, EntryOk, Complete, Broken, Settled, Entry, Repos, SetupCommandEnds
  <1>2. CallOk'
    BY CompositeAssumption DEF CompositeInv, CallOk, EntryOk, Complete, Broken, Settled, Entry,
          Repos, SetupCommandEnds
  <1>3. CallPassed'
    BY CompositeAssumption DEF CompositeInv, FileOk, MarkedTogether, CallOk, CallPassed,
          CallWorks, WaveRuns, EntryOk, Complete, Broken, Settled, Entry, Repos, SetupCommandEnds
  <1>4. CallWorks' /\ WaveRuns'
    BY CompositeAssumption DEF CompositeInv, FileOk, CallOk, CallPassed, CallWorks, WaveRuns,
          EntryOk, Complete, Broken, Settled, Entry, Repos, SetupCommandEnds
  <1>5. ReadyHolds'
    BY CompositeAssumption DEF CompositeInv, FileOk, MarkedTogether, CallOk, CallPassed,
          CallWorks, WaveRuns, ReadyHolds, EntryOk, Complete, Broken, Settled, Entry, Repos,
          SetupCommandEnds
  <1> QED
    BY <1>1, <1>2, <1>3, <1>4, <1>5 DEF CompositeInv

LEMMA FinishCompositeKeeps ==
  ASSUME CompositeInv, NEW instructions, FinishComposite(instructions)
  PROVE  CompositeInv'
  <1>1. FileOk' /\ MarkedTogether'
    BY CompositeAssumption DEF CompositeInv, FileOk, MarkedTogether, CallPassed, CallWorks,
          WaveRuns, CallOk, EntryOk, Complete, Broken, Settled, Entry, Repos, FinishComposite,
          Stop, Resting, Pending
  <1>2. CallOk'
    BY CompositeAssumption DEF CompositeInv, CallOk, EntryOk, Complete, Broken, Settled, Entry,
          Repos, FinishComposite, Stop, Resting, Pending
  <1>3. CallPassed'
    BY CompositeAssumption DEF CompositeInv, FileOk, MarkedTogether, CallOk, CallPassed,
          CallWorks, WaveRuns, EntryOk, Complete, Broken, Settled, Entry, Repos, FinishComposite,
          Stop, Resting, Pending
  <1>4. CallWorks' /\ WaveRuns'
    BY CompositeAssumption DEF CompositeInv, FileOk, CallOk, CallPassed, CallWorks, WaveRuns,
          EntryOk, Complete, Broken, Settled, Entry, Repos, FinishComposite, Stop, Resting,
          Pending
  <1>5. ReadyHolds'
    BY CompositeAssumption DEF CompositeInv, FileOk, MarkedTogether, CallOk, CallPassed,
          CallWorks, WaveRuns, ReadyHolds, EntryOk, Complete, Broken, Settled, Entry, Repos,
          FinishComposite, Stop, Resting, Pending
  <1> QED
    BY <1>1, <1>2, <1>3, <1>4, <1>5 DEF CompositeInv

LEMMA CheckoutMovesKeeps ==
  ASSUME CompositeInv, NEW r \in Repos, CheckoutMoves(r)
  PROVE  CompositeInv'
  <1>1. FileOk' /\ MarkedTogether'
    BY CompositeAssumption DEF CompositeInv, FileOk, MarkedTogether, CallPassed, CallWorks,
          WaveRuns, CallOk, EntryOk, Complete, Broken, Settled, Entry, Repos, CheckoutMoves
  <1>2. CallOk'
    BY CompositeAssumption DEF CompositeInv, CallOk, EntryOk, Complete, Broken, Settled, Entry,
          Repos, CheckoutMoves
  <1>3. CallPassed'
    BY CompositeAssumption DEF CompositeInv, FileOk, MarkedTogether, CallOk, CallPassed,
          CallWorks, WaveRuns, EntryOk, Complete, Broken, Settled, Entry, Repos, CheckoutMoves
  <1>4. CallWorks' /\ WaveRuns'
    BY CompositeAssumption DEF CompositeInv, FileOk, CallOk, CallPassed, CallWorks, WaveRuns,
          EntryOk, Complete, Broken, Settled, Entry, Repos, CheckoutMoves
  <1>5. ReadyHolds'
    BY CompositeAssumption DEF CompositeInv, FileOk, MarkedTogether, CallOk, CallPassed,
          CallWorks, WaveRuns, ReadyHolds, EntryOk, Complete, Broken, Settled, Entry, Repos,
          CheckoutMoves
  <1> QED
    BY <1>1, <1>2, <1>3, <1>4, <1>5 DEF CompositeInv

LEMMA CompositeDiesKeeps == ASSUME CompositeInv, CompositeDies PROVE CompositeInv'
  <1>1. FileOk' /\ MarkedTogether'
    BY CompositeAssumption DEF CompositeInv, FileOk, MarkedTogether, CallPassed, CallWorks,
          WaveRuns, CallOk, EntryOk, Complete, Broken, Settled, Entry, Repos, CompositeDies, Stop,
          Resting
  <1>2. CallOk'
    BY CompositeAssumption DEF CompositeInv, CallOk, EntryOk, Complete, Broken, Settled, Entry,
          Repos, CompositeDies, Stop, Resting
  <1>3. CallPassed'
    BY CompositeAssumption DEF CompositeInv, FileOk, MarkedTogether, CallOk, CallPassed,
          CallWorks, WaveRuns, EntryOk, Complete, Broken, Settled, Entry, Repos, CompositeDies,
          Stop, Resting
  <1>4. CallWorks' /\ WaveRuns'
    BY CompositeAssumption DEF CompositeInv, FileOk, CallOk, CallPassed, CallWorks, WaveRuns,
          EntryOk, Complete, Broken, Settled, Entry, Repos, CompositeDies, Stop, Resting
  <1>5. ReadyHolds'
    BY CompositeAssumption DEF CompositeInv, FileOk, MarkedTogether, CallOk, CallPassed,
          CallWorks, WaveRuns, ReadyHolds, EntryOk, Complete, Broken, Settled, Entry, Repos,
          CompositeDies, Stop, Resting
  <1> QED
    BY <1>1, <1>2, <1>3, <1>4, <1>5 DEF CompositeInv

LEMMA OrphanEndsKeeps ==
  ASSUME CompositeInv, NEW c, OrphanEnds(c)
  PROVE  CompositeInv'
  <1>1. FileOk' /\ MarkedTogether'
    BY CompositeAssumption DEF CompositeInv, FileOk, MarkedTogether, CallPassed, CallWorks,
          WaveRuns, CallOk, EntryOk, Complete, Broken, Settled, Entry, Repos, OrphanEnds
  <1>2. CallOk'
    BY CompositeAssumption DEF CompositeInv, CallOk, EntryOk, Complete, Broken, Settled, Entry,
          Repos, OrphanEnds
  <1>3. CallPassed'
    BY CompositeAssumption DEF CompositeInv, FileOk, MarkedTogether, CallOk, CallPassed,
          CallWorks, WaveRuns, EntryOk, Complete, Broken, Settled, Entry, Repos, OrphanEnds
  <1>4. CallWorks' /\ WaveRuns'
    BY CompositeAssumption DEF CompositeInv, FileOk, CallOk, CallPassed, CallWorks, WaveRuns,
          EntryOk, Complete, Broken, Settled, Entry, Repos, OrphanEnds
  <1>5. ReadyHolds'
    BY CompositeAssumption DEF CompositeInv, FileOk, MarkedTogether, CallOk, CallPassed,
          CallWorks, WaveRuns, ReadyHolds, EntryOk, Complete, Broken, Settled, Entry, Repos,
          OrphanEnds
  <1> QED
    BY <1>1, <1>2, <1>3, <1>4, <1>5 DEF CompositeInv

-----------------------------------------------------------------------------
(* A walk over the repositories of a variant misses none.                  *)

LEMMA FromIsNext ==
  ASSUME NEW v, Reads[v] \subseteq Repos, NEW k \in Nat, k >= 1, k <= NRepos + 1
  PROVE  /\ From(v, k) \in Nat /\ From(v, k) >= k
         /\ \A q \in Reads[v] : q >= k => q >= From(v, k)
  <1> DEFINE T == {r \in k..(NRepos + 1) : r \in Reads[v] \cup {NRepos + 1}}
             P(r) == r \in Reads[v] \cup {NRepos + 1} /\ \A q \in Reads[v] : q >= k => q >= r
  <1>1. T \subseteq Nat /\ T # {}
    <2>1. NRepos + 1 \in T
      BY CompositeAssumption
    <2> QED
      BY <2>1
  <1>2. PICK x \in T : \A y \in T : ~(<<y, x>> \in OpToRel(<, Nat))
    <2> HIDE DEF T
    <2> DEFINE R == OpToRel(<, Nat)
    <2>1. IsWellFoundedOn(R, Nat)
      BY NatLessThanWellFounded
    <2> HIDE DEF R
    <2>2. \E x \in T : \A y \in T : ~(<<y, x>> \in R)
      BY <1>1, <2>1, WFMin
    <2> QED
      BY <2>2 DEF R
  <1>3. \A y \in T : ~(y < x)
    BY <1>1, <1>2 DEF OpToRel
  <1>4. x \in k..(NRepos + 1) /\ P(x)
    <2>1. ASSUME NEW q \in Reads[v], q >= k PROVE q >= x
      <3>1. q \in T
        BY <2>1, CompositeAssumption DEF Repos
      <3> QED
        BY <1>1, <1>3, <3>1
    <2> QED
      BY <2>1
  <1>5. From(v, k) = CHOOSE r \in k..(NRepos + 1) : P(r)
    BY DEF From
  <1>6. From(v, k) \in k..(NRepos + 1) /\ P(From(v, k))
    <2> HIDE DEF P
    <2> QED
      BY <1>4, <1>5
  <1> QED
    BY <1>6, CompositeAssumption

(* A new walk has passed nothing yet. *)
LEMMA StartsIs ==
  ASSUME NEW v, TaskRevisionValid(v), NEW pc
  PROVE  LET c == Starts(v, pc)
         IN /\ DOMAIN c = {"pc", "next", "swapped"} /\ c.pc = pc
            /\ c.next \in Nat /\ c.next >= 1 /\ \A q \in Reads[v] : ~(q < c.next)
  <1>1. Reads[v] \subseteq Repos /\ 1 <= NRepos + 1
    BY CompositeAssumption DEF TaskRevisionValid
  <1>2. From(v, 1) \in Nat /\ From(v, 1) >= 1 /\ \A q \in Reads[v] : q >= 1 => q >= From(v, 1)
    BY <1>1, FromIsNext
  <1> QED
    BY <1>1, <1>2 DEF Starts, NoCall, Repos

(* A walk that goes on has passed one repository more. *)
LEMMA ContinuesIs ==
  ASSUME NEW v, TaskRevisionValid(v), vcall[v].next \in Nat, vcall[v].next >= 1,
         vcall[v].next <= NRepos, DOMAIN vcall[v] = {"pc", "next", "swapped"}
  PROVE  LET c == Continues(v)
         IN /\ DOMAIN c = {"pc", "next", "swapped"} /\ c.pc = vcall[v].pc
            /\ c.next \in Nat /\ c.next >= 1
            /\ \A q \in Reads[v] : q < c.next => q < vcall[v].next \/ q = vcall[v].next
  <1> DEFINE k == vcall[v].next + 1
  <1>1. Reads[v] \subseteq Repos /\ k \in Nat /\ k >= 1 /\ k <= NRepos + 1
    BY CompositeAssumption DEF TaskRevisionValid
  <1>2. From(v, k) \in Nat /\ From(v, k) >= k /\ \A q \in Reads[v] : q >= k => q >= From(v, k)
    <2> HIDE DEF k
    <2> QED
      BY <1>1, FromIsNext
  <1>3. Continues(v) = [vcall[v] EXCEPT !.next = From(v, k)]
    BY DEF Continues
  <1>4. \A q \in Reads[v] : q < From(v, k) => q < vcall[v].next \/ q = vcall[v].next
    BY <1>1, <1>2 DEF Repos
  <1> HIDE DEF k
  <1>5. From(v, k) >= 1
    BY <1>1, <1>2
  <1> QED
    BY <1>2, <1>3, <1>4, <1>5

LEMMA VariantInitI == VariantInit => VariantInv
  BY DEF VariantInit, VariantInv, RowsOk, RowsShaped, WalkOk, BoundHasCheckouts, CandidateOk,
     PublishOk,
         Walks, NoVariant, NoCall, Base

-----------------------------------------------------------------------------
(* The variants: every step moves the rows of one.                         *)

(* The step leaves manifest m and call c of v, and the other variants alone. *)
MovesTo(v, m, c) ==
  /\ DOMAIN variant' = Variants /\ DOMAIN vcall' = Variants
  /\ variant'[v] = m /\ vcall'[v] = c
  /\ \A u \in Variants \ {v} : variant'[u] = variant[u] /\ vcall'[u] = vcall[u]

LEMMA Moves ==
  ASSUME VariantInv, NEW v \in Variants, NEW m, NEW c,
         Write(v, m) \/ (UNCHANGED variant /\ m = variant[v]),
         Goes(v, c) \/ (UNCHANGED vcall /\ c = vcall[v])
  PROVE  MovesTo(v, m, c)
  BY DEF MovesTo, Write, Goes, VariantInv

TargetsGrow == DOMAIN target' = Repos /\ \A r \in Repos : target[r] \subseteq target'[r]

LEMMA GrownIsOk ==
  ASSUME NEW v, NEW m, NEW c, NEW b, RowsOk(v, m, c, b, target), TargetsGrow
  PROVE  RowsOk(v, m, c, b, target')
  <1>1. \A r \in Repos : Installed(m, target, r) => Installed(m, target', r)
    BY DEF Installed, TargetsGrow
  <1>2. m.lifecycle = "none" \/ Writes[v] \subseteq Repos
    BY DEF RowsOk, WalkOk, TaskRevisionValid
  <1>3. PublishOk(v, m, c, target')
    BY <1>1, <1>2 DEF RowsOk, PublishOk, WalkOk
  <1> QED
    BY <1>3 DEF RowsOk

(* A step keeps the invariant when the rows it leaves are right: what the      *)
(* other variants installed stays, because the targets only grow.             *)
LEMMA MoveKeeps ==
  ASSUME VariantInv, NEW v \in Variants, NEW m, NEW c, MovesTo(v, m, c), TargetsGrow,
         DOMAIN bound' = Variants, \A u \in Variants \ {v} : bound'[u] = bound[u],
         RowsOk(v, m, c, bound'[v], target')
  PROVE  VariantInv'
  <1>1. ASSUME NEW u \in Variants \ {v}
        PROVE  RowsOk(u, variant'[u], vcall'[u], bound'[u], target')
    BY <1>1, GrownIsOk DEF VariantInv, MovesTo
  <1>2. \A r \in Repos : Base \subseteq target'[r]
    BY DEF VariantInv, TargetsGrow
  <1> QED
    BY <1>1, <1>2 DEF VariantInv, MovesTo, TargetsGrow

LEMMA QuietMoveKeeps ==
  ASSUME VariantInv, NEW v \in Variants, NEW m, NEW c, MovesTo(v, m, c),
         UNCHANGED <<target, bound>>, RowsOk(v, m, c, bound[v], target)
  PROVE  VariantInv'
  BY MoveKeeps DEF VariantInv, TargetsGrow

LEMMA ProvisionVariantKeeps ==
  ASSUME VariantInv, NEW v \in Variants, ProvisionVariant(v)
  PROVE  VariantInv'
  <1> DEFINE m == [NoVariant EXCEPT !.lifecycle = "provisioning"]
             c == Starts(v, "checkout")
  <1>1. MovesTo(v, m, c)
    BY Moves DEF ProvisionVariant
  <1>2. TaskRevisionValid(v) /\ UNCHANGED <<target, bound>> /\ variant[v] = NoVariant
    BY DEF ProvisionVariant
  <1>3. bound[v] = 0
    BY <1>2 DEF VariantInv, RowsOk, WalkOk, NoVariant
  <1>4. RowsOk(v, m, c, bound[v], target)
    BY <1>2, <1>3, StartsIs
    DEF RowsOk, RowsShaped, WalkOk, BoundHasCheckouts, CandidateOk, PublishOk, Walks, NoVariant
  <1> QED
    BY <1>1, <1>2, <1>4, QuietMoveKeeps

LEMMA CheckoutVariantKeeps ==
  ASSUME VariantInv, NEW v \in Variants, CheckoutVariant(v)
  PROVE  VariantInv'
  <1> DEFINE r == vcall[v].next
             m == [variant[v] EXCEPT !.repos = @ \cup {r}, !.phase[r] = "ready"]
             c == Continues(v)
  <1>1. MovesTo(v, m, c) /\ UNCHANGED <<target, bound>>
    BY Moves DEF CheckoutVariant
  <1>2. RowsOk(v, variant[v], vcall[v], bound[v], target) /\ vcall[v].pc = "checkout" /\ r <= NRepos
    BY DEF CheckoutVariant, VariantInv
  <1>3. /\ TaskRevisionValid(v) /\ c.pc = "checkout" /\ DOMAIN c = {"pc", "next", "swapped"}
        /\ c.next \in Nat /\ c.next >= 1 /\ \A q \in Reads[v] : q < c.next => q < r \/ q = r
    BY <1>2, ContinuesIs DEF RowsOk, RowsShaped, WalkOk, BoundHasCheckouts, Walks
  <1>4. /\ m.lifecycle = variant[v].lifecycle /\ m.candidate = variant[v].candidate
        /\ m.repos = variant[v].repos \cup {r} /\ RowsShaped(m, c)
    BY <1>2, <1>3 DEF RowsOk, RowsShaped
  <1> HIDE DEF m, c
  <1>5. RowsOk(v, m, c, bound[v], target)
    BY <1>2, <1>3, <1>4
    DEF RowsOk, WalkOk, BoundHasCheckouts, CandidateOk, PublishOk, Installed, Walks
  <1> QED
    BY <1>1, <1>5, QuietMoveKeeps

LEMMA VariantReadyKeeps ==
  ASSUME VariantInv, NEW v \in Variants, VariantReady(v)
  PROVE  VariantInv'
  <1> DEFINE m == [variant[v] EXCEPT !.lifecycle = "ready"]
             c == [NoCall EXCEPT !.pc = "bind"]
  <1>1. MovesTo(v, m, c) /\ UNCHANGED <<target, bound>>
    BY Moves DEF VariantReady
  <1>2. /\ RowsOk(v, variant[v], vcall[v], bound[v], target)
        /\ vcall[v].pc = "checkout" /\ vcall[v].next > NRepos
    BY DEF VariantReady, VariantInv
  <1>3. /\ m.lifecycle = "ready" /\ m.candidate = variant[v].candidate /\ m.repos = variant[v].repos
        /\ RowsShaped(m, c) /\ c.pc = "bind"
    BY <1>2 DEF RowsOk, RowsShaped, NoCall
  <1>4. TaskRevisionValid(v) /\ vcall[v].next \in Nat
    BY <1>2 DEF RowsOk, WalkOk, Walks
  <1>5. Reads[v] \subseteq variant[v].repos
    BY <1>2, <1>4, CompositeAssumption DEF RowsOk, BoundHasCheckouts, TaskRevisionValid, Repos
  <1> HIDE DEF m, c
  <1>6. RowsOk(v, m, c, bound[v], target)
    BY <1>2, <1>3, <1>4, <1>5
    DEF RowsOk, WalkOk, BoundHasCheckouts, CandidateOk, PublishOk, Walks
  <1> QED
    BY <1>1, <1>6, QuietMoveKeeps

(* A call that ends leaves no walk. *)
LEMMA QuitIsOk ==
  ASSUME NEW v, NEW m, NEW c, NEW b, RowsOk(v, m, c, b, target)
  PROVE  RowsOk(v, m, NoCall, b, target)
  BY DEF RowsOk, RowsShaped, WalkOk, BoundHasCheckouts, PublishOk, Walks, NoCall

LEMMA ProvisionVariantFailsKeeps ==
  ASSUME VariantInv, NEW v \in Variants, ProvisionVariantFails(v)
  PROVE  VariantInv'
  <1>1. MovesTo(v, variant[v], NoCall) /\ UNCHANGED <<target, bound>>
    BY Moves DEF ProvisionVariantFails, Quits
  <1>2. RowsOk(v, variant[v], NoCall, bound[v], target)
    BY QuitIsOk DEF VariantInv
  <1> QED
    BY <1>1, <1>2, QuietMoveKeeps

LEMMA BindTaskKeeps ==
  ASSUME VariantInv, NEW v \in Variants, BindTask(v)
  PROVE  VariantInv'
  <1>1. MovesTo(v, variant[v], NoCall) /\ UNCHANGED target
    BY Moves DEF BindTask, Quits
  <1>2. /\ DOMAIN bound' = Variants /\ \A u \in Variants \ {v} : bound'[u] = bound[u]
        /\ vcall[v].pc = "bind"
    BY DEF BindTask, VariantInv
  <1>3. RowsOk(v, variant[v], NoCall, bound'[v], target)
    BY <1>2 DEF VariantInv, RowsOk, RowsShaped, WalkOk, BoundHasCheckouts, PublishOk, Walks,
       NoCall
  <1>4. TargetsGrow /\ target' = target
    BY <1>1 DEF TargetsGrow, VariantInv
  <1> QED
    BY <1>1, <1>2, <1>3, <1>4, MoveKeeps

(* A publication that starts has nothing behind it. *)
LEMMA StartIsOk ==
  ASSUME NEW v, NEW m, NEW c, NEW b, RowsOk(v, m, c, b, target), b # 0,
         NEW pc \in {"prepare", "publish"}, pc = "prepare" => m.lifecycle # "integrated"
  PROVE  RowsOk(v, m, Starts(v, pc), b, target)
  <1>1. TaskRevisionValid(v) /\ Writes[v] \subseteq Reads[v]
    BY DEF RowsOk, WalkOk, TaskRevisionValid
  <1>2. /\ DOMAIN Starts(v, pc) = {"pc", "next", "swapped"} /\ Starts(v, pc).pc = pc
        /\ Starts(v, pc).next \in Nat /\ Starts(v, pc).next >= 1
        /\ \A q \in Reads[v] : ~(q < Starts(v, pc).next)
    BY <1>1, StartsIs
  <1> QED
    BY <1>1, <1>2 DEF RowsOk, RowsShaped, WalkOk, BoundHasCheckouts, PublishOk

LEMMA PrepareBeginsKeeps ==
  ASSUME VariantInv, NEW v \in Variants, PrepareBegins(v)
  PROVE  VariantInv'
  <1>1. PICK pc \in {"prepare", "publish"} :
          Goes(v, Starts(v, pc)) /\ (pc = "prepare" => variant[v].lifecycle # "integrated")
    BY DEF PrepareBegins
  <1>2. MovesTo(v, variant[v], Starts(v, pc)) /\ UNCHANGED <<target, bound>> /\ bound[v] # 0
    BY <1>1, Moves DEF PrepareBegins
  <1>3. RowsOk(v, variant[v], Starts(v, pc), bound[v], target)
    BY <1>1, <1>2, StartIsOk DEF VariantInv
  <1> QED
    BY <1>2, <1>3, QuietMoveKeeps

(* While it prepares, a variant is not integrated: what it records then cannot *)
(* contradict a report.                                                        *)
LEMMA PreparingIsOk ==
  ASSUME NEW v, NEW m, NEW c, NEW b, NEW n, RowsOk(v, m, c, b, target), c.pc = "prepare",
         DOMAIN n = DOMAIN m, DOMAIN n.candidate = Repos, DOMAIN n.phase = Repos,
         n.repos = m.repos, n.lifecycle \notin {"none", "integrated"}, CandidateOk(n)
  PROVE  RowsOk(v, n, c, b, target)
  BY DEF RowsOk, RowsShaped, WalkOk, BoundHasCheckouts, PublishOk, Walks

LEMMA PrepareRepositoryKeeps ==
  ASSUME VariantInv, NEW v \in Variants, PrepareRepository(v)
  PROVE  VariantInv'
  <1> DEFINE r == vcall[v].next
             m == variant[v]
             stopped(phase) == [m EXCEPT !.lifecycle = "conflict", !.phase[r] = phase]
             recorded == [m EXCEPT !.candidate[r] = Candidate(head[v][r], Base),
                                   !.phase[r] = IF head[v][r] \subseteq Base
                                                THEN "already-applied" ELSE "prepared"]
  <1>1. /\ RowsOk(v, m, vcall[v], bound[v], target) /\ vcall[v].pc = "prepare" /\ r <= NRepos
        /\ UNCHANGED <<target, bound>>
    BY DEF PrepareRepository, VariantInv
  <1>2. /\ r \in Repos /\ bound[v] # 0 /\ m.lifecycle \notin {"none", "integrated"}
        /\ TaskRevisionValid(v)
    BY <1>1, CompositeAssumption DEF RowsOk, WalkOk, BoundHasCheckouts, Walks, Repos
  <1>3. ASSUME NEW n, RowsOk(v, n, vcall[v], bound[v], target)
        PROVE  RowsOk(v, n, Continues(v), bound[v], target)
    <2>1. /\ DOMAIN Continues(v) = {"pc", "next", "swapped"} /\ Continues(v).pc = "prepare"
          /\ Continues(v).next \in Nat /\ Continues(v).next >= 1
      BY <1>1, <1>2, ContinuesIs DEF RowsOk, RowsShaped, WalkOk, Walks
    <2> QED
      BY <1>1, <1>3, <2>1 DEF RowsOk, RowsShaped, WalkOk, BoundHasCheckouts, PublishOk, Walks
  <1>4. ASSUME NEW phase PROVE RowsOk(v, stopped(phase), vcall[v], bound[v], target)
    <2>1. /\ DOMAIN stopped(phase) = DOMAIN m /\ DOMAIN stopped(phase).candidate = Repos
          /\ DOMAIN stopped(phase).phase = Repos /\ stopped(phase).repos = m.repos
          /\ stopped(phase).lifecycle = "conflict" /\ CandidateOk(stopped(phase))
      BY <1>1, <1>2 DEF RowsOk, RowsShaped, CandidateOk
    <2> HIDE DEF m, stopped
    <2> QED
      BY <1>1, <2>1, PreparingIsOk
  <1>5. RowsOk(v, recorded, vcall[v], bound[v], target)
    <2>1. Base \subseteq Candidate(head[v][r], Base)
      BY DEF Candidate
    <2>2. /\ DOMAIN recorded = DOMAIN m /\ DOMAIN recorded.candidate = Repos
          /\ DOMAIN recorded.phase = Repos /\ recorded.repos = m.repos
          /\ recorded.lifecycle = m.lifecycle /\ CandidateOk(recorded)
      BY <1>1, <1>2, <2>1 DEF RowsOk, RowsShaped, CandidateOk
    <2> HIDE DEF m, recorded
    <2> QED
      BY <1>1, <1>2, <2>2, PreparingIsOk
  <1>6. CASE UNCHANGED variant /\ (Quits(v) \/ Goes(v, Continues(v)))
    <2>1. MovesTo(v, m, NoCall) \/ MovesTo(v, m, Continues(v))
      BY <1>6, Moves DEF Quits
    <2>2. RowsOk(v, m, NoCall, bound[v], target) /\ RowsOk(v, m, Continues(v), bound[v], target)
      BY <1>1, <1>3, QuitIsOk
    <2> QED
      BY <1>1, <2>1, <2>2, QuietMoveKeeps
  <1>7. ASSUME NEW phase, Write(v, stopped(phase)), Goes(v, Starts(v, "publish")) PROVE VariantInv'
    <2>1. MovesTo(v, stopped(phase), Starts(v, "publish"))
      <3> HIDE DEF stopped
      <3> QED
        BY <1>7, Moves
    <2>2. RowsOk(v, stopped(phase), Starts(v, "publish"), bound[v], target)
      <3> HIDE DEF stopped
      <3> QED
        BY <1>2, <1>4, StartIsOk
    <2> HIDE DEF stopped
    <2> QED
      BY <1>1, <2>1, <2>2, QuietMoveKeeps
  <1>8. CASE Write(v, recorded) /\ Goes(v, Continues(v))
    <2> HIDE DEF recorded
    <2>1. MovesTo(v, recorded, Continues(v))
      BY <1>8, Moves
    <2>2. RowsOk(v, recorded, Continues(v), bound[v], target)
      BY <1>3, <1>5
    <2> QED
      BY <1>1, <2>1, <2>2, QuietMoveKeeps
  <1> QED
    BY <1>6, <1>7, <1>8 DEF PrepareRepository

LEMMA PrepareEndsKeeps ==
  ASSUME VariantInv, NEW v \in Variants, PrepareEnds(v)
  PROVE  VariantInv'
  <1> DEFINE m == [variant[v] EXCEPT !.lifecycle = "prepared"]
  <1>1. /\ RowsOk(v, variant[v], vcall[v], bound[v], target) /\ vcall[v].pc = "prepare"
        /\ UNCHANGED <<target, bound>>
    BY DEF PrepareEnds, VariantInv
  <1>2. RowsOk(v, m, vcall[v], bound[v], target) /\ bound[v] # 0
    <2>1. /\ DOMAIN m = DOMAIN variant[v] /\ m.candidate = variant[v].candidate
          /\ m.phase = variant[v].phase /\ m.repos = variant[v].repos /\ m.lifecycle = "prepared"
      BY <1>1 DEF RowsOk, RowsShaped
    <2> HIDE DEF m
    <2>2. /\ DOMAIN m.candidate = Repos /\ DOMAIN m.phase = Repos /\ CandidateOk(m) /\ bound[v] # 0
      BY <1>1, <2>1 DEF RowsOk, RowsShaped, CandidateOk, BoundHasCheckouts, Walks
    <2> QED
      BY <1>1, <2>1, <2>2, PreparingIsOk
  <1>3. Write(v, m) /\ (Goes(v, NoCall) \/ Goes(v, Starts(v, "publish")))
    BY DEF PrepareEnds, Goes
  <1> HIDE DEF m
  <1>4. MovesTo(v, m, NoCall) \/ MovesTo(v, m, Starts(v, "publish"))
    BY <1>3, Moves
  <1>5. RowsOk(v, m, NoCall, bound[v], target) /\ RowsOk(v, m, Starts(v, "publish"), bound[v], target)
    BY <1>2, QuitIsOk, StartIsOk
  <1> QED
    BY <1>1, <1>4, <1>5, QuietMoveKeeps

(* A publication that stops records something else than integrated. *)
LEMMA StoppedIsOk ==
  ASSUME NEW v, NEW m, NEW c, NEW b, NEW n, RowsOk(v, m, c, b, target),
         DOMAIN n = DOMAIN m, n.candidate = m.candidate, DOMAIN n.phase = Repos,
         n.repos = m.repos, n.lifecycle \in {"conflict", "partial-progress"}, b # 0
  PROVE  RowsOk(v, n, NoCall, b, target)
  BY DEF RowsOk, RowsShaped, WalkOk, BoundHasCheckouts, PublishOk, CandidateOk, Walks, NoCall

(* A publication goes on behind a repository that is installed, or that the    *)
(* variant does not write.                                                     *)
LEMMA PassedIsOk ==
  ASSUME NEW v, NEW n, NEW c, NEW d, NEW b, NEW tg, RowsOk(v, n, c, b, tg),
         c.pc \in {"publish", "swapped"}, b # 0, d.pc = "publish",
         DOMAIN d = {"pc", "next", "swapped"}, d.next \in Nat, d.next >= 1,
         \A q \in Reads[v] : q < d.next => q < c.next \/ q = c.next,
         c.next \in Writes[v] => Installed(n, tg, c.next)
  PROVE  RowsOk(v, n, d, b, tg)
  <1>1. Writes[v] \subseteq Reads[v]
    BY DEF RowsOk, WalkOk, TaskRevisionValid
  <1> QED
    BY <1>1 DEF RowsOk, RowsShaped, WalkOk, BoundHasCheckouts, PublishOk, Walks

LEMMA PublishLooksKeeps ==
  ASSUME VariantInv, NEW v \in Variants, PublishLooks(v)
  PROVE  VariantInv'
  <1> DEFINE r == vcall[v].next
             m == variant[v]
             applied == [m EXCEPT !.phase[r] = "already-applied"]
             swapping == [vcall[v] EXCEPT !.pc = "swap"]
  <1>1. /\ RowsOk(v, m, vcall[v], bound[v], target) /\ vcall[v].pc = "publish" /\ r <= NRepos
        /\ UNCHANGED <<target, bound>>
    BY DEF PublishLooks, VariantInv
  <1>2. /\ r \in Repos /\ r \in Nat /\ r >= 1 /\ bound[v] # 0 /\ TaskRevisionValid(v)
        /\ Writes[v] \subseteq m.repos
    BY <1>1, CompositeAssumption
    DEF RowsOk, WalkOk, BoundHasCheckouts, Walks, Repos, TaskRevisionValid
  <1>3. /\ DOMAIN Continues(v) = {"pc", "next", "swapped"} /\ Continues(v).pc = "publish"
        /\ Continues(v).next \in Nat /\ Continues(v).next >= 1
        /\ \A q \in Reads[v] : q < Continues(v).next => q < r \/ q = r
    BY <1>1, <1>2, ContinuesIs DEF RowsOk, RowsShaped
  <1>4. CASE r \notin m.repos \cap Writes[v] /\ UNCHANGED variant /\ Goes(v, Continues(v))
    <2>1. MovesTo(v, m, Continues(v))
      BY <1>4, Moves
    <2>2. r \notin Writes[v]
      BY <1>2, <1>4
    <2>3. RowsOk(v, m, Continues(v), bound[v], target)
      BY <1>1, <1>2, <1>3, <2>2, PassedIsOk
    <2> QED
      BY <1>1, <2>1, <2>3, QuietMoveKeeps
  <1>5. ASSUME NEW n, Write(v, n), Quits(v), DOMAIN n = DOMAIN m, n.candidate = m.candidate,
               DOMAIN n.phase = Repos, n.repos = m.repos,
               n.lifecycle \in {"conflict", "partial-progress"}
        PROVE  VariantInv'
    <2>1. MovesTo(v, n, NoCall)
      BY <1>5, Moves DEF Quits
    <2>2. RowsOk(v, n, NoCall, bound[v], target)
      BY <1>1, <1>2, <1>5, StoppedIsOk
    <2> QED
      BY <1>1, <2>1, <2>2, QuietMoveKeeps
  <1>6. CASE /\ r \in Writes[v] /\ m.candidate[r] # {} /\ target[r] = m.candidate[r]
             /\ Write(v, applied) /\ Goes(v, Continues(v))
    <2>1. /\ DOMAIN applied = DOMAIN m /\ applied.candidate = m.candidate
          /\ DOMAIN applied.phase = Repos /\ applied.repos = m.repos
          /\ applied.lifecycle = m.lifecycle
      BY <1>1 DEF RowsOk, RowsShaped
    <2> HIDE DEF applied
    <2>2. RowsOk(v, applied, vcall[v], bound[v], target)
      BY <1>1, <2>1
      DEF RowsOk, RowsShaped, WalkOk, BoundHasCheckouts, CandidateOk, PublishOk, Installed
    <2>3. Installed(applied, target, r)
      BY <1>6, <2>1 DEF Installed
    <2>4. RowsOk(v, applied, Continues(v), bound[v], target)
      BY <1>1, <1>2, <1>3, <2>2, <2>3, PassedIsOk
    <2>5. MovesTo(v, applied, Continues(v))
      BY <1>6, Moves
    <2> QED
      BY <1>1, <2>4, <2>5, QuietMoveKeeps
  <1>7. CASE /\ r \in Writes[v] /\ m.candidate[r] # {}
             /\ UNCHANGED variant /\ Goes(v, swapping)
    <2>1. /\ DOMAIN swapping = {"pc", "next", "swapped"} /\ swapping.pc = "swap"
          /\ swapping.next = r
      BY <1>1 DEF RowsOk, RowsShaped
    <2> HIDE DEF swapping
    <2>2. RowsOk(v, m, swapping, bound[v], target)
      BY <1>1, <1>2, <1>7, <2>1
      DEF RowsOk, RowsShaped, WalkOk, BoundHasCheckouts, PublishOk, Walks
    <2>3. MovesTo(v, m, swapping)
      BY <1>7, Moves
    <2> QED
      BY <1>1, <2>2, <2>3, QuietMoveKeeps
  <1>8. CASE Write(v, [m EXCEPT !.lifecycle = "conflict"]) /\ Quits(v)
    BY <1>1, <1>5, <1>8 DEF RowsOk, RowsShaped
  <1>9. CASE Write(v, [m EXCEPT !.phase[r] = "stale", !.lifecycle = Stopped(v)]) /\ Quits(v)
    BY <1>1, <1>5, <1>9 DEF RowsOk, RowsShaped, Stopped
  <1> QED
    BY <1>4, <1>6, <1>7, <1>8, <1>9 DEF PublishLooks

LEMMA SwapRefKeeps ==
  ASSUME VariantInv, NEW v \in Variants, SwapRef(v)
  PROVE  VariantInv'
  <1> DEFINE r == vcall[v].next
             m == variant[v]
             c == [vcall[v] EXCEPT !.pc = "swapped", !.swapped = @ + 1]
             n == [m EXCEPT !.phase[r] = "stale", !.lifecycle = Stopped(v)]
  <1>1. /\ RowsOk(v, m, vcall[v], bound[v], target) /\ vcall[v].pc = "swap" /\ UNCHANGED bound
        /\ DOMAIN bound = Variants
    BY DEF SwapRef, VariantInv
  <1>2. /\ r \in Writes[v] /\ r \in Repos /\ m.candidate[r] # {} /\ Base \subseteq m.candidate[r]
        /\ bound[v] # 0 /\ DOMAIN target = Repos
    BY <1>1 DEF VariantInv, RowsOk, WalkOk, BoundHasCheckouts, CandidateOk, PublishOk, Walks,
                TaskRevisionValid
  <1>3. CASE /\ target[r] = Base /\ target' = [target EXCEPT ![r] = m.candidate[r]]
             /\ Goes(v, c) /\ UNCHANGED variant
    <2>1. TargetsGrow /\ target'[r] = m.candidate[r]
      BY <1>2, <1>3 DEF TargetsGrow
    <2>2. RowsOk(v, m, vcall[v], bound[v], target')
      BY <1>1, <2>1, GrownIsOk
    <2>3. DOMAIN c = {"pc", "next", "swapped"} /\ c.pc = "swapped" /\ c.next = r
      BY <1>1 DEF RowsOk, RowsShaped
    <2> HIDE DEF c
    <2>4. RowsOk(v, m, c, bound[v], target')
      BY <1>1, <1>2, <2>1, <2>2, <2>3
      DEF RowsOk, RowsShaped, WalkOk, BoundHasCheckouts, PublishOk, Installed, Walks
    <2>5. MovesTo(v, m, c)
      BY <1>3, Moves
    <2> QED
      BY <1>1, <2>1, <2>4, <2>5, MoveKeeps
  <1>4. CASE Write(v, n) /\ Quits(v) /\ UNCHANGED target
    <2>1. /\ DOMAIN n = DOMAIN m /\ n.candidate = m.candidate /\ DOMAIN n.phase = Repos
          /\ n.repos = m.repos /\ n.lifecycle \in {"conflict", "partial-progress"}
      BY <1>1 DEF RowsOk, RowsShaped, Stopped
    <2> HIDE DEF n
    <2>2. MovesTo(v, n, NoCall)
      BY <1>4, Moves DEF Quits
    <2>3. RowsOk(v, n, NoCall, bound[v], target)
      BY <1>1, <1>2, <2>1, StoppedIsOk
    <2> QED
      BY <1>1, <1>4, <2>2, <2>3, QuietMoveKeeps
  <1> QED
    BY <1>3, <1>4 DEF SwapRef

LEMMA RecordSwapKeeps ==
  ASSUME VariantInv, NEW v \in Variants, RecordSwap(v)
  PROVE  VariantInv'
  <1> DEFINE r == vcall[v].next
             m == variant[v]
             n == [m EXCEPT !.phase[r] = "integrated"]
             c == [Continues(v) EXCEPT !.pc = "publish"]
  <1>1. /\ RowsOk(v, m, vcall[v], bound[v], target) /\ vcall[v].pc = "swapped"
        /\ UNCHANGED <<target, bound>>
    BY DEF RecordSwap, VariantInv
  <1>2. /\ r \in Repos /\ r \in Nat /\ r >= 1 /\ r <= NRepos /\ bound[v] # 0 /\ TaskRevisionValid(v)
        /\ Installed(m, target, r)
    BY <1>1, CompositeAssumption
    DEF RowsOk, WalkOk, BoundHasCheckouts, PublishOk, Walks, Repos, TaskRevisionValid
  <1>3. /\ DOMAIN Continues(v) = {"pc", "next", "swapped"}
        /\ Continues(v).next \in Nat /\ Continues(v).next >= 1
        /\ \A q \in Reads[v] : q < Continues(v).next => q < r \/ q = r
    BY <1>1, <1>2, ContinuesIs DEF RowsOk, RowsShaped
  <1>4. DOMAIN c = {"pc", "next", "swapped"} /\ c.pc = "publish" /\ c.next = Continues(v).next
    BY <1>3
  <1>5. /\ DOMAIN n = DOMAIN m /\ n.candidate = m.candidate /\ DOMAIN n.phase = Repos
        /\ n.repos = m.repos /\ n.lifecycle = m.lifecycle
    BY <1>1 DEF RowsOk, RowsShaped
  <1>6. MovesTo(v, n, c)
    <2>1. Write(v, n) /\ Goes(v, c)
      BY DEF RecordSwap
    <2> HIDE DEF n, c
    <2> QED
      BY <2>1, Moves
  <1> HIDE DEF n, c
  <1>7. RowsOk(v, n, vcall[v], bound[v], target) /\ Installed(n, target, r)
    BY <1>1, <1>2, <1>5
    DEF RowsOk, RowsShaped, WalkOk, BoundHasCheckouts, CandidateOk, PublishOk, Installed
  <1>8. RowsOk(v, n, c, bound[v], target)
    BY <1>1, <1>2, <1>3, <1>4, <1>7, PassedIsOk
  <1> QED
    BY <1>1, <1>6, <1>8, QuietMoveKeeps

(* Behind the last repository every write target is installed. *)
LEMMA PublishEndsKeeps ==
  ASSUME VariantInv, NEW v \in Variants, PublishEnds(v)
  PROVE  VariantInv'
  <1> DEFINE m == variant[v]
             n == [m EXCEPT !.lifecycle = "integrated"]
  <1>1. /\ RowsOk(v, m, vcall[v], bound[v], target) /\ vcall[v].pc = "publish"
        /\ vcall[v].next > NRepos /\ UNCHANGED <<target, bound>>
    BY DEF PublishEnds, VariantInv
  <1>2. /\ TaskRevisionValid(v) /\ bound[v] # 0 /\ Reads[v] \subseteq m.repos
        /\ vcall[v].next \in Nat /\ Writes[v] \subseteq Repos
    BY <1>1 DEF RowsOk, WalkOk, BoundHasCheckouts, Walks, TaskRevisionValid
  <1>3. \A r \in Writes[v] : Installed(m, target, r)
    BY <1>1, <1>2, CompositeAssumption DEF RowsOk, PublishOk, Repos
  <1>4. /\ DOMAIN n = DOMAIN m /\ n.candidate = m.candidate /\ n.phase = m.phase
        /\ n.repos = m.repos /\ n.lifecycle = "integrated"
    BY <1>1 DEF RowsOk, RowsShaped
  <1>5. MovesTo(v, n, NoCall)
    <2>1. Write(v, n) /\ Goes(v, NoCall)
      BY DEF PublishEnds, Quits
    <2> HIDE DEF n
    <2> QED
      BY <2>1, Moves
  <1> HIDE DEF n
  <1>6. RowsOk(v, n, NoCall, bound[v], target)
    BY <1>1, <1>2, <1>3, <1>4
    DEF RowsOk, RowsShaped, WalkOk, BoundHasCheckouts, CandidateOk, PublishOk, Installed, Walks,
    NoCall
  <1> QED
    BY <1>1, <1>5, <1>6, QuietMoveKeeps

(* The other steps leave the manifests, the calls and the bindings alone. *)
LEMMA QuietKeeps ==
  ASSUME VariantInv, UNCHANGED <<variant, vcall, bound, target>>
  PROVE  VariantInv'
  BY DEF VariantInv

LEMMA SomebodyPushesKeeps ==
  ASSUME VariantInv, NEW r \in Repos, SomebodyPushes(r)
  PROVE  VariantInv'
  <1>1. TargetsGrow /\ UNCHANGED <<variant, vcall, bound>>
    BY DEF SomebodyPushes, VariantInv, TargetsGrow
  <1>2. \A v \in Variants : RowsOk(v, variant[v], vcall[v], bound[v], target')
    BY <1>1, GrownIsOk DEF VariantInv
  <1> QED
    BY <1>1, <1>2 DEF VariantInv, TargetsGrow

LEMMA VariantDiesKeeps ==
  ASSUME VariantInv, NEW v \in Variants, VariantDies(v)
  PROVE  VariantInv'
  <1>1. /\ DOMAIN vcall' = Variants /\ \A u \in Variants : vcall'[u] = NoCall
        /\ UNCHANGED <<variant, bound, target>>
    BY DEF VariantDies
  <1>2. \A u \in Variants : RowsOk(u, variant[u], NoCall, bound[u], target)
    BY QuitIsOk DEF VariantInv
  <1> QED
    BY <1>1, <1>2 DEF VariantInv

-----------------------------------------------------------------------------
LEMMA CompositeNextKeeps == ASSUME CompositeInv, [CompositeNext]_compositeVars PROVE CompositeInv'
  <1>1. CASE CompositeStep
    BY <1>1, CheckRecordedKeeps, StartMaterializingKeeps, AddManagedKeeps, AdoptCheckoutKeeps,
       RunCustomKeeps, ObserveCheckoutKeeps, MaterializeFailsKeeps, MarkWaveKeeps, StartWaveKeeps,
       RecordWaveKeeps, BlockRestKeeps, CustomEndsKeeps, SetupCommandEndsKeeps,
       FinishCompositeKeeps
    DEF CompositeStep
  <1>2. CASE UNCHANGED compositeVars
    BY <1>2 DEF compositeVars, CompositeInv, FileOk, MarkedTogether, CallOk, CallPassed,
       CallWorks,
                WaveRuns, ReadyHolds, Entry
  <1> QED
    BY <1>1, <1>2, CompositeBeginsKeeps, FailUncertainKeeps, RetryUncertainKeeps,
       CompositeDiesKeeps,
       CheckoutMovesKeeps, OrphanEndsKeeps DEF CompositeNext

LEMMA CompositeInvariant == CompositeSpec => []CompositeInv
  <1>1. CompositeInv /\ [CompositeNext]_compositeVars => CompositeInv'
    BY CompositeNextKeeps
  <1> QED
    BY CompositeInitI, <1>1, PTL DEF CompositeSpec

(* A composite workspace that is reported ready has a recorded checkout for    *)
(* every repository and a setup that succeeded wherever one is configured,      *)
(* whatever deaths, timeouts and recoveries lie behind it (provision, recover). *)
THEOREM ReadyComplete == CompositeSpec => []CompositeReadyIsComplete
  <1>1. CompositeInv => CompositeReadyIsComplete
    BY DEF CompositeInv, ReadyHolds, CompositeReadyIsComplete, Complete
  <1> QED
    BY CompositeInvariant, <1>1, PTL

LEMMA VariantStepKeeps == ASSUME VariantInv, NEW v \in Variants, VariantStep(v) PROVE VariantInv'
  <1>1. CASE CleanupVariant(v) \/ VerifyVariant(v) \/ LeasesLapse(v) \/ \E r \in Repos : AgentWrites(v, r)
    BY <1>1, QuietKeeps DEF CleanupVariant, VerifyVariant, LeasesLapse, AgentWrites
  <1> QED
    BY <1>1, ProvisionVariantKeeps, CheckoutVariantKeeps, VariantReadyKeeps,
       ProvisionVariantFailsKeeps, BindTaskKeeps, PrepareBeginsKeeps, PrepareRepositoryKeeps,
       PrepareEndsKeeps, PublishLooksKeeps, SwapRefKeeps, RecordSwapKeeps, PublishEndsKeeps
    DEF VariantStep

LEMMA VariantNextKeeps ==
  ASSUME VariantInv, [VariantNext]_<<compositeVars, variantVars>>
  PROVE  VariantInv'
  <1>1. CASE UNCHANGED variantVars
    BY <1>1, QuietKeeps DEF variantVars
  <1>2. CASE \E r \in Repos : SomebodyPushes(r)
    BY <1>2, SomebodyPushesKeeps
  <1> QED
    BY <1>1, <1>2, VariantStepKeeps, VariantDiesKeeps DEF VariantNext

LEMMA VariantInvariant == VariantSpec => []VariantInv
  <1>1. VariantInv /\ [VariantNext]_<<compositeVars, variantVars>> => VariantInv'
    BY VariantNextKeeps
  <1> QED
    BY VariantInitI, <1>1, PTL DEF VariantSpec

(* A variant is reported integrated only when every target it writes contains    *)
(* what the variant committed there, although the process may have died after any *)
(* of the ref updates, another variant may have been published in between and      *)
(* others may have pushed (publishIntegration).                                    *)
THEOREM IntegratedInstalled == VariantSpec => []IntegratedIsInstalled
  <1>1. VariantInv => IntegratedIsInstalled
    BY DEF VariantInv, RowsOk, PublishOk, Installed, IntegratedIsInstalled
  <1> QED
    BY VariantInvariant, <1>1, PTL

-----------------------------------------------------------------------------
(* Claudexor runtimes.  RuntimeInv is inductive: a directory that is there is  *)
(* never replaced, a call holds a runtime it found intact, and what it will    *)
(* write in the descriptor was vouched for before.                           *)

(* A managed runtime is the content of its version's directory. *)
Kept(vs, rt) ==
  rt.source = "managed" =>
    rt.version \in Versions /\ vs[rt.version].present /\ vs[rt.version].entry = rt.build

(* There is a passing report for the runtime and a record of its activation. *)
Vouched(ats, acts, rt, report) ==
  rt # X!NoRuntime =>
    [id |-> report, runtime |-> rt] \in ats /\ \E a \in acts : a.after = rt /\ a.report = report

Named(rt) == rt.source = "managed" => rt.version \in Versions /\ rt.build # 0

DescriptorOk(d) ==
  /\ Kept(versions, d.current) /\ Vouched(attestations, activations, d.current, d.report)
  /\ Kept(versions, d.previous)
  /\ Vouched(attestations, activations, d.previous, d.previousReport)

Installing == {"install", "upgrade"}

CallFields == {"pc", "op", "version", "attempt", "seen", "runtime", "report", "before"}
CallInv(c) ==
  /\ DOMAIN proc[c] = CallFields
  /\ proc[c].op \in Installing \cup {"activate", "adopt"} => proc[c].version \in Versions
  /\ proc[c].pc \in {"extract", "inspect", "record", "publish"} => proc[c].op \in Installing
  /\ proc[c].pc \in {"record", "publish", "promote"} => Named(proc[c].runtime)
  /\ proc[c].pc \in {"attest", "log", "switch"} =>
       Kept(versions, proc[c].runtime) /\ DescriptorOk(proc[c].before)
  /\ proc[c].pc \in {"log", "switch"} =>
       [id |-> proc[c].report, runtime |-> proc[c].runtime] \in attestations
  /\ proc[c].pc = "switch" => Vouched(attestations, activations, proc[c].runtime, proc[c].report)

RuntimeInv ==
  /\ DOMAIN proc = Calls /\ DOMAIN versions = Versions
  /\ \A v \in Versions : versions[v].entry # 0 => versions[v].present
  /\ DescriptorOk(active)
  /\ \A c \in Calls : CallInv(c)

LEMMA PromisesLast ==
  ASSUME NEW vs, NEW ws, NEW ats, NEW bts, NEW acts, NEW bcts, NEW rt, NEW report,
         \A v \in Versions : vs[v].present => ws[v] = vs[v], ats \subseteq bts,
         acts \subseteq bcts
  PROVE  /\ Kept(vs, rt) => Kept(ws, rt)
         /\ Vouched(ats, acts, rt, report) => Vouched(bts, bcts, rt, report)
  BY DEF Kept, Vouched

(* What every step of the runtimes observes: directories that are there stay  *)
(* as they are, reports and records are only added.                          *)
DiskGrows ==
  /\ DOMAIN versions' = Versions /\ attestations \subseteq attestations'
  /\ activations \subseteq activations'
  /\ \A v \in Versions : versions[v].present => versions'[v] = versions[v]
  /\ \A v \in Versions : versions'[v].entry # 0 => versions'[v].present

LEMMA DescriptorLasts ==
  ASSUME DiskGrows, NEW d, DescriptorOk(d)
  PROVE  /\ Kept(versions', d.current)
         /\ Vouched(attestations', activations', d.current, d.report)
         /\ Kept(versions', d.previous)
         /\ Vouched(attestations', activations', d.previous, d.previousReport)
  <1>1. /\ \A v \in Versions : versions[v].present => versions'[v] = versions[v]
        /\ attestations \subseteq attestations' /\ activations \subseteq activations'
    BY DEF DiskGrows
  <1>2. /\ Kept(versions, d.current) /\ Kept(versions, d.previous)
        /\ Vouched(attestations, activations, d.current, d.report)
        /\ Vouched(attestations, activations, d.previous, d.previousReport)
    BY DEF DescriptorOk
  <1>3. /\ Kept(versions', d.current)
        /\ Vouched(attestations', activations', d.current, d.report)
    BY <1>1, <1>2, PromisesLast
  <1>4. /\ Kept(versions', d.previous)
        /\ Vouched(attestations', activations', d.previous, d.previousReport)
    BY <1>1, <1>2, PromisesLast
  <1> QED
    BY <1>3, <1>4

(* A call that does not step keeps what it may rely on. *)
LEMMA CallKeeps ==
  ASSUME DiskGrows, NEW c, CallInv(c), proc'[c] = proc[c]
  PROVE  CallInv(c)'
  <1>1. /\ \A v \in Versions : versions[v].present => versions'[v] = versions[v]
        /\ attestations \subseteq attestations' /\ activations \subseteq activations'
    BY DEF DiskGrows
  <1> DEFINE b == proc[c].before
             rt == proc[c].runtime
             report == proc[c].report
  <1>2. ASSUME proc[c].pc \in {"attest", "log", "switch"}
        PROVE  Kept(versions', rt) /\ DescriptorOk(b)'
    <2>1. Kept(versions, rt) /\ DescriptorOk(b)
      BY <1>2 DEF CallInv
    <2>2. Kept(versions', rt)
      BY <1>1, <2>1, PromisesLast
    <2>3. /\ Kept(versions', b.current)
          /\ Vouched(attestations', activations', b.current, b.report)
          /\ Kept(versions', b.previous)
          /\ Vouched(attestations', activations', b.previous, b.previousReport)
      BY <2>1, DescriptorLasts
    <2>4. b' = b
      OBVIOUS
    <2> HIDE DEF b
    <2>5. DescriptorOk(b)'
      BY <2>3, <2>4 DEF DescriptorOk
    <2> QED
      BY <2>2, <2>5
  <1>3. ASSUME proc[c].pc = "switch"
        PROVE  Vouched(attestations', activations', rt, report)
    <2>1. Vouched(attestations, activations, rt, report)
      BY <1>3 DEF CallInv
    <2> QED
      BY <1>1, <2>1, PromisesLast
  <1> QED
    BY <1>1, <1>2, <1>3 DEF CallInv

LEMMA OthersKeep ==
  ASSUME RuntimeInv, DiskGrows, NEW c \in Calls, DOMAIN proc' = Calls,
         \A d \in Calls \ {c} : proc'[d] = proc[d], CallInv(c)', DescriptorOk(active)'
  PROVE  RuntimeInv'
  <1>1. \A d \in Calls : CallInv(d)'
    <2> TAKE d \in Calls
    <2>1. CASE d = c
      BY <2>1
    <2>2. CASE d # c
      BY <2>2, CallKeeps DEF RuntimeInv
    <2> QED
      BY <2>1, <2>2
  <1> QED
    BY <1>1 DEF RuntimeInv, DiskGrows

(* A descriptor that is not switched stays as good as it was. *)
LEMMA ActiveKeeps ==
  ASSUME RuntimeInv, DiskGrows, active' = active
  PROVE  DescriptorOk(active)'
  <1> DEFINE d == active
  <1>1. DescriptorOk(d)
    BY DEF RuntimeInv
  <1>2. d' = d
    OBVIOUS
  <1>3. /\ Kept(versions', d.current)
        /\ Vouched(attestations', activations', d.current, d.report)
        /\ Kept(versions', d.previous)
        /\ Vouched(attestations', activations', d.previous, d.previousReport)
    BY <1>1, DescriptorLasts
  <1> HIDE DEF d
  <1> QED
    BY <1>2, <1>3 DEF DescriptorOk, d

(* The files of the disk that promises speak of are as they were. *)
LEMMA DiskRests ==
  ASSUME RuntimeInv, UNCHANGED <<versions, attestations, activations>>
  PROVE  DiskGrows
  BY DEF RuntimeInv, DiskGrows

(* The lock protocol, and the ends of an operation: the call goes to a place  *)
(* where nothing is promised.                                                *)
LEMMA LockStep ==
  ASSUME RuntimeInv, NEW c \in Calls,
         \/ X!OpenLock(c) \/ X!WriteLock(c) \/ X!ObserveLock(c) \/ X!ClaimLock(c)
         \/ X!CheckClaimed(c) \/ X!RestoreLock(c) \/ X!CleanStaging(c) \/ X!ReadLock(c)
         \/ X!Unlink(c) \/ X!Stage(c) \/ X!Fails(c) \/ X!Die(c)
  PROVE  RuntimeInv'
  <1> USE DEF X!lockVars, X!diskVars
  <1>1. UNCHANGED <<versions, attestations, activations, active>>
    BY DEF X!OpenLock, X!WriteLock, X!ObserveLock, X!ClaimLock, X!CheckClaimed, X!RestoreLock,
           X!CleanStaging, X!ReadLock, X!Unlink, X!Stage, X!Fails, X!Die
  <1>2. DiskGrows
    BY <1>1, DiskRests
  <1>3. DescriptorOk(active)'
    BY <1>1, <1>2, ActiveKeeps
  <1>4. DOMAIN proc = Calls /\ CallInv(c)
    BY DEF RuntimeInv
  <1>5. /\ DOMAIN proc' = Calls /\ \A d \in Calls \ {c} : proc'[d] = proc[d]
        /\ CallInv(c)'
    <2> USE <1>4 DEF X!At, X!Go, X!Again, X!Idle, CallInv, CallFields, Installing
    <2>1. CASE X!OpenLock(c) \/ X!WriteLock(c)
      BY <2>1 DEF X!OpenLock, X!WriteLock
    <2>2. CASE X!ObserveLock(c)
      BY <2>2 DEF X!ObserveLock
    <2>3. CASE X!ClaimLock(c) \/ X!RestoreLock(c)
      BY <2>3 DEF X!ClaimLock, X!RestoreLock
    <2>4. CASE X!CheckClaimed(c)
      BY <2>4 DEF X!CheckClaimed
    <2>5. CASE X!CleanStaging(c) \/ X!ReadLock(c) \/ X!Unlink(c)
      BY <2>5 DEF X!CleanStaging, X!ReadLock, X!Unlink
    <2>6. CASE X!Stage(c)
      BY <2>6 DEF X!Stage
    <2>7. CASE X!Fails(c) \/ X!Die(c)
      BY <2>7 DEF X!Fails, X!Die
    <2> QED
      BY <2>1, <2>2, <2>3, <2>4, <2>5, <2>6, <2>7
  <1> QED
    BY <1>2, <1>3, <1>5, OthersKeep

(* Beginning an operation and staging a candidate. *)
LEMMA StagingStep ==
  ASSUME RuntimeInv, NEW c \in Calls,
         \/ \E v \in Versions : \E op \in {"install", "activate", "upgrade", "adopt"} : X!Begin(c, op, v)
         \/ X!Begin(c, "rollback", 0) \/ (\E build \in Builds : X!Extract(c, build))
         \/ X!Inspect(c) \/ X!WriteRecord(c) \/ X!Choose(c)
  PROVE  RuntimeInv'
  <1> USE DEF X!lockVars, X!diskVars
  <1>1. UNCHANGED <<versions, attestations, activations, active>>
    BY DEF X!Begin, X!Extract, X!Inspect, X!WriteRecord, X!Choose
  <1>2. DiskGrows
    BY <1>1, DiskRests
  <1>3. DescriptorOk(active)'
    BY <1>1, <1>2, ActiveKeeps
  <1>4. DOMAIN proc = Calls /\ CallInv(c)
    BY DEF RuntimeInv
  <1>5. /\ DOMAIN proc' = Calls /\ \A d \in Calls \ {c} : proc'[d] = proc[d]
        /\ CallInv(c)'
    <2> USE <1>4 DEF X!At, X!Go, CallInv, CallFields, Installing, Named
    <2>1. CASE \E v \in Versions : \E op \in {"install", "activate", "upgrade", "adopt"} : X!Begin(c, op, v)
      <3>1. PICK v \in Versions, op \in {"install", "activate", "upgrade", "adopt"} : X!Begin(c, op, v)
        BY <2>1
      <3>2. /\ proc[c].pc = "idle"
            /\ proc' = [proc EXCEPT ![c].pc = "open", ![c].op = op, ![c].version = v]
        BY <3>1 DEF X!Begin
      <3>3. /\ DOMAIN proc' = Calls /\ \A d \in Calls \ {c} : proc'[d] = proc[d]
            /\ DOMAIN proc'[c] = CallFields
            /\ proc'[c].pc = "open" /\ proc'[c].version = v
        BY <3>2
      <3> QED
        BY <3>3
    <2>2. CASE X!Begin(c, "rollback", 0)
      BY <2>2 DEF X!Begin
    <2>3. CASE \E build \in Builds : X!Extract(c, build)
      BY <2>3 DEF X!Extract
    <2>4. CASE X!Inspect(c)
      BY <2>4 DEF X!Inspect, X!Managed
    <2>5. CASE X!WriteRecord(c)
      BY <2>5 DEF X!WriteRecord
    <2>6. CASE X!Choose(c)
      BY <2>6 DEF X!Choose, X!Managed, X!AdoptedEntry
    <2> QED
      BY <2>1, <2>2, <2>3, <2>4, <2>5, <2>6
  <1> QED
    BY <1>2, <1>3, <1>5, OthersKeep

(* A directory is published under a free name only. *)
LEMMA PublishStep ==
  ASSUME RuntimeInv, NEW c \in Calls, X!Publish(c)
  PROVE  RuntimeInv'
  <1> USE DEF X!lockVars, X!diskVars
  <1>1. UNCHANGED <<attestations, activations, active>>
    BY DEF X!Publish
  <1>2. DiskGrows
    BY <1>1 DEF X!Publish, DiskGrows, RuntimeInv
  <1>3. DescriptorOk(active)'
    BY <1>1, <1>2, ActiveKeeps
  <1>4. DOMAIN proc = Calls /\ CallInv(c)
    BY DEF RuntimeInv
  <1>5. /\ DOMAIN proc' = Calls /\ \A d \in Calls \ {c} : proc'[d] = proc[d]
        /\ CallInv(c)'
    BY <1>4 DEF X!Publish, X!At, X!Go, CallInv, CallFields, Installing, Named
  <1> QED
    BY <1>2, <1>3, <1>5, OthersKeep

(* A promotion reads the entry, a rollback takes what the descriptor selected *)
(* before; both then hold the descriptor they read.                          *)
LEMMA PromoteStep ==
  ASSUME RuntimeInv, NEW c \in Calls, X!Promote(c) \/ X!Rollback(c)
  PROVE  RuntimeInv'
  <1> USE DEF X!lockVars, X!diskVars
  <1>1. UNCHANGED <<versions, attestations, activations, active>>
    BY DEF X!Promote, X!Rollback
  <1>2. DiskGrows
    BY <1>1, DiskRests
  <1>3. DescriptorOk(active)'
    BY <1>1, <1>2, ActiveKeeps
  <1>4. DOMAIN proc = Calls /\ CallInv(c)
    BY DEF RuntimeInv
  <1>5. /\ DOMAIN proc' = Calls /\ \A d \in Calls \ {c} : proc'[d] = proc[d]
        /\ DOMAIN proc'[c] = CallFields
        /\ proc'[c].op = proc[c].op /\ proc'[c].version = proc[c].version
        /\ proc'[c].before = active /\ proc'[c].pc \in {"attest", "log"}
    BY <1>4 DEF X!Promote, X!Rollback, X!At, CallInv, CallFields
  <1>6. Kept(versions, proc'[c].runtime)
    <2>1. CASE X!Promote(c)
      <3>1. proc'[c].runtime = proc[c].runtime /\ X!Intact(proc[c].runtime)
        BY <1>4, <2>1 DEF X!Promote, CallInv, CallFields
      <3>2. Named(proc[c].runtime)
        BY <1>4, <2>1 DEF X!Promote, X!At, CallInv
      <3> QED
        BY <3>1, <3>2 DEF Kept, Named, X!Intact, RuntimeInv
    <2>2. CASE X!Rollback(c)
      <3>1. proc'[c].runtime = active.previous
        BY <1>4, <2>2 DEF X!Rollback, CallInv, CallFields
      <3> QED
        BY <3>1 DEF RuntimeInv, DescriptorOk
    <2> QED
      BY <2>1, <2>2
  <1>7. proc'[c].pc = "log" =>
          [id |-> proc'[c].report, runtime |-> proc'[c].runtime] \in attestations
    BY <1>4 DEF X!Promote, X!Rollback, X!Attested, CallInv, CallFields
  <1>8. CallInv(c)'
    <2>1. DescriptorOk(proc[c].before)'
      BY <1>3, <1>5, <1>1 DEF DescriptorOk
    <2> QED
      BY <1>1, <1>4, <1>5, <1>6, <1>7, <2>1 DEF CallInv
  <1> QED
    BY <1>2, <1>3, <1>5, <1>8, OthersKeep

(* recordActivation: attestation, record, descriptor, in this order. *)
LEMMA ActivationStep ==
  ASSUME RuntimeInv, NEW c \in Calls, X!Attest(c) \/ X!LogActivation(c)
  PROVE  RuntimeInv'
  <1> USE DEF X!lockVars, X!diskVars
  <1>1. UNCHANGED <<versions, active>>
    BY DEF X!Attest, X!LogActivation
  <1>2. DiskGrows
    BY <1>1 DEF X!Attest, X!LogActivation, DiskGrows, RuntimeInv
  <1>3. DescriptorOk(active)'
    BY <1>1, <1>2, ActiveKeeps
  <1>4. DOMAIN proc = Calls /\ CallInv(c) /\ proc[c].pc \in {"attest", "log"}
    BY DEF RuntimeInv, X!Attest, X!LogActivation, X!At
  <1>5. /\ DOMAIN proc' = Calls /\ \A d \in Calls \ {c} : proc'[d] = proc[d]
        /\ DOMAIN proc'[c] = CallFields
        /\ proc'[c].op = proc[c].op /\ proc'[c].version = proc[c].version
        /\ proc'[c].before = proc[c].before /\ proc'[c].report = proc[c].report
        /\ proc'[c].runtime = proc[c].runtime
        /\ proc'[c].pc = IF proc[c].pc = "attest" THEN "log" ELSE "switch"
    BY <1>4 DEF X!Attest, X!LogActivation, X!At, X!Go, CallInv, CallFields
  <1> DEFINE b == proc[c].before
  <1>6. Kept(versions, proc[c].runtime) /\ DescriptorOk(b)
    BY <1>4 DEF CallInv
  <1>7. DescriptorOk(b)'
    <2>1. /\ Kept(versions', b.current)
          /\ Vouched(attestations', activations', b.current, b.report)
          /\ Kept(versions', b.previous)
          /\ Vouched(attestations', activations', b.previous, b.previousReport)
      BY <1>2, <1>6, DescriptorLasts
    <2>2. b' = b
      BY <1>5
    <2> HIDE DEF b
    <2> QED
      BY <2>1, <2>2 DEF DescriptorOk
  <1>8. [id |-> proc'[c].report, runtime |-> proc'[c].runtime] \in attestations'
    BY <1>4, <1>5 DEF X!Attest, X!LogActivation, X!At, CallInv
  <1>9. proc'[c].pc = "switch" =>
          Vouched(attestations', activations', proc'[c].runtime, proc'[c].report)
    <2>1. CASE X!Attest(c)
      BY <1>5, <2>1 DEF X!Attest, X!At
    <2>2. CASE X!LogActivation(c)
      <3> DEFINE a == [before |-> proc[c].before.current, after |-> proc[c].runtime,
                       report |-> proc[c].report]
      <3>1. a \in activations' /\ a.after = proc'[c].runtime /\ a.report = proc'[c].report
        BY <1>5, <2>2 DEF X!LogActivation
      <3> QED
        BY <1>8, <3>1 DEF Vouched
    <2> QED
      BY <2>1, <2>2
  <1>10. CallInv(c)'
    BY <1>1, <1>4, <1>5, <1>6, <1>7, <1>8, <1>9 DEF CallInv
  <1> QED
    BY <1>2, <1>3, <1>5, <1>10, OthersKeep

LEMMA SwitchStep ==
  ASSUME RuntimeInv, NEW c \in Calls, X!Switch(c)
  PROVE  RuntimeInv'
  <1> USE DEF X!lockVars, X!diskVars
  <1>1. UNCHANGED <<versions, attestations, activations>>
    BY DEF X!Switch
  <1>2. DiskGrows
    BY <1>1, DiskRests
  <1>3. DOMAIN proc = Calls /\ CallInv(c) /\ proc[c].pc = "switch"
    BY DEF RuntimeInv, X!Switch, X!At
  <1>4. DescriptorOk(active)'
    <2>1. /\ active'.current = proc[c].runtime /\ active'.report = proc[c].report
          /\ active'.previous = proc[c].before.current
          /\ active'.previousReport = proc[c].before.report
      BY DEF X!Switch
    <2>2. /\ Kept(versions, proc[c].runtime)
          /\ Vouched(attestations, activations, proc[c].runtime, proc[c].report)
          /\ DescriptorOk(proc[c].before)
      BY <1>3 DEF CallInv
    <2> QED
      BY <1>1, <2>1, <2>2 DEF DescriptorOk
  <1>5. /\ DOMAIN proc' = Calls /\ \A d \in Calls \ {c} : proc'[d] = proc[d]
        /\ CallInv(c)'
    BY <1>3 DEF X!Switch, X!At, X!Go, CallInv, CallFields, Installing
  <1> QED
    BY <1>2, <1>4, <1>5, OthersKeep

LEMMA RuntimeStep ==
  ASSUME RuntimeInv, X!Next
  PROVE  RuntimeInv'
  <1>1. CASE \E build \in Builds : X!ReplaceExternal(build)
    <2>1. UNCHANGED <<proc, versions, attestations, activations, active>>
      BY <1>1 DEF X!ReplaceExternal, X!lockVars
    <2> QED
      BY <2>1 DEF RuntimeInv, CallInv, DescriptorOk
  <1>2. ASSUME NEW c \in Calls,
          \/ \E v \in Versions : \E op \in {"install", "activate", "upgrade", "adopt"} : X!Begin(c, op, v)
          \/ X!Begin(c, "rollback", 0)
          \/ X!OpenLock(c) \/ X!WriteLock(c) \/ X!ObserveLock(c) \/ X!ClaimLock(c)
          \/ X!CheckClaimed(c) \/ X!RestoreLock(c) \/ X!CleanStaging(c) \/ X!ReadLock(c)
          \/ X!Unlink(c) \/ X!Stage(c) \/ (\E build \in Builds : X!Extract(c, build))
          \/ X!Inspect(c) \/ X!WriteRecord(c) \/ X!Publish(c) \/ X!Choose(c) \/ X!Promote(c)
          \/ X!Rollback(c) \/ X!Attest(c) \/ X!LogActivation(c) \/ X!Switch(c) \/ X!Fails(c)
          \/ X!Die(c)
        PROVE  RuntimeInv'
    BY <1>2, LockStep, StagingStep, PublishStep, PromoteStep, ActivationStep, SwitchStep
  <1> QED
    BY <1>1, <1>2 DEF X!Next

LEMMA RuntimeStart ==
  ASSUME X!Init
  PROVE  RuntimeInv
  <1>1. /\ DOMAIN proc = Calls /\ \A c \in Calls : CallInv(c)
    BY DEF X!Init, X!Idle, CallInv, CallFields, Installing
  <1>2. CASE X!FreshHome
    <2>1. /\ DOMAIN versions = Versions
          /\ \A v \in Versions : versions[v].entry # 0 => versions[v].present
      BY <1>2 DEF X!FreshHome, X!NoDirectory
    <2>2. DescriptorOk(active)
      BY <1>2 DEF X!FreshHome, X!Nothing, X!NoRuntime, DescriptorOk, Kept, Vouched
    <2> QED
      BY <1>1, <2>1, <2>2 DEF RuntimeInv
  <1>3. ASSUME NEW v \in Versions, NEW build \in Builds, X!UsedHome(v, build)
        PROVE  RuntimeInv
    <2>1. /\ DOMAIN versions = Versions
          /\ \A w \in Versions : versions[w].entry # 0 => versions[w].present
      BY <1>3 DEF X!UsedHome, X!NoDirectory
    <2> DEFINE first == X!Managed(v, build)
               second == X!AdoptedEntry(v, external)
    <2>2. /\ active.current = second /\ active.previous = first
          /\ active.report = -2 /\ active.previousReport = -1
      BY <1>3 DEF X!UsedHome
    <2>3. Kept(versions, first) /\ Kept(versions, second)
      BY <1>3 DEF X!UsedHome, X!Managed, X!AdoptedEntry, Kept
    <2>4. /\ Vouched(attestations, activations, first, -1)
          /\ Vouched(attestations, activations, second, -2)
      BY <1>3 DEF X!UsedHome, Vouched
    <2>5. DescriptorOk(active)
      BY <2>2, <2>3, <2>4 DEF DescriptorOk
    <2> QED
      BY <1>1, <2>1, <2>5 DEF RuntimeInv
  <1> QED
    BY <1>2, <1>3 DEF X!Init

(* What active.json selects, and what a rollback would select, was attested,   *)
(* recorded and is intact (recordActivation, promoteUnlocked), for any number  *)
(* of versions, calls and lock attempts and wherever processes die.           *)
THEOREM SelectionComplete == MCSpec => []SelectedIsComplete
  <1>1. MCInit => RuntimeInv
    BY RuntimeStart DEF MCInit
  <1>2. RuntimeInv /\ [MCNext]_<<part, managedVars, compositeVars, variantVars, runtimeVars>>
          => RuntimeInv'
    <2> SUFFICES ASSUME RuntimeInv,
                        [MCNext]_<<part, managedVars, compositeVars, variantVars, runtimeVars>>
                 PROVE  RuntimeInv'
      OBVIOUS
    <2>1. CASE X!Next
      BY <2>1, RuntimeStep
    <2>2. CASE UNCHANGED runtimeVars
      BY <2>2 DEF runtimeVars, RuntimeInv, CallInv, DescriptorOk
    <2> QED
      BY <2>1, <2>2 DEF MCNext
  <1>3. RuntimeInv => SelectedIsComplete
    BY DEF RuntimeInv, DescriptorOk, Kept, Vouched, SelectedIsComplete, X!SelectedIsComplete,
           X!Attested, X!Intact
  <1> QED
    BY <1>1, <1>2, <1>3, PTL DEF MCSpec
=============================================================================
