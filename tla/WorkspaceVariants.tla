-------------------------- MODULE WorkspaceVariants --------------------------
(***************************************************************************)
(* Variants of a ready composite workspace: isolated checkouts with writer *)
(* leases for the repositories a task may write, their binding to one task *)
(* revision, the integration of their commits into the target refs by      *)
(* compare-and-swap, and their verification and cleanup.                   *)
(*                                                                         *)
(* A commit is the set of contributions it contains, so an ancestor is a   *)
(* subset.  Every repository starts from "base"; "push" is what others push*)
(* to a target, and a variant contributes itself.  A variant's checkout    *)
(* paths are its own, so a lease has no other contender and its identity is*)
(* that of the checkout; it may lapse at any time.                         *)
(***************************************************************************)
EXTENDS CompositeWorkspaces

CONSTANTS
  Variants,
  Writes,        \* the write repositories of each variant
  Reads,         \* its read repositories, which include the write ones
  MaxPushes      \* bound on what others push

ASSUME VariantAssumption == MaxPushes \in Nat

VARIABLES
  target,     \* what each target ref contains
  head,       \* what each variant checkout contains
  soiled,     \* variant checkouts with uncommitted changes
  vlease,     \* the writer lease of each variant checkout
  variant,    \* the variant manifest files
  bound,      \* the task revision each variant is bound to, by exclusive create
  verified,   \* the variants with a combined verification report
  removed,    \* variants whose checkouts were cleaned up
  archived,   \* variants whose evidence is archived
  vcall,      \* the call at work on a variant
  pushes

variantVars ==
  <<target, head, soiled, vlease, variant, bound, verified, removed, archived, vcall, pushes>>

Base == {"base"}

NoVariant == [lifecycle |-> "none", repos |-> {}, phase |-> [r \in Repos |-> "none"],
              candidate |-> [r \in Repos |-> {}]]

NoCall == [pc |-> "idle", next |-> 0, swapped |-> 0]

VariantInit ==
  /\ target = [r \in Repos |-> Base]
  /\ head = [v \in Variants |-> [r \in Repos |-> {}]]
  /\ soiled = {}
  /\ vlease = [v \in Variants |-> [r \in Repos |-> "none"]]
  /\ variant = [v \in Variants |-> NoVariant]
  /\ bound = [v \in Variants |-> 0]
  /\ verified = {} /\ removed = {} /\ archived = {}
  /\ vcall = [v \in Variants |-> NoCall]
  /\ pushes = 0

\* The next repository of the variant from k on, in the order of their ids.
From(v, k) ==
  CHOOSE r \in k..(NRepos + 1) :
    /\ r \in Reads[v] \cup {NRepos + 1}
    /\ \A q \in Reads[v] : q >= k => q >= r

Starts(v, pc) == [NoCall EXCEPT !.pc = pc, !.next = From(v, 1)]
Continues(v) == [vcall[v] EXCEPT !.next = From(v, @ + 1)]

Write(v, m) == variant' = [variant EXCEPT ![v] = m]
Goes(v, c) == vcall' = [vcall EXCEPT ![v] = c]
Quits(v) == Goes(v, NoCall)

\* releaseLease: only a lease that is still active.
Released(s) == IF s = "active" THEN "released" ELSE s

-----------------------------------------------------------------------------
(* provision                                                               *)

\* validateExecutionTaskRevision and the same checks of the variant service:
\* a task reads repositories of the codebase and writes some of those.
TaskRevisionValid(v) ==
  Writes[v] # {} /\ Writes[v] \subseteq Reads[v] /\ Reads[v] \subseteq Repos

\* Every write lease is acquired and the manifest recorded before the first
\* checkout exists; a stored manifest is returned or asks for recovery.  The
\* expected shas are the composite's heads.  (An orphaned command of the
\* composite would only multiply the states: none is left.)
ProvisionVariant(v) ==
  /\ composite.lifecycle = "ready" /\ comp = Resting /\ moved = {} /\ commands = {}
  /\ TaskRevisionValid(v) /\ vcall[v] = NoCall /\ variant[v] = NoVariant
  /\ \A r \in Reads[v] : target[r] = Base
  /\ vlease' = [vlease EXCEPT ![v] = [r \in Repos |-> IF r \in Writes[v] THEN "active" ELSE @[r]]]
  /\ Write(v, [NoVariant EXCEPT !.lifecycle = "provisioning"])
  /\ Goes(v, Starts(v, "checkout"))
  /\ UNCHANGED <<target, head, soiled, bound, verified, removed, archived, pushes>>

\* A worktree of a managed repository, a clone of an adopted one.
CheckoutVariant(v) ==
  LET r == vcall[v].next
  IN /\ vcall[v].pc = "checkout" /\ r <= NRepos
     /\ head' = [head EXCEPT ![v][r] = Base]
     /\ Write(v, [variant[v] EXCEPT !.repos = @ \cup {r}, !.phase[r] = "ready"])
     /\ Goes(v, Continues(v))
     /\ UNCHANGED <<target, soiled, vlease, bound, verified, removed, archived, pushes>>

VariantReady(v) ==
  /\ vcall[v].pc = "checkout" /\ vcall[v].next > NRepos
  /\ Write(v, [variant[v] EXCEPT !.lifecycle = "ready"])
  /\ Goes(v, [NoCall EXCEPT !.pc = "bind"])
  /\ UNCHANGED <<target, head, soiled, vlease, bound, verified, removed, archived, pushes>>

\* The catch: leases are given back in reverse order; the manifest stays.
ProvisionVariantFails(v) ==
  /\ vcall[v].pc = "checkout"
  /\ vlease' = [vlease EXCEPT ![v] = [r \in Repos |-> Released(@[r])]]
  /\ Quits(v)
  /\ UNCHANGED <<target, head, soiled, variant, bound, verified, removed, archived, pushes>>

\* The task binding is created once, and only over current leases.
BindTask(v) ==
  /\ vcall[v].pc = "bind"
  /\ bound' = IF bound[v] = 0 /\ \A r \in Writes[v] : vlease[v][r] = "active" /\ head[v][r] = Base
              THEN [bound EXCEPT ![v] = 1] ELSE bound
  /\ Quits(v)
  /\ UNCHANGED <<target, head, soiled, vlease, variant, verified, removed, archived, pushes>>

-----------------------------------------------------------------------------
(* prepareIntegration                                                      *)

\* createInventory: a changed read-only checkout asks for a new plan.
UndeclaredWrite(v) ==
  \E r \in variant[v].repos \ Writes[v] : head[v][r] # Base \/ <<v, r>> \in soiled

\* prepareIntegration of a bound variant; a prepared or integrated manifest is
\* returned as it is.  publishIntegration starts the same way.
PrepareBegins(v) ==
  /\ comp = Resting /\ vcall[v] = NoCall
  /\ variant[v] # NoVariant /\ v \notin removed
  /\ bound[v] # 0 /\ ~UndeclaredWrite(v)
  /\ Goes(v, IF variant[v].lifecycle \in {"prepared", "integrated"}
             THEN Starts(v, "publish") ELSE Starts(v, "prepare"))
  /\ UNCHANGED <<target, head, soiled, vlease, variant, bound, verified, removed, archived, pushes>>

\* prepareMergeCandidate: already applied, a fast-forward, or a merge commit,
\* which may conflict.
Candidate(source, onto) == IF source \subseteq onto THEN onto ELSE source \cup onto

\* One repository is prepared: its lease must be current and its checkout
\* clean, or the call ends; a target that moved, or a conflict, is recorded.
PrepareRepository(v) ==
  LET r == vcall[v].next
      m == variant[v]
      stop(phase) == /\ Write(v, [m EXCEPT !.lifecycle = "conflict", !.phase[r] = phase])
                     /\ Goes(v, Starts(v, "publish"))
      next == Goes(v, Continues(v))
  IN /\ vcall[v].pc = "prepare" /\ r <= NRepos
     /\ IF r \notin m.repos \cap Writes[v]
        THEN /\ IF r \in m.repos /\ (head[v][r] # Base \/ <<v, r>> \in soiled)
                THEN Quits(v) ELSE next
             /\ UNCHANGED <<variant, vlease>>
        ELSE IF <<v, r>> \in soiled \/ vlease[v][r] # "active"
        THEN Quits(v) /\ UNCHANGED <<variant, vlease>>
        ELSE /\ vlease' = [vlease EXCEPT ![v][r] = "released"]
             /\ \/ target[r] # Base /\ stop("stale")
                \/ target[r] = Base /\ ~(Base \subseteq head[v][r]) /\ stop("conflict")
                \/ /\ target[r] = Base
                   /\ Write(v, [m EXCEPT !.candidate[r] = Candidate(head[v][r], Base),
                          !.phase[r] = IF head[v][r] \subseteq Base
                                       THEN "already-applied" ELSE "prepared"])
                   /\ next
     /\ UNCHANGED <<target, head, soiled, bound, verified, removed, archived, pushes>>

PrepareEnds(v) ==
  /\ vcall[v].pc = "prepare" /\ vcall[v].next > NRepos
  /\ Write(v, [variant[v] EXCEPT !.lifecycle = "prepared"])
  /\ vcall' \in {[vcall EXCEPT ![v] = NoCall],
                 [vcall EXCEPT ![v] = Starts(v, "publish")]}
  /\ UNCHANGED <<target, head, soiled, vlease, bound, verified, removed, archived, pushes>>

-----------------------------------------------------------------------------
(* publishIntegration                                                      *)

\* The lifecycle publishIntegration records when it stops for a failure.
Stopped(v) == IF vcall[v].swapped > 0 THEN "partial-progress" ELSE "conflict"

\* The target is read.  A repository without a candidate ends the publication
\* as a conflict, whatever moved before.
PublishLooks(v) ==
  LET r == vcall[v].next
      m == variant[v]
      next == Goes(v, Continues(v))
  IN /\ vcall[v].pc = "publish" /\ r <= NRepos
     /\ IF r \notin m.repos \cap Writes[v]
        THEN next /\ UNCHANGED variant
        ELSE IF m.candidate[r] = {}
        THEN Write(v, [m EXCEPT !.lifecycle = "conflict"]) /\ Quits(v)
        ELSE IF target[r] = m.candidate[r]
        THEN Write(v, [m EXCEPT !.phase[r] = "already-applied"]) /\ next
        ELSE IF target[r] # Base
        THEN Write(v, [m EXCEPT !.phase[r] = "stale", !.lifecycle = Stopped(v)]) /\ Quits(v)
        ELSE Goes(v, [vcall[v] EXCEPT !.pc = "swap"]) /\ UNCHANGED variant
     /\ UNCHANGED <<target, head, soiled, vlease, bound, verified, removed, archived, pushes>>

\* git update-ref <ref> <candidate> <expected>.
SwapRef(v) ==
  LET r == vcall[v].next
  IN /\ vcall[v].pc = "swap"
     /\ IF target[r] = Base
        THEN /\ target' = [target EXCEPT ![r] = variant[v].candidate[r]]
             /\ Goes(v, [vcall[v] EXCEPT !.pc = "swapped", !.swapped = @ + 1])
             /\ UNCHANGED variant
        ELSE /\ Write(v, [variant[v] EXCEPT !.phase[r] = "stale", !.lifecycle = Stopped(v)])
             /\ Quits(v)
             /\ UNCHANGED target
     /\ UNCHANGED <<head, soiled, vlease, bound, verified, removed, archived, pushes>>

RecordSwap(v) ==
  /\ vcall[v].pc = "swapped"
  /\ Write(v, [variant[v] EXCEPT !.phase[vcall[v].next] = "integrated"])
  /\ Goes(v, [Continues(v) EXCEPT !.pc = "publish"])
  /\ UNCHANGED <<target, head, soiled, vlease, bound, verified, removed, archived, pushes>>

\* Mutant of PublishEnds: the result is recorded when the first ref was moved.
PublishEndsEarly(v) ==
  /\ vcall[v].pc = "publish"
  /\ Write(v, [variant[v] EXCEPT !.lifecycle = "integrated"])
  /\ Quits(v)
  /\ UNCHANGED <<target, head, soiled, vlease, bound, verified, removed, archived, pushes>>

PublishEnds(v) ==
  /\ vcall[v].pc = "publish" /\ vcall[v].next > NRepos
  /\ Write(v, [variant[v] EXCEPT !.lifecycle = "integrated"])
  /\ Quits(v)
  /\ UNCHANGED <<target, head, soiled, vlease, bound, verified, removed, archived, pushes>>

-----------------------------------------------------------------------------
(* Verification and cleanup.                                               *)

\* verify: the checks of every repository and of the whole codebase, run in
\* parallel into one report.  cleanup asks whether there is one, not what it says.
VerifyVariant(v) ==
  /\ variant[v].lifecycle = "integrated" /\ v \notin verified \cup removed
  /\ verified' = verified \cup {v}
  /\ UNCHANGED <<target, head, soiled, vlease, variant, bound, removed, archived, vcall, pushes>>

\* reconcile: every phase of the restart is confirmed, resumable or retryable;
\* what is ambiguous or not Heniek's own needs an operator.
Reconciled(v) ==
  /\ variant[v].lifecycle \notin {"provisioning", "recovery-required"}
  /\ \A r \in variant[v].repos : r \in Managed

\* The operation is over; cleanup of one that is not only archives evidence.
Terminal(v) == variant[v].lifecycle \in {"integrated", "conflict", "partial-progress"}

\* cleanup: the evidence is archived first; the checkouts go only when the
\* operation is over and verified, nothing runs, every lease is released and
\* the restart is reconciled.  Otherwise everything is kept.
CleanupVariant(v) ==
  /\ Terminal(v) /\ vcall[v] = NoCall /\ v \notin removed
  /\ archived' = archived \cup {v}
  /\ removed' = IF /\ variant[v].lifecycle = "integrated" => v \in verified
                   /\ \A r \in Repos : vlease[v][r] \in {"none", "released"}
                   /\ Reconciled(v)
                THEN removed \cup {v} ELSE removed
  /\ UNCHANGED <<target, head, soiled, vlease, variant, bound, verified, vcall, pushes>>

-----------------------------------------------------------------------------
(* The environment.                                                        *)

\* The task's agent commits and advances the lease's expected sha, leaves
\* changes behind, or takes a commit that does not contain the base.
AgentWrites(v, r) ==
  /\ variant[v].lifecycle = "ready" /\ vcall[v] = NoCall /\ r \in variant[v].repos
  /\ \/ r \in Writes[v] /\ vlease[v][r] = "active" /\ head[v][r] = Base
        /\ head' \in {[head EXCEPT ![v][r] = @ \cup {v}], [head EXCEPT ![v][r] = {v}]}
        /\ UNCHANGED soiled
     \/ soiled = {} /\ soiled' = {<<v, r>>} /\ UNCHANGED head
  /\ UNCHANGED <<target, vlease, variant, bound, verified, removed, archived, vcall, pushes>>

\* The writer of a variant stops renewing: its leases, acquired together, lapse.
LeasesLapse(v) ==
  /\ \E r \in Repos : vlease[v][r] = "active"
  /\ vlease' = [vlease EXCEPT ![v] = [r \in Repos |-> IF @[r] = "active" THEN "lapsed" ELSE @[r]]]
  /\ UNCHANGED <<target, head, soiled, variant, bound, verified, removed, archived, vcall, pushes>>

SomebodyPushes(r) ==
  /\ pushes < MaxPushes /\ \E v \in Variants : variant[v] # NoVariant /\ r \in Writes[v]
  /\ pushes' = pushes + 1
  /\ target' = [target EXCEPT ![r] = @ \cup {"push"}]
  /\ UNCHANGED <<head, soiled, vlease, variant, bound, verified, removed, archived, vcall>>

\* The process dies between two writes.
VariantDies(v) ==
  /\ vcall[v] # NoCall /\ deaths < MaxDeaths
  /\ deaths' = deaths + 1
  /\ vcall' = [u \in Variants |-> NoCall]
  /\ UNCHANGED <<composite, onDisk, moved, commands, comp>>
  /\ UNCHANGED <<target, head, soiled, vlease, variant, bound, verified, removed, archived, pushes>>

VariantStep(v) ==
  \/ ProvisionVariant(v) \/ CheckoutVariant(v) \/ VariantReady(v) \/ ProvisionVariantFails(v)
  \/ BindTask(v) \/ PrepareBegins(v) \/ PrepareRepository(v) \/ PrepareEnds(v)
  \/ PublishLooks(v) \/ SwapRef(v) \/ RecordSwap(v) \/ PublishEnds(v)
  \/ CleanupVariant(v) \/ VerifyVariant(v)
  \/ LeasesLapse(v) \/ \E r \in Repos : AgentWrites(v, r)

\* Variants are made of a composite that is done with.
VariantNext ==
  \/ /\ \A v \in Variants : variant[v] = NoVariant
     /\ CompositeNext
     /\ UNCHANGED variantVars
  \/ \E v \in Variants : VariantStep(v) /\ UNCHANGED compositeVars
  \/ \E r \in Repos : SomebodyPushes(r) /\ UNCHANGED compositeVars
  \/ \E v \in Variants : VariantDies(v)

VariantSpec == CompositeInit /\ VariantInit /\ [][VariantNext]_<<compositeVars, variantVars>>

-----------------------------------------------------------------------------
(* Properties                                                              *)

\* A variant is reported integrated only when each of its write targets contains
\* what the variant committed there, although the process may have died after
\* any of the ref updates.
IntegratedIsInstalled ==
  \A v \in Variants : variant[v].lifecycle = "integrated" =>
    \A r \in Writes[v] : variant[v].candidate[r] # {} /\ variant[v].candidate[r] \subseteq target[r]

=============================================================================
