------------------------- MODULE CompositeWorkspaces -------------------------
(***************************************************************************)
(* Composite workspaces: one manifest file over the repositories of a      *)
(* codebase.  provision materializes every repository in order, then runs  *)
(* their setup commands in dependency waves; recover applies the decision  *)
(* an uncertain command asks for and provisions again.                     *)
(*                                                                         *)
(* The file is replaced by rename, so a write is atomic; a step is what    *)
(* happens between two writes.  Commands run detached: they outlive the    *)
(* process that started them.  Repository ids are 1..NRepos, in the order  *)
(* the code sorts them.                                                    *)
(***************************************************************************)
EXTENDS Naturals, FiniteSets

CONSTANTS
  NRepos,
  Custom,       \* the repositories provisioned by a command
  Adopted,      \* the current and existing checkouts
  WithSetup,    \* the repositories with a setup command
  DependsOn,    \* the pairs <<r, d>> where the setup of r depends on that of d
  MaxSetupConcurrency,
  MaxDeaths     \* bound on process deaths

Repos == 1..NRepos

ASSUME CompositeAssumption ==
  /\ NRepos \in Nat
  /\ Custom \subseteq Repos /\ Adopted \subseteq Repos \ Custom /\ WithSetup \subseteq Repos
  /\ DependsOn \subseteq Repos \X Repos
  /\ MaxSetupConcurrency \in Nat \ {0} /\ MaxDeaths \in Nat

VARIABLES
  composite,  \* the manifest file: its lifecycle and one entry per repository
  onDisk,     \* the targets of managed and custom repositories that exist
  moved,      \* checkouts whose HEAD is not where the manifest recorded it
  commands,   \* the provision and setup commands that run
  comp,       \* the call at work
  deaths      \* how often the process died

compositeVars == <<composite, onDisk, moved, commands, comp, deaths>>

Managed == Repos \ (Custom \cup Adopted)

NoComposite == [lifecycle |-> "none", repos |-> [r \in Repos |-> "none"]]

Resting == [pc |-> "idle", next |-> 0, wave |-> {}, done |-> {}]

\* The entry of a repository in a new manifest: emptyMaterialization, emptySetup.
NewEntry(r) ==
  [phase |-> "pending", checkout |-> FALSE, material |-> "pending",
   setup |-> IF r \in WithSetup THEN "pending" ELSE "skipped"]

\* The setup dependencies are acyclic and stay inside the codebase:
\* validateCompositeSetupGraph, which provision calls first.
SetupGraphValid ==
  ~ \E s \in SUBSET Repos :
      s # {} /\ \A r \in s : \E d \in s : <<r, d>> \in DependsOn

CompositeInit ==
  /\ composite = NoComposite
  /\ onDisk = {} /\ moved = {} /\ commands = {}
  /\ comp = Resting
  /\ deaths = 0

-----------------------------------------------------------------------------

Entry(r) == composite.repos[r]

Stop == comp' = Resting

WriteEntry(r, e) == composite' = [composite EXCEPT !.repos[r] = e]

Uncertain(e) == e.phase = "setup-running" \/ e.setup = "running"

\* provision: a new manifest, a stored one, or one with an uncertain setup,
\* which is only marked.
CompositeBegins ==
  LET marked == [r \in Repos |->
        IF Uncertain(Entry(r))
        THEN [Entry(r) EXCEPT !.phase = "recovery-required", !.setup = "recovery-required"]
        ELSE Entry(r)]
  IN /\ comp.pc \in {"idle", "begin"} /\ SetupGraphValid
     /\ composite.lifecycle # "recovery-required"
     /\ \/ /\ composite = NoComposite
           /\ composite' = [lifecycle |-> "provisioning", repos |-> [r \in Repos |-> NewEntry(r)]]
           /\ comp' = [Resting EXCEPT !.pc = "materialize", !.next = 1]
        \/ /\ composite # NoComposite /\ \E r \in Repos : Uncertain(Entry(r))
           /\ composite' = [lifecycle |-> "recovery-required", repos |-> marked]
           /\ Stop
        \/ /\ composite # NoComposite /\ \A r \in Repos : ~Uncertain(Entry(r))
           /\ comp' = [Resting EXCEPT !.pc = "materialize", !.next = 1]
           /\ UNCHANGED composite
     /\ UNCHANGED <<onDisk, moved, commands, deaths>>

Settled == {"materialized", "setup-running", "completed", "blocked", "failed"}

\* A repository that is recorded is only checked; an incomplete record or a
\* checkout that moved ends the call.
CheckRecorded ==
  LET r == comp.next
  IN /\ comp.pc = "materialize" /\ r <= NRepos /\ Entry(r).phase \in Settled
     /\ comp' = IF Entry(r).checkout /\ r \notin moved
                THEN [comp EXCEPT !.next = @ + 1] ELSE Resting
     /\ UNCHANGED <<composite, onDisk, moved, commands, deaths>>

\* The entry of a repository whose checkout was observed.
Materialized(r) ==
  [Entry(r) EXCEPT !.phase = IF r \in WithSetup THEN "materialized" ELSE "completed",
                   !.checkout = TRUE, !.material = "succeeded"]

\* A custom command that was interrupted is uncertain; a managed worktree that
\* is there at its pin is adopted; everything else starts (again).
StartMaterializing ==
  LET r == comp.next
      interrupted == Entry(r).phase = "materializing"
  IN /\ comp.pc = "materialize" /\ r <= NRepos /\ Entry(r).phase \notin Settled
     /\ IF interrupted /\ r \in Custom
        THEN /\ composite' = [composite EXCEPT !.lifecycle = "recovery-required",
                 !.repos[r] = [@ EXCEPT !.phase = "recovery-required",
                                        !.material = "recovery-required"]]
             /\ Stop
        ELSE IF interrupted /\ r \in Managed /\ r \in onDisk
        THEN IF r \in moved THEN Stop /\ UNCHANGED composite
             ELSE WriteEntry(r, Materialized(r)) /\ comp' = [comp EXCEPT !.next = @ + 1]
        ELSE /\ WriteEntry(r, [Entry(r) EXCEPT !.phase = "materializing", !.material = "running"])
             /\ comp' = [comp EXCEPT !.pc = "work"]
     /\ UNCHANGED <<onDisk, moved, commands, deaths>>

\* git worktree add, with the branch of an earlier try if it is at the pin.
AddManaged ==
  /\ comp.pc = "work" /\ comp.next \in Managed
  /\ comp' = [comp EXCEPT !.pc = "observe"]
  /\ onDisk' = onDisk \cup {comp.next}
  /\ UNCHANGED <<composite, moved, commands, deaths>>

\* A current or existing checkout is where its owner keeps it.
AdoptCheckout ==
  /\ comp.pc = "work" /\ comp.next \in Adopted
  /\ comp' = [comp EXCEPT !.pc = "observe"]
  /\ UNCHANGED <<composite, onDisk, moved, commands, deaths>>

RunCustom ==
  /\ comp.pc = "work" /\ comp.next \in Custom
  /\ commands' = commands \cup {[repo |-> comp.next, kind |-> "provision", by |-> deaths]}
  /\ comp' = [comp EXCEPT !.pc = "custom"]
  /\ UNCHANGED <<composite, onDisk, moved, deaths>>

\* A failed or timed-out provisioner blocks the repository's setup; provision
\* goes on with the next repository.
CustomEnds(ok) ==
  LET r == comp.next
      mine == [repo |-> r, kind |-> "provision", by |-> deaths]
  IN /\ comp.pc = "custom" /\ mine \in commands
     /\ commands' = commands \ {mine}
     /\ IF ok
        THEN /\ onDisk' = onDisk \cup {r}
             /\ comp' = [comp EXCEPT !.pc = "observe"]
             /\ UNCHANGED composite
        ELSE /\ WriteEntry(r, [Entry(r) EXCEPT !.phase = "failed", !.material = "failed",
                                               !.setup = "blocked"])
             /\ comp' = [comp EXCEPT !.pc = "materialize", !.next = @ + 1]
             /\ UNCHANGED onDisk
     /\ UNCHANGED <<moved, deaths>>

\* The checkout's identity and pin are observed and recorded.
ObserveCheckout ==
  LET r == comp.next
  IN /\ comp.pc = "observe" /\ r \notin moved
     /\ WriteEntry(r, Materialized(r))
     /\ comp' = [comp EXCEPT !.pc = "materialize", !.next = @ + 1]
     /\ UNCHANGED <<onDisk, moved, commands, deaths>>

\* Git refuses, or the checkout is not what it should be.
MaterializeFails ==
  /\ \/ comp.pc = "work" /\ comp.next \in Managed
     \/ comp.pc = "observe"
  /\ Stop
  /\ UNCHANGED <<composite, onDisk, moved, commands, deaths>>

-----------------------------------------------------------------------------
(* Setup waves.                                                            *)

Pending == {r \in Repos : Entry(r).setup = "pending"}

Deps(r) == {d \in Repos : <<r, d>> \in DependsOn}

\* Every dependency succeeded or has no setup.
Unblocked(r) == \A d \in Deps(r) : Entry(d).setup \in {"succeeded", "skipped"}

\* The first MaxSetupConcurrency of the runnable repositories.
Runnable ==
  LET free == {r \in Pending : Unblocked(r)}
  IN {r \in free : Cardinality({q \in free : q < r}) < MaxSetupConcurrency}

MarkWave ==
  /\ comp.pc = "materialize" /\ comp.next > NRepos
  /\ Runnable # {}
  /\ composite' = [composite EXCEPT !.repos = [r \in Repos |->
        IF r \in Runnable THEN [@[r] EXCEPT !.phase = "setup-running", !.setup = "running"]
        ELSE @[r]]]
  /\ comp' = [comp EXCEPT !.pc = "wave", !.wave = Runnable, !.done = {}]
  /\ UNCHANGED <<onDisk, moved, commands, deaths>>

\* The commands of a wave start together.  A repository that has none (its
\* state came from a recovery) makes the spawn, and so the call, fail.
StartWave ==
  /\ comp.pc = "wave"
  /\ commands' = commands \cup {[repo |-> r, kind |-> "setup", by |-> deaths] :
                                  r \in comp.wave \cap WithSetup}
  /\ comp' = IF comp.wave \subseteq WithSetup THEN [comp EXCEPT !.pc = "await"] ELSE Resting
  /\ UNCHANGED <<composite, onDisk, moved, deaths>>

SetupCommandEnds(r, outcome) ==
  LET mine == [repo |-> r, kind |-> "setup", by |-> deaths]
  IN /\ comp.pc = "await" /\ mine \in commands
     /\ commands' = commands \ {mine}
     /\ comp' = [comp EXCEPT !.done = @ \cup {[repo |-> r, outcome |-> outcome]}]
     /\ UNCHANGED <<composite, onDisk, moved, deaths>>

\* When the whole wave is done its outcomes are recorded, and the next wave
\* is chosen.
RecordWave ==
  LET outcome(r) == (CHOOSE d \in comp.done : d.repo = r).outcome
  IN /\ comp.pc = "await" /\ {d.repo : d \in comp.done} = comp.wave
     /\ composite' = [composite EXCEPT !.repos = [r \in Repos |->
           IF r \in comp.wave
           THEN [@[r] EXCEPT !.phase = IF outcome(r) = "succeeded" THEN "completed" ELSE "failed",
                             !.setup = outcome(r)]
           ELSE @[r]]]
     /\ comp' = [comp EXCEPT !.pc = "materialize", !.wave = {}, !.done = {}]
     /\ UNCHANGED <<onDisk, moved, commands, deaths>>

\* Nothing is runnable: what is left is blocked.
BlockRest ==
  /\ comp.pc = "materialize" /\ comp.next > NRepos
  /\ Runnable = {} /\ Pending # {}
  /\ composite' = [composite EXCEPT !.repos = [r \in Repos |->
        IF r \in Pending THEN [@[r] EXCEPT !.phase = "blocked", !.setup = "blocked"] ELSE @[r]]]
  /\ UNCHANGED <<onDisk, moved, commands, comp, deaths>>

\* Mutant of FinishComposite: a setup that timed out is not a failure.
FinishCompositeLenient(instructions) ==
  /\ comp.pc = "materialize" /\ comp.next > NRepos /\ Pending = {}
  /\ Stop
  /\ composite' =
       IF instructions = "changed" THEN composite
       ELSE [composite EXCEPT !.lifecycle =
               IF instructions = "blocked" THEN "blocked"
               ELSE IF \E r \in Repos : Entry(r).setup \in {"failed", "blocked"}
               THEN "partial-failure" ELSE "ready"]
  /\ UNCHANGED <<onDisk, moved, commands, deaths>>

\* The effective instructions decide between ready and blocked; a changed
\* instruction source ends the call.
FinishComposite(instructions) ==
  /\ comp.pc = "materialize" /\ comp.next > NRepos /\ Pending = {}
  /\ Stop
  /\ composite' =
       IF instructions = "changed" THEN composite
       ELSE [composite EXCEPT !.lifecycle =
               IF instructions = "blocked" THEN "blocked"
               ELSE IF \E r \in Repos : Entry(r).setup \in {"failed", "timed-out", "blocked"}
               THEN "partial-failure" ELSE "ready"]
  /\ UNCHANGED <<onDisk, moved, commands, deaths>>

-----------------------------------------------------------------------------
(* recover                                                                 *)

FailUncertain ==
  /\ comp = Resting /\ composite # NoComposite
  /\ composite' = [lifecycle |-> "partial-failure", repos |-> [r \in Repos |->
        IF Entry(r).phase = "recovery-required"
        THEN [Entry(r) EXCEPT !.phase = "failed", !.material = "failed", !.setup = "failed"]
        ELSE Entry(r)]]
  /\ UNCHANGED <<onDisk, moved, commands, comp, deaths>>

\* What retry makes of an uncertain repository: a provisioner starts over, a
\* setup is pending again.
Retried(r) ==
  LET e == Entry(r)
  IN IF e.phase # "recovery-required" THEN e
     ELSE IF ~e.checkout
     THEN [e EXCEPT !.phase = "pending", !.material = "pending", !.setup = "pending"]
     ELSE [e EXCEPT !.phase = "materialized",
                    !.setup = IF r \in WithSetup THEN "pending" ELSE "skipped"]

\* retry, after which provision starts over.
RetryUncertain ==
  /\ comp = Resting /\ composite # NoComposite
  /\ composite' = [lifecycle |-> "provisioning", repos |-> [r \in Repos |-> Retried(r)]]
  /\ comp' = [Resting EXCEPT !.pc = "begin"]
  /\ UNCHANGED <<onDisk, moved, commands, deaths>>

-----------------------------------------------------------------------------

\* A user commits in a recorded checkout.
CheckoutMoves(r) ==
  /\ composite # NoComposite /\ Entry(r).checkout /\ comp = Resting
  /\ moved = {}
  /\ moved' = {r}
  /\ UNCHANGED <<composite, onDisk, commands, comp, deaths>>

\* The process dies; the commands it started go on, and end when they like.
CompositeDies ==
  /\ comp # Resting /\ deaths < MaxDeaths
  /\ deaths' = deaths + 1
  /\ Stop
  /\ UNCHANGED <<composite, onDisk, moved, commands>>

OrphanEnds(c) ==
  /\ c \in commands /\ (c.by # deaths \/ comp = Resting)
  /\ commands' = commands \ {c}
  /\ onDisk' = IF c.kind = "provision" THEN onDisk \cup {c.repo} ELSE onDisk
  /\ UNCHANGED <<composite, moved, comp, deaths>>

CompositeStep ==
  \/ CheckRecorded \/ StartMaterializing \/ AddManaged \/ AdoptCheckout \/ RunCustom
  \/ ObserveCheckout \/ MaterializeFails
  \/ MarkWave \/ StartWave \/ RecordWave \/ BlockRest
  \/ \E ok \in BOOLEAN : CustomEnds(ok)
  \/ \E r \in Repos, outcome \in {"succeeded", "failed", "timed-out"} :
       SetupCommandEnds(r, outcome)
  \/ \E instructions \in {"ready", "blocked", "changed"} : FinishComposite(instructions)

CompositeNext ==
  \/ CompositeBegins \/ CompositeStep \/ FailUncertain \/ RetryUncertain \/ CompositeDies
  \/ \E r \in Repos : CheckoutMoves(r)
  \/ \E c \in commands : OrphanEnds(c)

CompositeSpec == CompositeInit /\ [][CompositeNext]_compositeVars

-----------------------------------------------------------------------------
(* Properties                                                              *)

\* A ready composite has a recorded checkout for every repository, and every
\* setup succeeded.
CompositeReadyIsComplete ==
  composite.lifecycle = "ready" =>
    \A r \in Repos : /\ Entry(r).checkout /\ Entry(r).material = "succeeded"
                     /\ Entry(r).setup \in {"succeeded", "skipped"}

=============================================================================
