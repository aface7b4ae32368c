---------------------------- MODULE MCWorkspaces ----------------------------
(* What the daemon keeps in directories: a managed workspace, a composite of    *)
(* three repositories and two variants of it, and the Claudexor runtimes of a    *)
(* home.  They share nothing, so each is explored with the others as they start.  *)
EXTENDS ManagedWorkspaces, WorkspaceVariants

CONSTANTS Calls, Versions, Builds, Attempts

VARIABLES part, proc, lock, written, aside, staged, versions, external, attestations, activations,
          active

runtimeVars == <<proc, lock, written, aside, staged, versions, external, attestations, activations,
                 active>>

X == INSTANCE ClaudexorRuntime

\* The setup of the managed repository 3 depends on that of the adopted 2.
MCDependsOn == {<<3, 2>>}

MCVariants == {"v1", "v2"}
MCWrites == [v \in MCVariants |-> IF v = "v1" THEN {2, 3} ELSE {3}]
MCReads == [v \in MCVariants |-> IF v = "v1" THEN {2, 3} ELSE {3}]

\* Builds are interchangeable: the external entry has the first one.
MCInit ==
  /\ part \in {"managed", "composite", "runtime"}
  /\ ManagedInit /\ CompositeInit /\ VariantInit /\ X!Init /\ external = 1
  /\ part # "runtime" => X!FreshHome

MCNext ==
  \/ part = "managed" /\ ManagedNext /\ UNCHANGED <<part, compositeVars, variantVars, runtimeVars>>
  \/ part = "composite" /\ VariantNext /\ UNCHANGED <<part, managedVars, runtimeVars>>
  \/ part = "runtime" /\ X!Next /\ UNCHANGED <<part, managedVars, compositeVars, variantVars>>

MCSpec == MCInit /\ [][MCNext]_<<part, managedVars, compositeVars, variantVars, runtimeVars>>

-----------------------------------------------------------------------------
\* recordActivation and promoteUnlocked: a selected runtime was promoted and is complete.
SelectedIsComplete == X!SelectedIsComplete
=============================================================================
