---------------------------- MODULE MCEpicRuntime ----------------------------
(* An epic of three tasks on two repositories; a fourth replaces one of them. *)
EXTENDS EpicRuntime

Node(deps, writes) == [deps |-> deps, writes |-> writes]

\* Task 1 writes both repositories and 3, which waits for it, one; 2 writes
\* none and is found to depend on 1; 4 replaces it.
MCDags == <<(1 :> Node({}, {1, 2})) @@ (2 :> Node({}, {})) @@ (3 :> Node({1}, {1})),
            (1 :> Node({}, {1, 2})) @@ (3 :> Node({1}, {1})) @@ (4 :> Node({1}, {}))>>
MCReplacement == 2 :> 4
MCRepos == {1, 2}

=============================================================================
