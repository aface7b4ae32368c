----------------------------- MODULE TaskGraphs -----------------------------
(***************************************************************************)
(* The task graphs of an epic run as data: their validation, the order a   *)
(* wave considers tasks in, the choice of a wave from a planning snapshot  *)
(* and the check of a proposed revision.  Translated from                  *)
(* pipeline/src/task-graph.  A task is a number, which stands for its      *)
(* place in the code-point order of task ids; profiles, pipelines and the  *)
(* texts of a task are left out.                                           *)
(***************************************************************************)
EXTENDS Naturals, Sequences, FiniteSets, FiniteSetsExt, SequencesExt

CONSTANTS
    Repos,        \* repositories of the epic, numbered in their order
    Dags,         \* <<accepted graph, graph of the proposed revision>>
    Interrupted,  \* affected tasks of the hidden-dependency finding
    Prereqs,      \* the finding's prerequisite tasks
    Replacement,  \* the supersede changes: interrupted task |-> new task
    MaxWorkers,   \* maxConcurrentWorkers
    MaxRevisions  \* maxGraphRevisions

\* A graph is a function from its tasks to their dependencies and write set.
Tasks == UNION {DOMAIN Dags[i] : i \in DOMAIN Dags}
Writes == [t \in Tasks |->
              UNION {Dags[i][t].writes : i \in {j \in DOMAIN Dags : t \in DOMAIN Dags[j]}}]

\* A task that both graphs hold writes the same repositories in both: the only
\* change to it that a revision may make is to reorder it, which is to give it
\* other dependencies.
ASSUME GraphsAssumption ==
    /\ Repos \subseteq Nat /\ IsFiniteSet(Repos)
    /\ DOMAIN Dags = {1, 2}
    /\ \A i \in {1, 2} :
          /\ IsFiniteSet(DOMAIN Dags[i]) /\ DOMAIN Dags[i] \subseteq Nat \ {0}
          /\ \A t \in DOMAIN Dags[i] :
                Dags[i][t].writes \subseteq Repos /\ Dags[i][t].deps \subseteq Nat
    /\ \A t \in DOMAIN Dags[1] \cap DOMAIN Dags[2] : Dags[1][t].writes = Dags[2][t].writes
    /\ DOMAIN Replacement = Interrupted
    /\ MaxWorkers \in Nat /\ MaxRevisions \in Nat

-----------------------------------------------------------------------------
\* Kahn's order: again and again the first task whose dependencies are placed.
\* It is shorter than the graph when the graph has a cycle.
TopologicalOrder(dag) ==
    LET ready(s) == {t \in DOMAIN dag \ ToSet(s) : dag[t].deps \subseteq ToSet(s)}
        order[k \in 0..Cardinality(DOMAIN dag)] ==
            IF k = 0 THEN <<>>
            ELSE IF ready(order[k-1]) = {} THEN order[k-1]
            ELSE Append(order[k-1], Min(ready(order[k-1])))
    IN order[Cardinality(DOMAIN dag)]

\* All tasks a task waits for, directly or not: what every set has that holds
\* its dependencies and, with a task, the dependencies of that task.
Ancestors(dag, t) ==
    LET closed(S) == dag[t].deps \subseteq S /\ \A p \in S : dag[p].deps \subseteq S
    IN {p \in DOMAIN dag : \A S \in SUBSET DOMAIN dag : closed(S) => p \in S}

\* Two writers of one repository are ordered by the graph.
WritesOrdered(dag) ==
    \A s, t \in DOMAIN dag :
        s # t /\ dag[s].writes \cap dag[t].writes # {} =>
            s \in Ancestors(dag, t) \/ t \in Ancestors(dag, s)

\* done: tasks that succeeded with all their gates passed; begun: tasks that
\* are active or succeeded.
BegunOnSettled(dag, begun, done) ==
    \A t \in begun \cap DOMAIN dag : dag[t].deps \cap DOMAIN dag \subseteq done

ValidDag(dag) ==
    /\ DOMAIN dag # {}
    /\ \A t \in DOMAIN dag : dag[t].deps \subseteq DOMAIN dag \ {t}
    /\ Len(TopologicalOrder(dag)) = Cardinality(DOMAIN dag)
    /\ WritesOrdered(dag)

Orders == <<TopologicalOrder(Dags[1]), TopologicalOrder(Dags[2])>>
Valid  == <<ValidDag(Dags[1]), ValidDag(Dags[2])>>

-----------------------------------------------------------------------------
\* The wave of a snapshot: the pending tasks, in topological order, that
\* nothing blocks, until the worker slots are used up.  free: repositories
\* whose writer lease is available; busy: workers in use.
SelectWave(rev, unresolved, pending, begun, done, free, busy) ==
    LET dag == Dags[rev]
        open == {t \in pending : /\ ~unresolved
                                 /\ dag[t].deps \subseteq done
                                 /\ dag[t].writes \subseteq free}
        order == Orders[rev]
        ahead(i) == {j \in 1..i : order[j] \in open}
        slots == IF busy < MaxWorkers THEN MaxWorkers - busy ELSE 0
        chosen == {i \in 1..Len(order) : order[i] \in open /\ Cardinality(ahead(i)) <= slots}
    IN IF Valid[rev] /\ BegunOnSettled(dag, begun, done)
       THEN {order[i] : i \in chosen}
       ELSE {}

\* The interrupted tasks of the finding are cancelled, gone and superseded.
InterruptedReplaced(old, new, cancelled) ==
    \A t \in Interrupted :
        /\ t \in DOMAIN old \cap cancelled
        /\ t \notin DOMAIN new
        /\ Replacement[t] \in DOMAIN new \ DOMAIN old

\* Every other task that has started is in the new graph as it was.
StartedUnchanged(old, new, started) ==
    \A t \in (DOMAIN old \cap started) \ Interrupted :
        t \in DOMAIN new /\ new[t] = old[t]

\* A proposed revision is accepted when it follows the active one within the
\* limit, both graphs are valid for the task states, and it takes nothing away
\* but interrupted tasks.
ValidRevision(rev, started, begun, done, cancelled) ==
    LET old == Dags[rev]
        new == Dags[rev + 1]
    IN /\ rev + 1 <= MaxRevisions
       /\ Valid[rev] /\ BegunOnSettled(old, begun, done)
       /\ Valid[rev + 1] /\ BegunOnSettled(new, begun, done)
       /\ InterruptedReplaced(old, new, cancelled)
       /\ StartedUnchanged(old, new, started)
=============================================================================
