--------------------------- MODULE TaskIntegration ---------------------------
(***************************************************************************)
(* The integration ledger of an epic run and the service that works it     *)
(* off: prepare merge candidates, verify them together, move the epic      *)
(* branches by compare-and-swap, and reconcile what a crash, an error or a *)
(* change from outside left half done.  A commit is modelled by the        *)
(* sequence of merges its branch consists of.  Git itself is external; the *)
(* traces and observations, which are only appended, are left out.         *)
(***************************************************************************)
EXTENDS TaskWaves

CONSTANTS
    Outside        \* a merge that is not a task's

ASSUME OutsideAssumption == Outside \notin Tasks

VARIABLES
    ledger,    \* task_integration_ledger.lifecycle, "none" without an entry
    ordinal,   \* its integration_ordinal
    candidate, \* its repositories: repo |-> [from, to]
    verified,  \* entries whose verification passed
    recon,     \* task_integration_reconciliation.lifecycle
    expected,  \* epic_repository_branch.expected_local_sha
    branchOk,  \* repositories whose branch lifecycle is ready
    refs,      \* the epic branches themselves
    current,   \* the entry the service works on
    todo,      \* repositories it has still to publish
    moved      \* repositories the publication has moved

ledgerVars == <<ledger, ordinal, candidate, verified, recon, expected, branchOk>>
workVars   == <<current, todo, moved>>
integVars  == <<ledgerVars, refs, workVars>>

NoTask  == 0
Unknown == <<Outside, Outside>>      \* no branch row yet
Empty   == [r \in {} |-> <<>>]
Closed  == {"integrated", "failed"}

IntegrationInit ==
    /\ ledger = [t \in Tasks |-> "none"] /\ ordinal = [t \in Tasks |-> 0]
    /\ candidate = [t \in Tasks |-> Empty] /\ verified = {}
    /\ recon = [t \in Tasks |-> "none"]
    /\ expected = [r \in Repos |-> Unknown] /\ branchOk = {}
    /\ refs = [r \in Repos |-> <<>>]
    /\ current = NoTask /\ todo = {} /\ moved = {}

\* Somebody else moves an epic branch.
ExternalPush(r) ==
    /\ Trouble
    /\ refs' = [refs EXCEPT ![r] = Append(@, Outside)]
    /\ UNCHANGED <<waveVars, ledgerVars, workVars>>

-----------------------------------------------------------------------------
\* The dispatches in integration order: wave, then place among the tasks of
\* the graph the tick works on; tasks no longer in the graph come last.
Before(s, t) ==
    \/ wave[s] < wave[t]
    \/ wave[s] = wave[t] /\ s \in DOMAIN Dag /\ (t \in DOMAIN Dag => s < t)
    \/ wave[s] = wave[t] /\ s \notin DOMAIN Dag /\ t \notin DOMAIN Dag /\ s < t

Dispatched == {t \in Tasks : wave[t] > 0}
Place(t)   == 1 + Cardinality({s \in Dispatched \ {t} : Before(s, t)})

\* enqueue throws when an entry exists under another ordinal.
Conflicting == {t \in Dispatched : ledger[t] # "none" /\ ordinal[t] # Place(t)}
Enqueued    == {t \in Dispatched : ledger[t] = "none" /\ \A s \in Conflicting : Before(t, s)}

\* initializeBranch: a first observation is adopted, a later one that differs
\* from the expected commit marks the branch.
Observed   == [r \in Repos |-> IF expected[r] = Unknown THEN refs[r] ELSE expected[r]]
ReadyAfter == {r \in Repos : IF expected[r] = Unknown THEN refs[r] = <<>>
                             ELSE r \in branchOk /\ expected[r] = refs[r]}

Open(l)   == {t \in Tasks : l[t] \notin Closed \cup {"none"}}
InOrder(S, o) == CHOOSE t \in S : \A s \in S : o[t] <= o[s]

\* With a marked branch and no reconciliation under way, the first open entry
\* whose task succeeded is handed to reconciliation.
DriftHits(l) ==
    {t \in Open(l) : phase[t] = "succeeded" /\ l[t] # "reconciliation_required"}
Drifted(l, o) ==
    IF ReadyAfter # Repos /\ (\A t \in Tasks : l[t] # "reconciliation_required") /\ DriftHits(l) # {}
    THEN {InOrder(DriftHits(l), o)} ELSE {}

\* The first part of an integration tick: observe the branches, enqueue the
\* dispatches, react to drift.
IntegrationBegins(next) ==
    LET l == [t \in Tasks |-> IF t \in Enqueued THEN "queued" ELSE ledger[t]]
        o == [t \in Tasks |-> IF t \in Enqueued THEN Place(t) ELSE ordinal[t]]
        d == Drifted(l, o)
    IN /\ expected' = Observed /\ branchOk' = ReadyAfter
       /\ ordinal' = o
       /\ \/ /\ Conflicting # {}
             /\ ledger' = l
             /\ pc' = "idle" /\ tick' = NoTick
             /\ UNCHANGED <<gates, recon>>
          \/ /\ Conflicting = {}
             /\ ledger' = [t \in Tasks |-> IF t \in d THEN "reconciliation_required" ELSE l[t]]
             /\ recon' = [t \in Tasks |-> IF t \in d /\ recon[t] = "none" THEN "observing"
                                          ELSE recon[t]]
             /\ gates' = [t \in Tasks |-> IF t \in d THEN "reconciliation_required" ELSE gates[t]]
             /\ pc' = next /\ UNCHANGED tick
       /\ UNCHANGED <<phase, leased, wave, waves, childVars, waiting, calls,
                      candidate, verified, refs, workVars, trouble>>

-----------------------------------------------------------------------------
\* The loop over the entries: only the first open one may move.
First    == InOrder(Open(ledger), ordinal)
HasEntry == Open(ledger) # {}

\* Entries of tasks that did not succeed are closed and skipped.
SkipEntry ==
    /\ HasEntry /\ ledger[First] # "reconciliation_required"
    /\ phase[First] \in Terminal \ {"succeeded"}
    /\ ledger' = [ledger EXCEPT ![First] = "failed"]
    /\ UNCHANGED <<waveVars, ordinal, candidate, verified, recon, expected, branchOk,
                   refs, workVars, trouble>>

\* The loop ends: no open entry, one whose task is still at work, or one whose
\* reconciliation is blocked.
LoopEnds ==
    \/ ~HasEntry
    \/ HasEntry /\ ledger[First] = "reconciliation_required" /\ recon[First] = "blocked"
    \/ /\ HasEntry /\ ledger[First] # "reconciliation_required"
       /\ phase[First] \notin Terminal

TakeEntry(process, reconcile) ==
    /\ HasEntry
    /\ \/ /\ ledger[First] = "reconciliation_required" /\ recon[First] # "blocked"
          /\ pc' = reconcile
       \/ /\ ledger[First] # "reconciliation_required" /\ phase[First] = "succeeded"
          /\ pc' = process
    /\ current' = First
    /\ UNCHANGED <<storeVars, childVars, tick, waiting, calls, ledgerVars, refs, todo, moved,
                   trouble>>

-----------------------------------------------------------------------------
\* reconcile: transition to reconciliation_required, with the gates.  Merges
\* the publication reports as done advance the expected commits.
BranchesAgree(t, S) ==
    \A r \in S : r \in branchOk /\ expected[r] = candidate[t][r].from
Advanced(t, S) == [r \in Repos |-> IF r \in S THEN candidate[t][r].to ELSE expected[r]]

ToReconciliation(t) ==
    /\ ledger' = [ledger EXCEPT ![t] = "reconciliation_required"]
    /\ recon' = [recon EXCEPT ![t] = IF @ = "none" THEN "observing" ELSE @]
    /\ gates' = [gates EXCEPT ![t] = "reconciliation_required"]

\* The task binding is gone, or the inventory or the merge asks for replanning
\* or recovery.
SurrenderEntry(t) ==
    /\ ledger[t] \in {"queued", "prepared", "verified"} /\ Trouble
    /\ ToReconciliation(t)
    /\ pc' = "integrated" /\ current' = NoTask
    /\ UNCHANGED <<phase, leased, wave, waves, childVars, tick, waiting, calls, ordinal, candidate,
                   verified, expected, branchOk, refs, todo, moved>>

\* inventory and prepare of a queued entry.
PrepareEntry(t) ==
    /\ ledger[t] = "queued"
    /\ candidate' = [candidate EXCEPT ![t] =
           [r \in Writes[t] |-> [from |-> refs[r], to |-> Append(refs[r], t)]]]
    /\ ledger' = [ledger EXCEPT ![t] = "prepared"]
    /\ gates' = [gates EXCEPT ![t] = "pending"]
    /\ UNCHANGED <<phase, leased, wave, waves, childVars, pc, tick, waiting, calls, ordinal,
                   verified, recon, expected, branchOk, refs, workVars, trouble>>

\* The combined verification of the candidates.
VerifyEntry(t) ==
    /\ ledger[t] = "prepared"
    /\ \/ /\ ledger' = [ledger EXCEPT ![t] = "verified"]
          /\ verified' = verified \cup {t}
          /\ UNCHANGED <<gates, pc, current>>
       \/ /\ ledger' = [ledger EXCEPT ![t] = "failed"]
          /\ gates' = [gates EXCEPT ![t] = "failed"]
          /\ pc' = "integrated" /\ current' = NoTask
          /\ UNCHANGED verified
    /\ UNCHANGED <<phase, leased, wave, waves, childVars, tick, waiting, calls, ordinal, candidate,
                   recon, expected, branchOk, refs, todo, moved, trouble>>

\* Mutant of PublishBegins: the entry is integrated before its branches are published.
PublishBeginsIntegrated(t) ==
    /\ ledger[t] = "verified"
    /\ ledger' = [ledger EXCEPT ![t] = "integrated"]
    /\ gates' = [gates EXCEPT ![t] = "passed"]
    /\ pc' = "publish" /\ todo' = DOMAIN candidate[t]
    /\ UNCHANGED <<phase, leased, wave, waves, childVars, tick, waiting, calls, ordinal, candidate,
                   verified, recon, expected, branchOk, refs, current, moved, trouble>>

\* Publication starts; an entry without candidates is integrated at once.
PublishBegins(t) ==
    /\ ledger[t] = "verified"
    /\ \/ /\ DOMAIN candidate[t] = {}
          /\ ledger' = [ledger EXCEPT ![t] = "integrated"]
          /\ gates' = [gates EXCEPT ![t] = "passed"]
          /\ pc' = "scan" /\ current' = NoTask
          /\ UNCHANGED todo
       \/ /\ DOMAIN candidate[t] # {}
          /\ pc' = "publish" /\ todo' = DOMAIN candidate[t]
          /\ UNCHANGED <<ledger, gates, current>>
    /\ UNCHANGED <<phase, leased, wave, waves, childVars, tick, waiting, calls, ordinal, candidate,
                   verified, recon, expected, branchOk, refs, moved, trouble>>

\* One repository of a publication: compare and swap of the epic branch.
Swaps(t, r) == refs[r] \in {candidate[t][r].from, candidate[t][r].to}

\* Fast-forwarding the branch, or finding it already moved.
PublishRepo(t) ==
    /\ todo # {}
    /\ Swaps(t, Min(todo))
    /\ refs' = [refs EXCEPT ![Min(todo)] = candidate[t][Min(todo)].to]
    /\ moved' = moved \cup {Min(todo)}
    /\ todo' = todo \ {Min(todo)}
    /\ UNCHANGED <<waveVars, ledgerVars, current, trouble>>

\* All repositories moved: the entry, the expected commits and the gates
\* advance together, or the transaction throws and nothing does.
PublishEnds(t) ==
    /\ todo = {}
    /\ \/ /\ BranchesAgree(t, DOMAIN candidate[t])
          /\ ledger' = [ledger EXCEPT ![t] = "integrated"]
          /\ expected' = Advanced(t, DOMAIN candidate[t])
          /\ gates' = [gates EXCEPT ![t] = "passed"]
          /\ pc' = "scan" /\ UNCHANGED tick
       \/ /\ ~BranchesAgree(t, DOMAIN candidate[t])
          /\ pc' = "idle" /\ tick' = NoTick
          /\ UNCHANGED <<ledger, expected, gates>>
    /\ current' = NoTask /\ moved' = {}
    /\ UNCHANGED <<phase, leased, wave, waves, childVars, waiting, calls, ordinal, candidate,
                   verified, recon, branchOk, refs, todo, trouble>>

\* The publication stops: a branch is at a third commit, or the driver throws,
\* in which case what it moved is not known.
PublishStops(t) ==
    /\ todo # {}
    /\ \E known \in {moved, {}} :
          /\ \/ ~Swaps(t, Min(todo)) /\ known = moved /\ UNCHANGED trouble
             \/ Trouble /\ known = {}
          /\ \/ /\ BranchesAgree(t, known)
                /\ ToReconciliation(t)
                /\ expected' = Advanced(t, known)
                /\ pc' = "integrated" /\ UNCHANGED tick
             \/ /\ ~BranchesAgree(t, known)
                /\ pc' = "idle" /\ tick' = NoTick
                /\ UNCHANGED <<ledger, recon, gates, expected>>
    /\ todo' = {} /\ moved' = {} /\ current' = NoTask
    /\ UNCHANGED <<phase, leased, wave, waves, childVars, waiting, calls, ordinal, candidate,
                   verified, branchOk, refs>>

-----------------------------------------------------------------------------
\* reconcileEntry: observe every repository of the entry against its
\* candidate: applied, pending or changed by somebody else.
Pending(t) == {r \in DOMAIN candidate[t] : refs[r] = candidate[t][r].from}
Alien(t)   == {r \in DOMAIN candidate[t] : ~Swaps(t, r)}

\* Missing evidence, an unreadable branch, a third commit, or branches still
\* pending after they were published: the reconciliation is blocked.
BlockEntry(t, forwarded) ==
    /\ \/ (DOMAIN candidate[t] = {} \/ Alien(t) # {}) /\ UNCHANGED trouble
       \/ forwarded /\ Pending(t) # {} /\ UNCHANGED trouble
       \/ Trouble
    /\ recon' = [recon EXCEPT ![t] = "blocked"]
    /\ pc' = "integrated" /\ current' = NoTask
    /\ UNCHANGED <<storeVars, childVars, tick, waiting, calls, ledger, ordinal, candidate, verified,
                   expected, branchOk, refs, todo, moved>>

\* Branches still at the expected commit are published again.
ForwardEntry(t) ==
    /\ DOMAIN candidate[t] # {} /\ Alien(t) = {} /\ Pending(t) # {}
    /\ recon' = [recon EXCEPT ![t] = "forwarding"]
    /\ todo' = Pending(t) /\ pc' = "forward"
    /\ UNCHANGED <<storeVars, childVars, tick, waiting, calls, ledger, ordinal, candidate, verified,
                   expected, branchOk, refs, current, moved, trouble>>

\* What the publication reports is not used: the branches are observed again.
\* A driver that throws leaves the reconciliation for the next tick.
ForwardEnds(t) ==
    /\ \/ /\ todo # {} => ~Swaps(t, Min(todo))
          /\ pc' = "reobserve" /\ UNCHANGED <<trouble, current>>
       \/ todo # {} /\ Trouble /\ pc' = "integrated" /\ current' = NoTask
    /\ todo' = {} /\ moved' = {}
    /\ UNCHANGED <<storeVars, childVars, tick, waiting, calls, ledgerVars, refs>>

\* Every branch is at its candidate: the entry is integrated, its branches are
\* ready and its gates passed, unless a branch row says something else.
ResolveEntry(t) ==
    /\ DOMAIN candidate[t] # {} /\ Alien(t) = {} /\ Pending(t) = {}
    /\ \/ /\ \A r \in DOMAIN candidate[t] : expected[r] \in {candidate[t][r].from, candidate[t][r].to}
          /\ expected' = Advanced(t, DOMAIN candidate[t])
          /\ branchOk' = branchOk \cup DOMAIN candidate[t]
          /\ ledger' = [ledger EXCEPT ![t] = "integrated"]
          /\ recon' = [recon EXCEPT ![t] = "integrated"]
          /\ gates' = [gates EXCEPT ![t] = "passed"]
          /\ pc' = "integrated" /\ UNCHANGED tick
       \/ /\ \E r \in DOMAIN candidate[t] : expected[r] \notin {candidate[t][r].from, candidate[t][r].to}
          /\ pc' = "idle" /\ tick' = NoTick
          /\ UNCHANGED <<expected, branchOk, ledger, recon, gates>>
    /\ current' = NoTask
    /\ UNCHANGED <<phase, leased, wave, waves, childVars, waiting, calls, ordinal, candidate, verified,
                   refs, todo, moved, trouble>>
=============================================================================
