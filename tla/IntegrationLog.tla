--------------------------- MODULE IntegrationLog ---------------------------
(***************************************************************************)
(* What serialized integration promises (docs/adr/0041): the epic branches *)
(* grow by one task at a time.  A task is merged into each repository it   *)
(* writes, one after the other and not atomically, but no other task is    *)
(* merged anywhere until all of its merges are in and it is in the log; it *)
(* is merged only after the tasks it depends on, at most once, and nothing *)
(* is ever taken back.  Others may push to a branch at any time.           *)
(***************************************************************************)
EXTENDS Sequences, SequencesExt

CONSTANTS Tasks, Repos, Outside, Writes, Needs

VARIABLES log, branch

Merged == {t \in Tasks : \E r \in Repos : t \in ToSet(branch[r])}

Init == log = <<>> /\ branch = [r \in Repos |-> <<>>]

Merge(t, r) ==
    /\ r \in Writes[t] /\ t \notin ToSet(branch[r])
    /\ t \notin ToSet(log) /\ Merged \ ToSet(log) \subseteq {t}
    /\ Needs[t] \subseteq ToSet(log)
    /\ branch' = [branch EXCEPT ![r] = Append(@, t)]
    /\ UNCHANGED log

Integrate(t) ==
    /\ t \notin ToSet(log)
    /\ \A r \in Writes[t] : t \in ToSet(branch[r])
    /\ log' = Append(log, t)
    /\ UNCHANGED branch

Push(r) ==
    /\ branch' = [branch EXCEPT ![r] = Append(@, Outside)]
    /\ UNCHANGED log

Next ==
    \/ \E t \in Tasks : Integrate(t) \/ \E r \in Repos : Merge(t, r)
    \/ \E r \in Repos : Push(r)

Spec == Init /\ [][Next]_<<log, branch>>
=============================================================================
