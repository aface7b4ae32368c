----------------------------- MODULE EpicProofs -----------------------------
(***************************************************************************)
(* Proofs about an epic run, for every pair of graphs, every set of        *)
(* interrupted tasks and every bound: a task starts only on integrated     *)
(* predecessors, the live children stay within workers and repositories,   *)
(* and serialized integration implements IntegrationLog.  All three rest   *)
(* on one inductive invariant, EpicInv; the refinement maps the log to the *)
(* integrated entries by ordinal and the branches to themselves.           *)
(***************************************************************************)
EXTENDS EpicRuntime, TLAPS, FiniteSetTheorems, WellFoundedInduction, NaturalsInduction

(* There are finitely many tasks, and their numbers are positive. *)
LEMMA TasksFinite == IsFiniteSet(Tasks) /\ Tasks \subseteq Nat \ {0}
  <1>1. Tasks = DOMAIN Dags[1] \cup DOMAIN Dags[2]
    BY GraphsAssumption DEF Tasks
  <1>2. /\ IsFiniteSet(DOMAIN Dags[1]) /\ DOMAIN Dags[1] \subseteq Nat \ {0}
        /\ IsFiniteSet(DOMAIN Dags[2]) /\ DOMAIN Dags[2] \subseteq Nat \ {0}
    BY GraphsAssumption
  <1> QED
    BY <1>1, <1>2, FS_Union

(* A task writes the repositories that any graph which holds it names. *)
LEMMA WritesOfGraph ==
  ASSUME NEW i \in {1, 2}, NEW t \in DOMAIN Dags[i]
  PROVE  t \in Tasks /\ Writes[t] = Dags[i][t].writes
  <1>1. t \in Tasks
    BY GraphsAssumption DEF Tasks
  <1>2. Writes[t] = UNION {Dags[j][t].writes : j \in {k \in {1, 2} : t \in DOMAIN Dags[k]}}
    BY <1>1, GraphsAssumption DEF Writes
  <1>3. \A j \in {1, 2} : t \in DOMAIN Dags[j] => Dags[j][t].writes = Dags[i][t].writes
    BY GraphsAssumption
  <1> QED
    BY <1>1, <1>2, <1>3

(* A set of natural numbers that is not empty has a least element. *)
LEMMA LeastNumber ==
  ASSUME NEW S \in SUBSET Nat, S # {}
  PROVE  \E x \in S : \A y \in S : x <= y
  <1> DEFINE R == {ss \in Nat \X Nat : ss[1] < ss[2]}
  <1>1. IsWellFoundedOn(R, Nat)
    BY NatLessThanWellFounded, Zenon DEF OpToRel
  <1>2. PICK x \in S : \A y \in S : ~ (<<y, x>> \in R)
    <2> HIDE DEF R
    <2> QED
      BY <1>1, WFMin, Zenon
  <1>3. ASSUME NEW y \in S PROVE x <= y
    <2>1. <<y, x>> \in Nat \X Nat /\ <<y, x>>[1] = y /\ <<y, x>>[2] = x
      OBVIOUS
    <2>2. ~ (y < x)
      BY <1>2, <2>1, Zenon
    <2> QED
      BY <2>2
  <1> QED
    BY <1>3

LEMMA LowestIsMember ==
  ASSUME NEW S \in SUBSET Nat, S # {}
  PROVE  Min(S) \in S
  BY LeastNumber, Zenon DEF Min

(* Of some tasks one has the least ordinal, and InOrder finds it. *)
LEMMA FirstInOrder ==
  ASSUME NEW S \in SUBSET Tasks, S # {}, NEW o, \A t \in Tasks : o[t] \in Nat
  PROVE  InOrder(S, o) \in S /\ \A s \in S : o[InOrder(S, o)] <= o[s]
  <1> DEFINE N == {o[t] : t \in S}
  <1>1. N \in SUBSET Nat /\ N # {}
    OBVIOUS
  <1>2. PICK x \in N : \A y \in N : x <= y
    <2> HIDE DEF N
    <2> QED
      BY <1>1, LeastNumber
  <1>3. \E t \in S : \A s \in S : o[t] <= o[s]
    BY <1>2
  <1> QED
    BY <1>3, Zenon DEF InOrder

-----------------------------------------------------------------------------
(* A wave never takes more tasks than there are free slots: the places it    *)
(* chooses have different numbers of open places up to them.                 *)
LEMMA RankedFew ==
  ASSUME NEW n \in Nat, NEW O \in SUBSET (1..n), NEW k \in Nat
  PROVE  LET C == {i \in O : Cardinality({j \in 1..i : j \in O}) <= k}
         IN IsFiniteSet(C) /\ Cardinality(C) <= k
  <1> DEFINE upto(i) == {j \in 1..i : j \in O}
             C == {i \in O : Cardinality(upto(i)) <= k}
             rank == [i \in C |-> Cardinality(upto(i))]
  <1>1. \A i \in O : IsFiniteSet(upto(i)) /\ Cardinality(upto(i)) \in Nat
    <2> TAKE i \in O
    <2>1. IsFiniteSet(1..i) /\ upto(i) \subseteq 1..i
      BY FS_Interval
    <2> QED
      BY <2>1, FS_Subset, FS_CardinalityType
  <1>2. \A i \in O : Cardinality(upto(i)) >= 1
    <2> TAKE i \in O
    <2>1. upto(i) # {}
      OBVIOUS
    <2>2. IsFiniteSet(upto(i)) /\ Cardinality(upto(i)) \in Nat
      BY <1>1
    <2> HIDE DEF upto
    <2>3. Cardinality(upto(i)) # 0
      BY <2>1, <2>2, FS_EmptySet
    <2> QED
      BY <2>2, <2>3
  <1>3. ASSUME NEW i \in O, NEW j \in O, i < j
        PROVE  Cardinality(upto(i)) < Cardinality(upto(j))
    <2>1. upto(i) \cup {j} \subseteq upto(j) /\ j \notin upto(i)
      BY <1>3
    <2>2. Cardinality(upto(i) \cup {j}) = Cardinality(upto(i)) + 1
      BY <1>1, <2>1, FS_AddElement
    <2>3. Cardinality(upto(i) \cup {j}) <= Cardinality(upto(j))
      BY <1>1, <2>1, FS_Subset
    <2> QED
      BY <1>1, <2>2, <2>3
  <1>4. rank \in Injection(C, 1..k)
    <2>1. rank \in [C -> 1..k]
      <3> SUFFICES ASSUME NEW i \in C PROVE Cardinality(upto(i)) \in 1..k
        OBVIOUS
      <3>1. i \in O /\ Cardinality(upto(i)) <= k
        OBVIOUS
      <3> HIDE DEF upto
      <3> QED
        BY <1>1, <1>2, <3>1
    <2>2. \A i, j \in C : rank[i] = rank[j] => i = j
      <3> SUFFICES ASSUME NEW i \in C, NEW j \in C, i # j PROVE rank[i] # rank[j]
        OBVIOUS
      <3>1. i \in Nat /\ j \in Nat /\ i \in O /\ j \in O
        OBVIOUS
      <3>2. i < j \/ j < i
        BY <3>1
      <3>3. Cardinality(upto(i)) # Cardinality(upto(j))
        <4> HIDE DEF upto
        <4> QED
          BY <1>1, <1>3, <3>1, <3>2
      <3> QED
        BY <3>3
    <2> HIDE DEF rank, C
    <2> QED
      BY <2>1, <2>2 DEF Injection, IsInjective
  <1>5. IsFiniteSet(1..k) /\ Cardinality(1..k) = k
    BY FS_Interval
  <1>6. IsFiniteSet(C) /\ Cardinality(C) <= k
    <2> HIDE DEF rank, C
    <2> QED
      BY <1>4, <1>5, FS_Injection
  <1> QED
    BY <1>6

(* What SelectWave promises of the wave it chooses: pending tasks whose      *)
(* dependencies are done, on free repositories, no more than there are free  *)
(* workers, and no two of them on one repository.                            *)
WaveFits(W, dag, pending, done, free, busy) ==
  /\ W \subseteq pending
  /\ \A t \in W : dag[t].deps \subseteq done /\ dag[t].writes \subseteq free
  /\ IsFiniteSet(W) /\ (W # {} => Cardinality(W) + busy <= MaxWorkers)
  /\ \A s, t \in W : s # t => dag[s].writes \cap dag[t].writes = {}

(* Two pending tasks whose dependencies are done write different             *)
(* repositories: a valid graph orders two writers, and what a task waits for *)
(* is done when its dependencies are, since nothing begins before them.      *)
LEMMA PendingApart ==
  ASSUME NEW dag, WritesOrdered(dag),
         \A t \in DOMAIN dag : dag[t].deps \subseteq DOMAIN dag \ {t},
         NEW begun, NEW done \in SUBSET begun, BegunOnSettled(dag, begun, done),
         NEW s \in DOMAIN dag \ done, NEW t \in DOMAIN dag \ done, s # t,
         dag[s].deps \subseteq done, dag[t].deps \subseteq done
  PROVE  dag[s].writes \cap dag[t].writes = {}
  <1>1. ASSUME NEW x \in DOMAIN dag, dag[x].deps \subseteq done
        PROVE  Ancestors(dag, x) \subseteq done
    <2> DEFINE S == done \cap DOMAIN dag
    <2>1. S \in SUBSET DOMAIN dag
      OBVIOUS
    <2>2. dag[x].deps \subseteq S
      BY <1>1
    <2>3. \A p \in S : dag[p].deps \subseteq S
      BY DEF BegunOnSettled
    <2> HIDE DEF S
    <2>4. Ancestors(dag, x) \subseteq S
      BY <2>1, <2>2, <2>3 DEF Ancestors
    <2> QED
      BY <2>4 DEF S
  <1>2. s \notin Ancestors(dag, t) /\ t \notin Ancestors(dag, s)
    BY <1>1
  <1> QED
    BY <1>2 DEF WritesOrdered

LEMMA WaveIsFit ==
  ASSUME NEW rev \in {1, 2}, NEW unresolved, NEW pending \in SUBSET DOMAIN Dags[rev],
         NEW begun, NEW done \in SUBSET begun, pending \cap done = {},
         NEW free, NEW busy \in Nat
  PROVE  WaveFits(SelectWave(rev, unresolved, pending, begun, done, free, busy),
                  Dags[rev], pending, done, free, busy)
  <1> DEFINE dag == Dags[rev]
             order == Orders[rev]
             W == SelectWave(rev, unresolved, pending, begun, done, free, busy)
             open == {t \in pending : /\ ~unresolved
                                      /\ dag[t].deps \subseteq done
                                      /\ dag[t].writes \subseteq free}
             slots == IF busy < MaxWorkers THEN MaxWorkers - busy ELSE 0
             O == {i \in 1..Len(order) : order[i] \in open}
             C == {i \in O : Cardinality({j \in 1..i : j \in O}) <= slots}
  <1>0. CASE ~(Valid[rev] /\ BegunOnSettled(dag, begun, done))
    <2>1. W = {}
      BY <1>0 DEF SelectWave
    <2> QED
      BY <2>1, FS_EmptySet DEF WaveFits
  <1>a. CASE Valid[rev] /\ BegunOnSettled(dag, begun, done)
    <2>1. ValidDag(dag) /\ Len(order) = Cardinality(DOMAIN dag)
      <3>1. Valid[rev] = ValidDag(Dags[rev]) /\ Orders[rev] = TopologicalOrder(Dags[rev])
        <4>1. CASE rev = 1
          BY <4>1 DEF Valid, Orders
        <4>2. CASE rev = 2
          BY <4>2 DEF Valid, Orders
        <4> QED
          BY <4>1, <4>2
      <3> QED
        BY <1>a, <3>1 DEF ValidDag
    <2>2. Len(order) \in Nat /\ slots \in Nat
      BY <2>1, GraphsAssumption, FS_CardinalityType
    <2>3. W = {order[i] : i \in C}
      <3>1. \A i \in 1..Len(order) : {j \in 1..i : order[j] \in open} = {j \in 1..i : j \in O}
        BY <2>2
      <3>2. C = {i \in 1..Len(order) :
                   order[i] \in open /\ Cardinality({j \in 1..i : order[j] \in open}) <= slots}
        BY <3>1
      <3> QED
        BY <1>a, <3>2 DEF SelectWave
    <2>4. \A t \in W : t \in open
      BY <2>3
    <2>5. IsFiniteSet(C) /\ Cardinality(C) <= slots
      <3>1. O \in SUBSET (1..Len(order))
        OBVIOUS
      <3> HIDE DEF O, slots, order
      <3> QED
        BY <2>2, <3>1, RankedFew
    <2>6. IsFiniteSet(W) /\ Cardinality(W) <= Cardinality(C)
      <3> DEFINE f == [i \in C |-> order[i]]
      <3>1. f \in [C -> W] /\ \A t \in W : \E i \in C : f[i] = t
        <4> HIDE DEF C
        <4> QED
          BY <2>3
      <3>2. f \in Surjection(C, W)
        <4> HIDE DEF f, C, W
        <4> QED
          BY <3>1, Zenon DEF Surjection
      <3> HIDE DEF f, C, W
      <3> QED
        BY <2>5, <3>2, FS_Surjection
    <2>7. W # {} => Cardinality(W) + busy <= MaxWorkers
      <3>1. Cardinality(W) \in Nat /\ Cardinality(C) \in Nat /\ Cardinality(W) <= slots
        <4> HIDE DEF W, C, slots
        <4> QED
          BY <2>2, <2>5, <2>6, FS_CardinalityType
      <3>2. W # {} => Cardinality(W) # 0
        <4> HIDE DEF W
        <4> QED
          BY <2>6, FS_EmptySet
      <3> HIDE DEF W, C
      <3> QED
        BY <2>2, <3>1, <3>2, GraphsAssumption
    <2>8. ASSUME NEW s \in W, NEW t \in W, s # t PROVE dag[s].writes \cap dag[t].writes = {}
      <3>1. /\ WritesOrdered(dag)
            /\ \A x \in DOMAIN dag : dag[x].deps \subseteq DOMAIN dag \ {x}
        BY <2>1 DEF ValidDag
      <3>2. /\ s \in DOMAIN dag \ done /\ t \in DOMAIN dag \ done
            /\ dag[s].deps \subseteq done /\ dag[t].deps \subseteq done
        BY <2>4, <2>8
      <3> HIDE DEF W, dag
      <3> QED
        BY <1>a, <2>8, <3>1, <3>2, PendingApart
    <2>9. WaveFits(W, dag, pending, done, free, busy)
      <3> HIDE DEF W
      <3> QED
        BY <2>4, <2>6, <2>7, <2>8 DEF WaveFits
    <2> QED
      BY <2>9 DEF W
  <1> QED
    BY <1>0, <1>a

-----------------------------------------------------------------------------
(* The inductive invariant.  Its parts are operators of the variables they   *)
(* speak of, so that a step which leaves those alone leaves the part alone.  *)

ChildStates  == {"missing", "running", "retrying", "recovery_required",
                 "succeeded", "failed", "cancelled"}
Alive        == {"running", "retrying", "recovery_required"}
LedgerStates == {"none", "queued", "prepared", "verified", "reconciliation_required"} \cup Closed
GateStates   == {"pending", "passed", "failed", "reconciliation_required"}
Publishing   == {"publish", "forward"}
Reconciles   == {"observe", "forward", "reobserve"}
Working      == {"process", "publish"} \cup Reconciles

(* Exactly the live tasks hold leases, no more than there are workers and    *)
(* never two on one repository; a child that is alive, and a driver that the *)
(* tick waits for, belong to a live task.                                    *)
LeasesOk(ph, le, ch, wt) ==
  /\ DOMAIN ph = Tasks /\ DOMAIN wt = Tasks /\ DOMAIN ch = Tasks
  /\ \A t \in Tasks : ch[t] \in ChildStates
  /\ \A t \in Tasks : ch[t] \in Alive => ph[t] \in Live
  /\ \A t \in Tasks : wt[t] # Nothing => ph[t] \in Live
  /\ le = {t \in Tasks : ph[t] \in Live}
  /\ Cardinality(le) <= MaxWorkers
  /\ \A s, t \in le : s # t => Writes[s] \cap Writes[t] = {}

(* A tick works on one of the two graphs. *)
TickOk(p, tk, g) ==
  /\ g \in {1, 2}
  /\ DOMAIN tk = {"rev", "unresolved", "again", "half"}
  /\ p # "idle" => tk.rev \in {1, 2}

(* Only tasks of the epic are reported. *)
ReportOk(rp, rg) ==
  /\ rg \subseteq Interrupted
  /\ rp # "none" \/ rg # {} => Interrupted \subseteq Tasks

(* A task that was never dispatched has no wave. *)
DispatchOk(ph, wv, last) ==
  /\ DOMAIN wv = Tasks /\ last \in Nat
  /\ \A t \in Tasks : wv[t] \in Nat /\ wv[t] <= last
  /\ \A t \in Tasks : ph[t] \in {"absent", "not_started"} => wv[t] = 0

(* The gates of a task pass when its entry is integrated; what a dispatched  *)
(* task was planned on is integrated.                                        *)
GatesOk(ph, ga, wv, led) ==
  /\ ga \in [Tasks -> GateStates]
  /\ \A t \in Tasks : ga[t] = "passed" => led[t] = "integrated"
  /\ \A t \in Tasks : wv[t] > 0 =>
        \A p \in Needs[t] : ph[p] = "succeeded" /\ ga[p] = "passed"

(* Entries belong to dispatched tasks, in the order of their waves: those    *)
(* that are integrated precede those that are open.  Only a task that        *)
(* succeeded has an entry that is prepared or further.                       *)
EntriesOk(ph, wv, led, ord) ==
  /\ led \in [Tasks -> LedgerStates] /\ ord \in [Tasks -> Nat]
  /\ \A t \in Tasks : led[t] # "none" => wv[t] > 0
  /\ \A t \in Tasks : led[t] \in {"prepared", "verified", "reconciliation_required", "integrated"} =>
        ph[t] = "succeeded"
  /\ \A s, t \in Tasks : led[s] # "none" /\ led[t] = "none" /\ wv[t] > 0 => wv[s] < wv[t]
  /\ \A s, t \in Tasks : s # t /\ led[s] # "none" /\ led[t] # "none" => ord[s] # ord[t]
  /\ \A s, t \in Tasks : led[s] = "integrated" /\ t \in Open(led) => ord[s] < ord[t]

(* A candidate adds its task to a branch that did not have it. *)
CandidatesOk(led, cand) ==
  /\ DOMAIN cand = Tasks
  /\ \A t \in Tasks :
        /\ DOMAIN cand[t] \in {{}, Writes[t]}
        /\ led[t] \in {"prepared", "verified"} => DOMAIN cand[t] = Writes[t]
        /\ \A r \in DOMAIN cand[t] :
              /\ cand[t][r].from \in Seq(Tasks \cup {Outside})
              /\ cand[t][r].to = Append(cand[t][r].from, t)
              /\ t \notin ToSet(cand[t][r].from)

(* A task that is merged somewhere and not integrated is the first of the    *)
(* open entries.                                                             *)
IsFirst(t, led, ord) == t \in Open(led) /\ \A s \in Open(led) : s # t => ord[t] < ord[s]

BranchesOk(led, ord, rf) ==
  /\ rf \in [Repos -> Seq(Tasks \cup {Outside})]
  /\ \A t \in Tasks, r \in Repos : t \in ToSet(rf[r]) /\ led[t] # "integrated" =>
        /\ led[t] \in {"verified", "reconciliation_required"}
        /\ IsFirst(t, led, ord)

(* The service works on the first open entry; a repository it has published  *)
(* holds the task.                                                           *)
WorkOk(p, ph, led, ord, cand, rf, cur, td) ==
  /\ p \in Working => cur \in Tasks /\ ph[cur] = "succeeded" /\ IsFirst(cur, led, ord)
  /\ p = "process" => led[cur] # "reconciliation_required"
  /\ p = "publish" =>
        /\ led[cur] = "verified" /\ td \subseteq Writes[cur]
        /\ \A r \in Writes[cur] \ td : cur \in ToSet(rf[r])
  /\ p \in Reconciles => led[cur] = "reconciliation_required"
  /\ p = "forward" => td \subseteq DOMAIN cand[cur]

EpicInv ==
  /\ LeasesOk(phase, leased, child, waiting)
  /\ TickOk(pc, tick, graphRev)
  /\ ReportOk(replan, reporting)
  /\ DispatchOk(phase, wave, waves)
  /\ GatesOk(phase, gates, wave, ledger)
  /\ EntriesOk(phase, wave, ledger, ordinal)
  /\ CandidatesOk(ledger, candidate)
  /\ BranchesOk(ledger, ordinal, refs)
  /\ WorkOk(pc, phase, ledger, ordinal, candidate, refs, current, todo)

-----------------------------------------------------------------------------
(* The integration order: the dispatches before a task are fewer than those  *)
(* before a later one.                                                       *)
LEMMA BeforeIsOrder ==
  ASSUME NEW s \in Tasks, NEW t \in Tasks, NEW u \in Tasks, \A x \in Tasks : wave[x] \in Nat
  PROVE  /\ Before(s, t) /\ Before(t, u) => Before(s, u)
         /\ ~ Before(s, s)
         /\ s # t => Before(s, t) \/ Before(t, s)
         /\ Before(s, t) => ~ Before(t, s)
         /\ wave[s] < wave[t] => Before(s, t)
         /\ Before(s, t) => wave[s] <= wave[t]
  <1>1. s \in Nat /\ t \in Nat /\ u \in Nat
    BY TasksFinite
  <1> QED
    BY <1>1 DEF Before

LEMMA PlacesGrow ==
  ASSUME \A x \in Tasks : wave[x] \in Nat
  PROVE  /\ \A t \in Tasks : Place(t) \in Nat
         /\ \A s \in Dispatched, t \in Dispatched : Before(s, t) => Place(s) < Place(t)
  <1> DEFINE ahead(t) == {s \in Dispatched \ {t} : Before(s, t)}
  <1>1. ASSUME NEW t \in Tasks PROVE IsFiniteSet(ahead(t)) /\ Cardinality(ahead(t)) \in Nat
    <2>1. ahead(t) \in SUBSET Tasks
      BY DEF Dispatched
    <2> HIDE DEF ahead
    <2> QED
      BY <2>1, TasksFinite, FS_Subset, FS_CardinalityType
  <1>2. ASSUME NEW s \in Dispatched, NEW t \in Dispatched, Before(s, t)
        PROVE  Cardinality(ahead(s)) < Cardinality(ahead(t))
    <2>0. s \in Tasks /\ t \in Tasks
      BY DEF Dispatched
    <2>1. s \notin ahead(s)
      OBVIOUS
    <2>2. ahead(s) \cup {s} \subseteq ahead(t)
      <3>1. s \in ahead(t)
        BY <1>2, <2>0, BeforeIsOrder
      <3>2. ASSUME NEW x \in ahead(s) PROVE x \in ahead(t)
        <4>1. x \in Tasks /\ Before(x, s)
          BY DEF Dispatched
        <4>2. Before(x, t) /\ ~ Before(t, t)
          BY <1>2, <2>0, <4>1, BeforeIsOrder
        <4> QED
          BY <4>2
      <3> QED
        BY <3>1, <3>2
    <2> HIDE DEF ahead
    <2>3. Cardinality(ahead(s) \cup {s}) = Cardinality(ahead(s)) + 1
      BY <1>1, <2>0, <2>1, FS_AddElement
    <2>4. Cardinality(ahead(s) \cup {s}) <= Cardinality(ahead(t))
      BY <1>1, <2>0, <2>2, FS_Subset
    <2> QED
      BY <1>1, <2>0, <2>3, <2>4
  <1>3. \A t \in Tasks : Place(t) = 1 + Cardinality(ahead(t))
    BY DEF Place
  <1> HIDE DEF ahead
  <1> QED
    BY <1>1, <1>2, <1>3 DEF Dispatched

(* The first open entry is the only one of its ordinal. *)
LEMMA FirstIsFirst ==
  ASSUME EntriesOk(phase, wave, ledger, ordinal), HasEntry
  PROVE  IsFirst(First, ledger, ordinal)
  <1>1. Open(ledger) \in SUBSET Tasks /\ Open(ledger) # {}
    BY DEF Open, HasEntry
  <1>2. \A t \in Tasks : ordinal[t] \in Nat
    BY DEF EntriesOk
  <1>3. First \in Open(ledger) /\ \A s \in Open(ledger) : ordinal[First] <= ordinal[s]
    BY <1>1, <1>2, FirstInOrder DEF First
  <1>4. \A s \in Open(ledger) : ledger[s] # "none" /\ s \in Tasks
    BY DEF Open
  <1> QED
    BY <1>2, <1>3, <1>4 DEF IsFirst, EntriesOk

-----------------------------------------------------------------------------
(* An open entry moves on: what becomes of each part of the invariant. *)
Steps == {"prepared", "verified", "reconciliation_required", "integrated", "failed"}

LEMMA EntryMoves ==
  ASSUME NEW ph, NEW wv, NEW led, NEW ord, EntriesOk(ph, wv, led, ord),
         NEW t \in Open(led), NEW x \in Steps,
         x = "failed" \/ ph[t] = "succeeded",
         x = "integrated" => IsFirst(t, led, ord)
  PROVE  EntriesOk(ph, wv, [led EXCEPT ![t] = x], ord)
  <1> DEFINE new == [led EXCEPT ![t] = x]
  <1>1. /\ t \in Tasks /\ DOMAIN new = Tasks
        /\ \A s \in Tasks : new[s] = IF s = t THEN x ELSE led[s]
        /\ led[t] \notin Closed \cup {"none"} /\ x # "none"
    BY DEF EntriesOk, Open, Steps
  <1>2. /\ Open(new) \subseteq Open(led)
        /\ x = "integrated" => t \notin Open(new)
    BY <1>1 DEF Open, Closed
  <1>3. \A s, u \in Tasks : new[s] = "integrated" /\ u \in Open(new) => ord[s] < ord[u]
    BY <1>1, <1>2 DEF EntriesOk, IsFirst
  <1>5. new \in [Tasks -> LedgerStates]
    BY DEF EntriesOk, Steps, LedgerStates, Closed
  <1> HIDE DEF new
  <1>4. EntriesOk(ph, wv, new, ord)
    BY <1>1, <1>3, <1>5 DEF EntriesOk, Steps
  <1> QED
    BY <1>4 DEF new

LEMMA GateMoves ==
  ASSUME NEW ph, NEW ga, NEW wv, NEW led, GatesOk(ph, ga, wv, led), DOMAIN led = Tasks,
         NEW t \in Open(led), NEW x, NEW y \in GateStates, y = "passed" => x = "integrated"
  PROVE  /\ GatesOk(ph, [ga EXCEPT ![t] = y], wv, [led EXCEPT ![t] = x])
         /\ GatesOk(ph, ga, wv, [led EXCEPT ![t] = x])
  BY DEF GatesOk, Open, Closed

LEMMA BranchMoves ==
  ASSUME NEW led, NEW ord, NEW rf, BranchesOk(led, ord, rf), DOMAIN led = Tasks,
         NEW t \in Open(led), NEW x \in Steps,
         x \in {"verified", "reconciliation_required", "integrated"}
           \/ \A r \in Repos : t \notin ToSet(rf[r])
  PROVE  BranchesOk([led EXCEPT ![t] = x], ord, rf)
  <1> DEFINE new == [led EXCEPT ![t] = x]
  <1>1. /\ t \in Tasks
        /\ \A s \in Tasks : new[s] = IF s = t THEN x ELSE led[s]
        /\ Open(new) \subseteq Open(led)
        /\ x \notin Closed => Open(new) = Open(led)
    BY DEF Open, Steps, Closed
  <1>2. ASSUME NEW s \in Tasks, NEW r \in Repos, s \in ToSet(rf[r]), new[s] # "integrated"
        PROVE  new[s] \in {"verified", "reconciliation_required"} /\ IsFirst(s, new, ord)
    <2>1. led[s] # "integrated"
      BY <1>1, <1>2 DEF Open, Closed
    <2>2. IsFirst(s, led, ord) /\ led[s] \in {"verified", "reconciliation_required"}
      BY <1>2, <2>1 DEF BranchesOk
    <2>3. new[s] \in {"verified", "reconciliation_required"}
      BY <1>1, <1>2, <2>2
    <2>4. s \in Open(new)
      BY <2>3 DEF Open, Closed
    <2> HIDE DEF new
    <2> QED
      BY <1>1, <2>2, <2>3, <2>4 DEF IsFirst
  <1> HIDE DEF new
  <1>3. BranchesOk(new, ord, rf)
    BY <1>2 DEF BranchesOk
  <1> QED
    BY <1>3 DEF new

LEMMA CandidateMoves ==
  ASSUME NEW led, NEW cand, CandidatesOk(led, cand), DOMAIN led = Tasks,
         NEW t \in Open(led), NEW x,
         x \in {"prepared", "verified"} => DOMAIN cand[t] = Writes[t]
  PROVE  CandidatesOk([led EXCEPT ![t] = x], cand)
  BY DEF CandidatesOk, Open

-----------------------------------------------------------------------------
LEMMA InitEpic == Init => EpicInv
  <1> SUFFICES ASSUME Init PROVE EpicInv
    OBVIOUS
  <1> USE DEF Init, WaveInit, IntegrationInit
  <1>1. LeasesOk(phase, leased, child, waiting)
    BY FS_EmptySet, GraphsAssumption DEF LeasesOk, Idle, ChildStates, Alive, Live
  <1>2. TickOk(pc, tick, graphRev) /\ ReportOk(replan, reporting)
    BY DEF TickOk, ReportOk, NoTick
  <1>3. DispatchOk(phase, wave, waves)
    BY DEF DispatchOk
  <1>4. GatesOk(phase, gates, wave, ledger)
    BY DEF GatesOk, GateStates
  <1>5. EntriesOk(phase, wave, ledger, ordinal)
    BY DEF EntriesOk, LedgerStates, Closed, Open
  <1>6. CandidatesOk(ledger, candidate)
    BY DEF CandidatesOk, Empty
  <1>7. BranchesOk(ledger, ordinal, refs)
    BY DEF BranchesOk, ToSet
  <1>8. WorkOk(pc, phase, ledger, ordinal, candidate, refs, current, todo)
    BY DEF WorkOk, Working, Reconciles
  <1> QED
    BY <1>1, <1>2, <1>3, <1>4, <1>5, <1>6, <1>7, <1>8 DEF EpicInv

(* Rows that are created, and phases that change without settling a live     *)
(* task or touching one that succeeded, leave the entries alone.             *)
LEMMA PhaseMoves ==
  ASSUME NEW ph, NEW new, DOMAIN new = Tasks,
         \A t \in Tasks : ph[t] = "succeeded" => new[t] = "succeeded",
         NEW ga, NEW wv, NEW led, NEW ord, NEW cand, NEW rf, NEW p, NEW cur, NEW td
  PROVE  /\ GatesOk(ph, ga, wv, led) => GatesOk(new, ga, wv, led)
         /\ EntriesOk(ph, wv, led, ord) => EntriesOk(new, wv, led, ord)
         /\ WorkOk(p, ph, led, ord, cand, rf, cur, td) =>
               WorkOk(p, new, led, ord, cand, rf, cur, td)
  <1>1. GatesOk(ph, ga, wv, led) => GatesOk(new, ga, wv, led)
    BY DEF GatesOk, Needs
  <1>2. EntriesOk(ph, wv, led, ord) => EntriesOk(new, wv, led, ord)
    BY DEF EntriesOk
  <1>3. ASSUME WorkOk(p, ph, led, ord, cand, rf, cur, td)
        PROVE  WorkOk(p, new, led, ord, cand, rf, cur, td)
    BY <1>3 DEF WorkOk
  <1> QED
    BY <1>1, <1>2, <1>3

(* Outside the working places the service holds nothing. *)
LEMMA NoWork ==
  ASSUME NEW p, p \notin Working,
         NEW ph, NEW led, NEW ord, NEW cand, NEW rf, NEW cur, NEW td
  PROVE  WorkOk(p, ph, led, ord, cand, rf, cur, td)
  BY DEF WorkOk, Working, Reconciles

-----------------------------------------------------------------------------
(* The children and their drivers. *)
LEMMA ChildStep ==
  ASSUME EpicInv, NEW t \in Tasks, Ends(t) \/ Wavers(t)
  PROVE  EpicInv'
  <1>1. /\ child[t] \in Alive
        /\ \E s \in ChildStates : child' = [child EXCEPT ![t] = s]
        /\ UNCHANGED <<storeVars, tickVars, told, integVars, epicVars>>
    BY DEF Ends, Wavers, ChildEnds, ChildRetries, ChildResumes, ChildIsLost, Alive, ChildStates
  <1>2. LeasesOk(phase, leased, child', waiting)
    BY <1>1 DEF EpicInv, LeasesOk
  <1> QED
    BY <1>1, <1>2 DEF EpicInv, storeVars, tickVars, integVars, ledgerVars, workVars, epicVars

LEMMA ArrivesStep ==
  ASSUME EpicInv, NEW t \in Tasks, Arrives(t)
  PROVE  EpicInv'
  BY DEF EpicInv, Arrives, CancelArrives, storeVars, integVars, ledgerVars, workVars, epicVars

LEMMA ReleaseKeeps ==
  ASSUME NEW S, NEW T \in SUBSET S, IsFiniteSet(S), Cardinality(S) <= MaxWorkers
  PROVE  Cardinality(T) <= MaxWorkers
  BY FS_Subset, FS_CardinalityType, GraphsAssumption

LEMMA AnswersStep ==
  ASSUME EpicInv, NEW t \in Tasks, Answers(t)
  PROVE  EpicInv'
  <1> USE DEF Answers, DriverAnswers
  <1>1. waiting[t] # Nothing /\ phase[t] \in Live
    BY DEF EpicInv, LeasesOk
  <1>2. /\ waiting' = [waiting EXCEPT ![t] = Nothing]
        /\ child' = IF Starts(t) THEN [child EXCEPT ![t] = "running"] ELSE child
        /\ UNCHANGED <<told, calls, gates, wave, waves, integVars, epicVars>>
    BY DEF SetPhase, storeVars
  <1>3. PICK status \in IF Starts(t) THEN {"running"} ELSE StatusesOf(t) :
           LET was  == IF waiting[t].why = "start" THEN phase[t] ELSE waiting[t].phase
               want == Wanted(was, status)
           IN \/ /\ ~Refused(t, want)
                 /\ SetPhase(t, want)
                 /\ UNCHANGED <<pc, tick>>
              \/ /\ Refused(t, want)
                 /\ pc' = "idle" /\ tick' = NoTick
                 /\ UNCHANGED storeVars
    OBVIOUS
  <1> DEFINE was  == IF waiting[t].why = "start" THEN phase[t] ELSE waiting[t].phase
             want == Wanted(was, status)
  <1>4. /\ status \in ChildStates \cup {"cancelling"}
        /\ Starts(t) => status = "running"
        /\ status \in Settled => ~ (child[t] \in Alive) /\ ~ Starts(t)
    BY <1>3 DEF StatusesOf, EpicInv, LeasesOk, ChildStates, Alive, ChildAlive, Settled
  <1>5. /\ want \in {"keep", "active", "recovery_required", "retrying", "cancelling"} \cup Settled
        /\ want \in Settled => want = status
    BY <1>4 DEF Wanted, ChildStates, Settled
  <1>6. CASE Refused(t, want) /\ pc' = "idle" /\ tick' = NoTick /\ UNCHANGED storeVars
    <2>1. LeasesOk(phase, leased, child', waiting')
      BY <1>1, <1>2 DEF EpicInv, LeasesOk, ChildStates, Starts
    <2>2. WorkOk(pc', phase, ledger, ordinal, candidate, refs, current, todo)
      BY <1>6, NoWork DEF Working, Reconciles
    <2>3. TickOk(pc', tick', graphRev)
      BY <1>6 DEF TickOk, NoTick, EpicInv
    <2> QED
      BY <1>2, <1>6, <2>1, <2>2, <2>3
      DEF EpicInv, storeVars, integVars, ledgerVars, workVars, epicVars
  <1>7. CASE ~Refused(t, want) /\ SetPhase(t, want) /\ UNCHANGED <<pc, tick>>
    <2>1. /\ phase' = IF want = "keep" THEN phase ELSE [phase EXCEPT ![t] = want]
          /\ leased' = IF want \in Settled THEN leased \ {t} ELSE leased
      BY <1>7 DEF SetPhase
    <2>2. LeasesOk(phase', leased', child', waiting')
      <3>1. /\ DOMAIN phase' = Tasks /\ DOMAIN waiting' = Tasks /\ DOMAIN child' = Tasks
            /\ \A s \in Tasks : child'[s] \in ChildStates
        BY <1>2, <2>1 DEF EpicInv, LeasesOk, ChildStates
      <3>2. \A s \in Tasks : child'[s] \in Alive => phase'[s] \in Live
        BY <1>1, <1>2, <1>4, <1>5, <2>1 DEF EpicInv, LeasesOk, Live, Settled, Alive
      <3>3. \A s \in Tasks : waiting'[s] # Nothing => phase'[s] \in Live
        BY <1>1, <1>2, <2>1 DEF EpicInv, LeasesOk
      <3>4. leased' = {s \in Tasks : phase'[s] \in Live}
        <4>1. leased = {s \in Tasks : phase[s] \in Live} /\ DOMAIN phase = Tasks
          BY DEF EpicInv, LeasesOk
        <4> HIDE DEF want, was
        <4> QED
          BY <1>1, <1>5, <2>1, <4>1 DEF Live, Settled
      <3>5. leased' \subseteq leased
        BY <2>1
      <3>6. IsFiniteSet(leased) /\ Cardinality(leased) <= MaxWorkers
        BY TasksFinite, FS_Subset DEF EpicInv, LeasesOk
      <3>7. Cardinality(leased') <= MaxWorkers
        BY <3>5, <3>6, ReleaseKeeps
      <3>8. \A s, u \in leased' : s # u => Writes[s] \cap Writes[u] = {}
        BY <3>5 DEF EpicInv, LeasesOk
      <3> QED
        BY <3>1, <3>2, <3>3, <3>4, <3>7, <3>8 DEF LeasesOk
    <2>3. /\ DOMAIN phase' = Tasks
          /\ \A s \in Tasks : phase[s] = "succeeded" => phase'[s] = "succeeded"
          /\ \A s \in Tasks : phase'[s] \in {"absent", "not_started"} => phase[s] = phase'[s]
      BY <1>1, <1>5, <2>1 DEF EpicInv, LeasesOk, Live, Settled
    <2>4. /\ GatesOk(phase', gates, wave, ledger)
          /\ EntriesOk(phase', wave, ledger, ordinal)
          /\ WorkOk(pc, phase', ledger, ordinal, candidate, refs, current, todo)
      BY <2>3, PhaseMoves DEF EpicInv
    <2>5. DispatchOk(phase', wave, waves)
      BY <2>3 DEF EpicInv, DispatchOk
    <2> QED
      BY <1>2, <1>7, <2>2, <2>4, <2>5
      DEF EpicInv, integVars, ledgerVars, workVars, epicVars
  <1> QED
    BY <1>3, <1>6, <1>7

-----------------------------------------------------------------------------
(* The tick of the scheduler. *)

LEMMA BeginKeeps ==
  ASSUME EpicInv, NEW rev \in {1, 2}, NEW u, NEW a, BeginTick(rev, u, a),
         ReportOk(replan', reporting'), graphRev' = graphRev
  PROVE  EpicInv'
  <1>1. /\ DOMAIN phase' = Tasks
        /\ \A t \in Tasks : phase'[t] = phase[t] \/ (phase[t] = "absent" /\ phase'[t] = "not_started")
    <2>1. phase' = Initialized(rev)
      BY DEF BeginTick
    <2> QED
      BY <2>1 DEF Initialized
  <1>2. LeasesOk(phase', leased, child, waiting')
    <2>1. DOMAIN waiting' = Tasks /\ \A t \in Tasks : waiting'[t] # Nothing => phase[t] \in Live
      BY DEF BeginTick, Reconciling
    <2>2. \A t \in Tasks : phase'[t] \in Live <=> phase[t] \in Live
      BY <1>1 DEF Live
    <2> QED
      BY <1>1, <2>1, <2>2 DEF EpicInv, LeasesOk
  <1>3. /\ GatesOk(phase', gates, wave, ledger)
        /\ EntriesOk(phase', wave, ledger, ordinal)
    BY <1>1, PhaseMoves DEF EpicInv
  <1>4. DispatchOk(phase', wave, waves)
    BY <1>1 DEF EpicInv, DispatchOk
  <1>5. WorkOk(pc', phase', ledger, ordinal, candidate, refs, current, todo)
    BY NoWork DEF BeginTick, Working, Reconciles
  <1>6. TickOk(pc', tick', graphRev)
    BY DEF BeginTick, EpicInv, TickOk
  <1> QED
    BY <1>2, <1>3, <1>4, <1>5, <1>6
    DEF EpicInv, BeginTick, integVars, ledgerVars, workVars, childVars

LEMMA TickBeginsStep ==
  ASSUME EpicInv, TickBegins
  PROVE  EpicInv'
  <1>1. graphRev \in {1, 2} /\ ReportOk(replan', reporting') /\ graphRev' = graphRev
    BY DEF EpicInv, TickOk, TickBegins, epicVars
  <1> QED
    BY <1>1, BeginKeeps DEF TickBegins

LEMMA ResumesStep ==
  ASSUME EpicInv, Resumes
  PROVE  EpicInv'
  <1>1. graphRev \in {1, 2} /\ ReportOk(replan', reporting') /\ graphRev' = graphRev
    BY DEF EpicInv, TickOk, ReportOk, Resumes, Advance
  <1> QED
    BY <1>1, BeginKeeps DEF Resumes

(* Propagation blocks tasks that have not started. *)
LEMMA PropagatedPhases ==
  ASSUME DOMAIN phase = Tasks
  PROVE  /\ DOMAIN Propagated = Tasks
         /\ \A t \in Tasks : \/ Propagated[t] = phase[t]
                             \/ phase[t] = "not_started" /\ Propagated[t] = "blocked"
  BY DEF Propagated, Blocked, TasksIn

LEMMA SchedulerEndsStep ==
  ASSUME EpicInv, SchedulerEnds
  PROVE  EpicInv'
  <1>1. /\ DOMAIN phase' = Tasks
        /\ \A t \in Tasks : phase'[t] = phase[t] \/ (phase[t] = "not_started" /\ phase'[t] = "blocked")
    <2>1. phase' = Propagated
      BY DEF SchedulerEnds
    <2>2. DOMAIN phase = Tasks
      BY DEF EpicInv, LeasesOk
    <2> QED
      BY <2>1, <2>2, PropagatedPhases
  <1>2. LeasesOk(phase', leased, child, waiting)
    BY <1>1 DEF EpicInv, LeasesOk, Live
  <1>3. /\ GatesOk(phase', gates, wave, ledger)
        /\ EntriesOk(phase', wave, ledger, ordinal)
    BY <1>1, PhaseMoves DEF EpicInv
  <1>4. DispatchOk(phase', wave, waves)
    BY <1>1 DEF EpicInv, DispatchOk
  <1>5. WorkOk(pc', phase', ledger, ordinal, candidate, refs, current, todo)
    BY NoWork DEF SchedulerEnds, Working, Reconciles
  <1>6. TickOk(pc', tick', graphRev)
    BY DEF SchedulerEnds, EpicInv, TickOk, NoTick
  <1> QED
    BY <1>2, <1>3, <1>4, <1>5, <1>6
    DEF EpicInv, SchedulerEnds, integVars, ledgerVars, workVars, childVars, epicVars

(* The wave the tick plans. *)
LEMMA SelectedFits ==
  ASSUME EpicInv, pc # "idle"
  PROVE  /\ Selected \subseteq {t \in DOMAIN Dag : phase[t] = "not_started"}
         /\ tick.rev \in {1, 2} /\ DOMAIN Dag \subseteq Tasks
         /\ WaveFits(Selected, Dag, {t \in DOMAIN Dag : phase[t] = "not_started"} \ Blocked, Done,
                     Repos \ UNION {Writes[t] : t \in leased}, Cardinality(leased))
  <1>1. tick.rev \in {1, 2} /\ Dag = Dags[tick.rev] /\ DOMAIN Dag \subseteq Tasks
    BY WritesOfGraph DEF EpicInv, TickOk, Dag
  <1> DEFINE pending == {t \in DOMAIN Dag : phase[t] = "not_started"} \ Blocked
  <1>2. pending \in SUBSET DOMAIN Dag /\ \A t \in pending : phase[t] = "not_started"
    OBVIOUS
  <1>3. Done \in SUBSET Begun /\ pending \cap Done = {}
    BY <1>2 DEF Done, Begun, TasksIn
  <1>4. Cardinality(leased) \in Nat
    BY TasksFinite, FS_Subset, FS_CardinalityType DEF EpicInv, LeasesOk
  <1> HIDE DEF pending
  <1>5. WaveFits(Selected, Dag, pending, Done,
                 Repos \ UNION {Writes[t] : t \in leased}, Cardinality(leased))
    BY <1>1, <1>2, <1>3, <1>4, WaveIsFit DEF Selected, pending
  <1> QED
    BY <1>1, <1>2, <1>5 DEF WaveFits, pending

LEMMA PlansStep ==
  ASSUME EpicInv, Plans
  PROVE  EpicInv'
  <1>0. pc # "idle" /\ pc' = "starting"
    BY DEF Plans
  <1>1. /\ Selected \subseteq {t \in DOMAIN Dag : phase[t] = "not_started"}
        /\ tick.rev \in {1, 2} /\ DOMAIN Dag \subseteq Tasks
        /\ WaveFits(Selected, Dag, {t \in DOMAIN Dag : phase[t] = "not_started"} \ Blocked, Done,
                    Repos \ UNION {Writes[t] : t \in leased}, Cardinality(leased))
    BY <1>0, SelectedFits
  <1>2. /\ Selected \subseteq Tasks
        /\ phase' = [t \in Tasks |-> IF t \in Selected THEN "dispatching" ELSE Propagated[t]]
        /\ leased' = leased \cup Selected
        /\ wave' = [t \in Tasks |-> IF t \in Selected THEN waves + 1 ELSE wave[t]]
        /\ waves' = IF Selected = {} THEN waves ELSE waves + 1
        /\ waiting' = [t \in Tasks |-> IF t \in Selected
                                       THEN [why |-> "start", phase |-> "dispatching"] ELSE Nothing]
        /\ UNCHANGED <<gates, childVars, calls, tick, trouble, integVars, epicVars>>
    BY <1>1 DEF Plans, Dispatch
  <1>3. /\ DOMAIN phase' = Tasks
        /\ \A t \in Tasks : \/ t \in Selected /\ phase[t] = "not_started" /\ phase'[t] = "dispatching"
                            \/ t \notin Selected /\ phase'[t] = phase[t]
                            \/ t \notin Selected /\ phase[t] = "not_started" /\ phase'[t] = "blocked"
    BY <1>1, <1>2, PropagatedPhases DEF EpicInv, LeasesOk
  <1>4. LeasesOk(phase', leased', child, waiting')
    <2>1. /\ DOMAIN waiting' = Tasks /\ DOMAIN phase' = Tasks
          /\ \A t \in Tasks : waiting'[t] # Nothing => phase'[t] \in Live
      BY <1>2, <1>3 DEF Live
    <2>2. \A t \in Tasks : child[t] \in Alive => phase'[t] \in Live
      BY <1>3 DEF EpicInv, LeasesOk, Live
    <2>3. leased' = {t \in Tasks : phase'[t] \in Live}
      <3>1. leased = {t \in Tasks : phase[t] \in Live}
        BY DEF EpicInv, LeasesOk
      <3> QED
        BY <1>2, <1>3, <3>1 DEF Live
    <2>4. Cardinality(leased') <= MaxWorkers
      <3>1. IsFiniteSet(leased) /\ Cardinality(leased) \in Nat /\ Cardinality(leased) <= MaxWorkers
        BY TasksFinite, FS_Subset, FS_CardinalityType DEF EpicInv, LeasesOk
      <3>2. CASE Selected = {}
        BY <1>2, <3>1, <3>2
      <3>3. CASE Selected # {}
        <4>1. IsFiniteSet(Selected) /\ Cardinality(Selected) \in Nat
              /\ Cardinality(Selected) + Cardinality(leased) <= MaxWorkers
          BY <1>1, <3>3, FS_CardinalityType DEF WaveFits
        <4>2. leased \cap Selected = {}
          BY <1>1 DEF EpicInv, LeasesOk, Live
        <4>3. Cardinality(leased \cup Selected) = Cardinality(leased) + Cardinality(Selected)
          <5>1. Cardinality(leased \cup Selected)
                  = Cardinality(leased) + Cardinality(Selected) - Cardinality(leased \cap Selected)
            BY <3>1, <4>1, FS_Union
          <5>2. Cardinality(leased \cap Selected) = 0
            BY <4>2, FS_EmptySet
          <5> QED
            BY <3>1, <4>1, <5>1, <5>2
        <4> QED
          BY <1>2, <3>1, <4>1, <4>3
      <3> QED
        BY <3>2, <3>3
    <2>5. \A s, t \in leased' : s # t => Writes[s] \cap Writes[t] = {}
      <3>1. \A t \in Selected : t \in DOMAIN Dag /\ Writes[t] = Dag[t].writes
        BY <1>1, WritesOfGraph DEF Dag
      <3>2. \A s \in leased, t \in Selected : Writes[s] \cap Writes[t] = {}
        BY <1>1, <3>1 DEF WaveFits
      <3>3. \A s, t \in Selected : s # t => Writes[s] \cap Writes[t] = {}
        BY <1>1, <3>1 DEF WaveFits
      <3>4. \A s, t \in leased : s # t => Writes[s] \cap Writes[t] = {}
        BY DEF EpicInv, LeasesOk
      <3> QED
        BY <1>2, <3>2, <3>3, <3>4
    <2> QED
      BY <2>1, <2>2, <2>3, <2>4, <2>5 DEF LeasesOk, EpicInv
  <1>5. DispatchOk(phase', wave', waves')
    BY <1>2, <1>3 DEF EpicInv, DispatchOk
  <1>6. GatesOk(phase', gates, wave', ledger)
    <2>1. ASSUME NEW t \in Selected, NEW p \in Needs[t]
          PROVE  phase[p] = "succeeded" /\ gates[p] = "passed" /\ p \in Tasks
      <3>1. t \in DOMAIN Dags[tick.rev] /\ t \in Tasks /\ Dag = Dags[tick.rev]
        BY <1>1 DEF Dag
      <3>2. p \in Tasks /\ p \in Dag[t].deps
        BY <1>1, <2>1, <3>1 DEF Needs
      <3>3. p \in Done
        BY <1>1, <3>2 DEF WaveFits
      <3> QED
        BY <3>2, <3>3 DEF Done, TasksIn
    <2>2. \A t \in Tasks : phase[t] = "succeeded" => phase'[t] = "succeeded"
      BY <1>3
    <2>3. \A t \in Tasks : Needs[t] \subseteq Tasks
      BY DEF Needs
    <2> QED
      BY <1>2, <2>1, <2>2, <2>3 DEF EpicInv, GatesOk
  <1>7. EntriesOk(phase', wave', ledger, ordinal)
    <2>1. \A t \in Selected : wave[t] = 0 /\ ledger[t] = "none" /\ wave'[t] = waves + 1 /\ t \in Tasks
      BY <1>1, <1>2 DEF EpicInv, DispatchOk, EntriesOk
    <2>2. \A t \in Tasks : wave[t] \in Nat /\ wave[t] <= waves /\ waves \in Nat
      BY DEF EpicInv, DispatchOk
    <2>3. \A t \in Tasks \ Selected : wave'[t] = wave[t]
      BY <1>2
    <2>4. \A t \in Tasks : phase[t] = "succeeded" => phase'[t] = "succeeded"
      BY <1>3
    <2>5. \A s, t \in Tasks : ledger[s] # "none" /\ ledger[t] = "none" /\ wave'[t] > 0 => wave'[s] < wave'[t]
      BY <2>1, <2>2, <2>3 DEF EpicInv, EntriesOk
    <2> QED
      BY <2>1, <2>3, <2>4, <2>5 DEF EpicInv, EntriesOk
  <1>8. WorkOk(pc', phase', ledger, ordinal, candidate, refs, current, todo)
    BY <1>0, NoWork DEF Working, Reconciles
  <1>9. TickOk(pc', tick, graphRev)
    BY <1>1 DEF EpicInv, TickOk
  <1> QED
    BY <1>2, <1>4, <1>5, <1>6, <1>7, <1>8, <1>9
    DEF EpicInv, integVars, ledgerVars, workVars, childVars, epicVars

LEMMA RunsTasksStep ==
  ASSUME EpicInv, RunsTasks
  PROVE  EpicInv'
  <1>1. LeasesOk(phase, leased, child, waiting')
    <2>1. DOMAIN waiting' = Tasks /\ \A t \in Tasks : waiting'[t] # Nothing => phase[t] \in Live
      BY DEF RunsTasks, Running, Live
    <2> QED
      BY <2>1 DEF EpicInv, LeasesOk
  <1>2. TickOk(pc', tick', graphRev)
    BY DEF RunsTasks, EpicInv, TickOk
  <1>3. WorkOk(pc', phase, ledger, ordinal, candidate, refs, current, todo)
    BY NoWork DEF RunsTasks, Working, Reconciles
  <1> QED
    BY <1>1, <1>2, <1>3
    DEF EpicInv, RunsTasks, storeVars, childVars, integVars, ledgerVars, workVars, epicVars

LEMMA DecidesStep ==
  ASSUME EpicInv, Decides
  PROVE  EpicInv'
  <1>1. /\ pc' \in {"idle", "revise"} /\ pc = "decide"
        /\ \/ tick' = tick
           \/ pc' = "idle" /\ tick' = NoTick
        /\ replan' = replan \/ replan # "none"
        /\ UNCHANGED <<storeVars, childVars, waiting, calls, integVars, graphRev, reporting, trouble>>
    BY DEF Decides, Advance
  <1>2. TickOk(pc', tick', graphRev)
    BY <1>1 DEF EpicInv, TickOk, NoTick
  <1>3. WorkOk(pc', phase, ledger, ordinal, candidate, refs, current, todo)
    BY <1>1, NoWork DEF Working, Reconciles
  <1>4. ReportOk(replan', reporting)
    BY <1>1 DEF EpicInv, ReportOk
  <1> QED
    BY <1>1, <1>2, <1>3, <1>4
    DEF EpicInv, storeVars, childVars, integVars, ledgerVars, workVars

LEMMA RevisesStep ==
  ASSUME EpicInv, Revises
  PROVE  EpicInv'
  <1>1. /\ pc' \in {"idle", "resume"} /\ pc = "revise" /\ graphRev' \in {graphRev, 2}
        /\ \/ tick' = tick
           \/ pc' = "idle" /\ tick' = NoTick
        /\ replan' = replan \/ replan # "none"
        /\ UNCHANGED <<storeVars, childVars, waiting, calls, integVars, reporting, trouble>>
    BY DEF Revises, Advance
  <1>2. TickOk(pc', tick', graphRev')
    BY <1>1 DEF EpicInv, TickOk, NoTick
  <1>3. WorkOk(pc', phase, ledger, ordinal, candidate, refs, current, todo)
    BY <1>1, NoWork DEF Working, Reconciles
  <1>4. ReportOk(replan', reporting)
    BY <1>1 DEF EpicInv, ReportOk
  <1> QED
    BY <1>1, <1>2, <1>3, <1>4
    DEF EpicInv, storeVars, childVars, integVars, ledgerVars, workVars

-----------------------------------------------------------------------------
(* Requests, crashes and pushes. *)

(* A cancellation leaves live tasks live and settles only what never started. *)
LEMMA CancelKeeps ==
  ASSUME EpicInv, NEW t \in Tasks, CancelTask(t)
  PROVE  /\ LeasesOk(phase', leased, child, waiting)
         /\ DispatchOk(phase', wave, waves)
         /\ GatesOk(phase', gates, wave, ledger)
         /\ EntriesOk(phase', wave, ledger, ordinal)
         /\ WorkOk(pc, phase', ledger, ordinal, candidate, refs, current, todo)
  <1>1. /\ DOMAIN phase' = Tasks
        /\ \A s \in Tasks : \/ phase'[s] = phase[s]
                            \/ phase[s] = "not_started" /\ phase'[s] = "cancelled"
                            \/ phase[s] \in {"dispatching", "active", "retrying"} /\ phase'[s] = "cancelling"
    <2>1. DOMAIN phase = Tasks
      BY DEF EpicInv, LeasesOk
    <2>2. MayBecome("cancelling") = {"dispatching", "active", "retrying"}
      BY DEF MayBecome, Settled
    <2> QED
      BY <2>1, <2>2 DEF CancelTask
  <1>2. LeasesOk(phase', leased, child, waiting)
    <2>1. \A s \in Tasks : phase'[s] \in Live <=> phase[s] \in Live
      BY <1>1 DEF Live
    <2> QED
      BY <1>1, <2>1 DEF EpicInv, LeasesOk
  <1>3. DispatchOk(phase', wave, waves)
    BY <1>1 DEF EpicInv, DispatchOk
  <1>4. \A s \in Tasks : phase[s] = "succeeded" => phase'[s] = "succeeded"
    BY <1>1
  <1> QED
    BY <1>1, <1>2, <1>3, <1>4, PhaseMoves DEF EpicInv

LEMMA UserCancelsStep ==
  ASSUME EpicInv, NEW t \in Tasks, UserCancels(t), UNCHANGED <<integVars, epicVars>>
  PROVE  EpicInv'
  BY CancelKeeps DEF UserCancels, EpicInv, childVars, integVars, ledgerVars, workVars, epicVars

LEMMA ReportsStep ==
  ASSUME EpicInv, Reports
  PROVE  EpicInv'
  <1> DEFINE left == IF reporting = {} THEN Interrupted ELSE reporting
  <1>1. left # {} /\ left \subseteq Interrupted /\ Interrupted \subseteq Tasks
    BY DEF Reports, MayReport, EpicInv, ReportOk, TasksIn
  <1>2. Min(left) \in Tasks
    <2> HIDE DEF left
    <2>1. left \in SUBSET Nat
      BY <1>1, TasksFinite
    <2> QED
      BY <1>1, <2>1, LowestIsMember
  <1>3. CancelTask(Min(left)) /\ reporting' = left \ {Min(left)}
    BY DEF Reports
  <1> HIDE DEF left
  <1>4. ReportOk(replan', reporting')
    BY <1>1, <1>3 DEF ReportOk
  <1>5. /\ LeasesOk(phase', leased, child, waiting)
        /\ DispatchOk(phase', wave, waves)
        /\ GatesOk(phase', gates, wave, ledger)
        /\ EntriesOk(phase', wave, ledger, ordinal)
        /\ WorkOk(pc, phase', ledger, ordinal, candidate, refs, current, todo)
    BY <1>2, <1>3, CancelKeeps
  <1> QED
    BY <1>4, <1>5 DEF Reports, EpicInv, childVars, integVars, ledgerVars, workVars

LEMMA ForgottenKeeps ==
  ASSUME EpicInv, Forgotten, ReportOk(replan', {})
  PROVE  EpicInv'
  <1>1. LeasesOk(phase, leased, child, waiting')
    BY DEF EpicInv, LeasesOk, Forgotten, Idle
  <1>2. TickOk(pc', tick', graphRev)
    BY DEF EpicInv, TickOk, Forgotten, NoTick
  <1>3. WorkOk(pc', phase, ledger, ordinal, candidate, refs, current', todo')
    BY NoWork DEF Forgotten, Working, Reconciles
  <1> QED
    BY <1>1, <1>2, <1>3 DEF EpicInv, Forgotten, storeVars, childVars, ledgerVars

LEMMA CrashesStep ==
  ASSUME EpicInv, Crashes \/ CrashesInReport
  PROVE  EpicInv'
  <1>1. ReportOk(replan', {})
    BY DEF EpicInv, ReportOk, Crashes, CrashesInReport, MayReport, TasksIn
  <1> QED
    BY <1>1, ForgottenKeeps DEF Crashes, CrashesInReport

(* What a sequence holds after an element is appended. *)
LEMMA AppendHolds ==
  ASSUME NEW S, NEW s \in Seq(S), NEW e \in S
  PROVE  Append(s, e) \in Seq(S) /\ ToSet(Append(s, e)) = ToSet(s) \cup {e}
  <1>1. /\ Append(s, e) \in Seq(S) /\ Len(Append(s, e)) = Len(s) + 1 /\ Len(s) \in Nat
        /\ \A i \in 1..Len(s) : Append(s, e)[i] = s[i]
        /\ Append(s, e)[Len(s) + 1] = e
    OBVIOUS
  <1>2. ToSet(Append(s, e)) = {Append(s, e)[i] : i \in 1..(Len(s) + 1)}
    BY <1>1 DEF ToSet
  <1>3. ToSet(s) = {s[i] : i \in 1..Len(s)}
    BY <1>1 DEF ToSet
  <1> QED
    BY <1>1, <1>2, <1>3

LEMMA PushStep ==
  ASSUME EpicInv, NEW r \in Repos, Push(r)
  PROVE  EpicInv'
  <1>1. refs' = [refs EXCEPT ![r] = Append(refs[r], Outside)]
    BY DEF Push, ExternalPush
  <1>2. DOMAIN refs = Repos /\ \A x \in Repos : refs[x] \in Seq(Tasks \cup {Outside})
    BY DEF EpicInv, BranchesOk
  <1>3. /\ Append(refs[r], Outside) \in Seq(Tasks \cup {Outside})
        /\ ToSet(Append(refs[r], Outside)) = ToSet(refs[r]) \cup {Outside}
    BY <1>2, AppendHolds
  <1>4. /\ refs' \in [Repos -> Seq(Tasks \cup {Outside})]
        /\ \A x \in Repos, t \in Tasks : t \in ToSet(refs'[x]) <=> t \in ToSet(refs[x])
    BY <1>1, <1>2, <1>3, OutsideAssumption
  <1>5. BranchesOk(ledger, ordinal, refs')
    BY <1>4 DEF EpicInv, BranchesOk
  <1>6. WorkOk(pc, phase, ledger, ordinal, candidate, refs', current, todo)
    <2>1. \A t \in Tasks : Writes[t] \subseteq Repos
      BY GraphsAssumption DEF Tasks, Writes
    <2> QED
      BY <1>4, <2>1 DEF EpicInv, WorkOk, Working
  <1> QED
    BY <1>5, <1>6
    DEF EpicInv, Push, ExternalPush, waveVars, storeVars, childVars, tickVars, ledgerVars,
    workVars, epicVars

LEMMA ScanEndsStep ==
  ASSUME EpicInv, ScanEnds
  PROVE  EpicInv'
  <1>1. WorkOk(pc', phase, ledger, ordinal, candidate, refs, current, todo)
    BY NoWork DEF ScanEnds, Working, Reconciles
  <1>2. TickOk(pc', tick, graphRev)
    BY DEF EpicInv, TickOk, ScanEnds
  <1> QED
    BY <1>1, <1>2
    DEF EpicInv, ScanEnds, storeVars, childVars, integVars, ledgerVars, workVars, epicVars

-----------------------------------------------------------------------------
(* The service of the integration ledger. *)

(* An entry that stands under another ordinal keeps everything from being    *)
(* enqueued: the tasks without an entry are all of later waves.              *)
LEMMA ConflictStops ==
  ASSUME EntriesOk(phase, wave, ledger, ordinal), \A t \in Tasks : wave[t] \in Nat,
         Conflicting # {}
  PROVE  Enqueued = {}
  <1>1. PICK s \in Conflicting : TRUE
    OBVIOUS
  <1>2. s \in Tasks /\ ledger[s] # "none"
    BY <1>1 DEF Conflicting, Dispatched
  <1>3. ASSUME NEW t \in Enqueued PROVE FALSE
    <2>1. t \in Tasks /\ ledger[t] = "none" /\ wave[t] > 0 /\ Before(t, s)
      BY <1>1, <1>3 DEF Enqueued, Dispatched
    <2>2. wave[s] < wave[t]
      BY <1>2, <2>1 DEF EntriesOk
    <2>3. wave[t] <= wave[s]
      BY <1>2, <2>1, BeforeIsOrder
    <2> QED
      BY <1>2, <2>1, <2>2, <2>3
  <1> QED
    BY <1>3

(* Without a conflict every dispatched task has an entry after the step, and *)
(* the ordinals are the places in integration order.                         *)
LEMMA EnqueueKeeps ==
  ASSUME EntriesOk(phase, wave, ledger, ordinal), BranchesOk(ledger, ordinal, refs),
         CandidatesOk(ledger, candidate), GatesOk(phase, gates, wave, ledger),
         \A t \in Tasks : wave[t] \in Nat, Conflicting = {},
         NEW l, l = [t \in Tasks |-> IF t \in Enqueued THEN "queued" ELSE ledger[t]],
         NEW o, o = [t \in Tasks |-> IF t \in Enqueued THEN Place(t) ELSE ordinal[t]]
  PROVE  /\ EntriesOk(phase, wave, l, o) /\ BranchesOk(l, o, refs)
         /\ CandidatesOk(l, candidate) /\ GatesOk(phase, gates, wave, l)
  <1>1. \A t \in Tasks : t \in Enqueued <=> wave[t] > 0 /\ ledger[t] = "none"
    BY DEF Enqueued, Dispatched
  <1>2. \A t \in Tasks : l[t] # "none" => wave[t] > 0 /\ t \in Dispatched /\ o[t] = Place(t)
    <2>1. \A t \in Tasks : ledger[t] # "none" => wave[t] > 0
      BY DEF EntriesOk
    <2>2. \A t \in Tasks : ledger[t] # "none" /\ wave[t] > 0 => ordinal[t] = Place(t)
      BY DEF Conflicting, Dispatched
    <2> QED
      BY <1>1, <2>1, <2>2 DEF Dispatched
  <1>3. /\ \A t \in Tasks : Place(t) \in Nat
        /\ \A s \in Dispatched, t \in Dispatched : Before(s, t) => Place(s) < Place(t)
    BY PlacesGrow
  <1>4. \A s, t \in Tasks : ledger[s] # "none" /\ t \in Enqueued => o[s] < o[t]
    <2> SUFFICES ASSUME NEW s \in Tasks, NEW t \in Tasks, ledger[s] # "none", t \in Enqueued
                 PROVE  o[s] < o[t]
      OBVIOUS
    <2>1. wave[s] < wave[t]
      BY <1>1 DEF EntriesOk
    <2>2. Before(s, t)
      BY <2>1, BeforeIsOrder
    <2>3. l[s] # "none" /\ l[t] # "none"
      BY <1>1
    <2> QED
      BY <1>2, <1>3, <2>2, <2>3
  <1>5. Open(l) = Open(ledger) \cup Enqueued
    BY <1>1 DEF Open, Closed, Enqueued, Dispatched
  <1>6. \A s, t \in Tasks : s # t /\ l[s] # "none" /\ l[t] # "none" => o[s] # o[t]
    <2> SUFFICES ASSUME NEW s \in Tasks, NEW t \in Tasks, s # t, l[s] # "none", l[t] # "none"
                 PROVE  o[s] # o[t]
      OBVIOUS
    <2>1. Before(s, t) \/ Before(t, s)
      BY BeforeIsOrder
    <2> QED
      BY <1>2, <1>3, <2>1
  <1>7. \A t \in Tasks : /\ l[t] = IF t \in Enqueued THEN "queued" ELSE ledger[t]
                         /\ t \notin Enqueued => o[t] = ordinal[t]
                         /\ o[t] \in Nat
    BY <1>3 DEF EntriesOk
  <1>8. EntriesOk(phase, wave, l, o)
    <2>1. \A s, t \in Tasks : l[s] = "integrated" /\ t \in Open(l) => o[s] < o[t]
      <3> SUFFICES ASSUME NEW s \in Tasks, NEW t \in Tasks, l[s] = "integrated", t \in Open(l)
                   PROVE  o[s] < o[t]
        OBVIOUS
      <3>1. ledger[s] = "integrated" /\ s \notin Enqueued
        BY <1>1, <1>7
      <3>2. CASE t \in Enqueued
        BY <1>4, <3>1, <3>2
      <3>3. CASE t \in Open(ledger) /\ t \notin Enqueued
        BY <1>7, <3>1, <3>3 DEF EntriesOk
      <3> QED
        BY <1>5, <3>2, <3>3
    <2>2. \A s, t \in Tasks : l[s] # "none" /\ l[t] = "none" /\ wave[t] > 0 => wave[s] < wave[t]
      BY <1>1, <1>7
    <2>3. DOMAIN l = Tasks /\ DOMAIN o = Tasks
      OBVIOUS
    <2>4. \A t \in Tasks : /\ l[t] \in LedgerStates
                           /\ l[t] \in {"prepared", "verified", "reconciliation_required", "integrated"}
                                => phase[t] = "succeeded"
      BY <1>7 DEF EntriesOk, LedgerStates
    <2> QED
      BY <1>2, <1>6, <1>7, <2>1, <2>2, <2>3, <2>4 DEF EntriesOk
  <1>9. BranchesOk(l, o, refs)
    <2> SUFFICES ASSUME NEW t \in Tasks, NEW r \in Repos, t \in ToSet(refs[r]), l[t] # "integrated"
                 PROVE  l[t] \in {"verified", "reconciliation_required"} /\ IsFirst(t, l, o)
      BY DEF BranchesOk
    <2>1. ledger[t] # "integrated"
      BY <1>1, <1>7
    <2>2. ledger[t] \in {"verified", "reconciliation_required"} /\ IsFirst(t, ledger, ordinal)
      BY <2>1 DEF BranchesOk
    <2>3. l[t] = ledger[t] /\ t \notin Enqueued /\ o[t] = ordinal[t]
      BY <1>1, <1>7, <2>2
    <2>4. \A s \in Open(l) : s # t => o[t] < o[s]
      <3> TAKE s \in Open(l)
      <3>0. s \in Tasks
        BY DEF Open
      <3>1. CASE s \in Enqueued
        BY <1>4, <2>2, <3>0, <3>1
      <3>2. CASE s \in Open(ledger) /\ s \notin Enqueued
        BY <1>7, <2>2, <2>3, <3>0, <3>2 DEF IsFirst
      <3> QED
        BY <1>5, <3>1, <3>2
    <2> QED
      BY <1>5, <2>2, <2>3, <2>4 DEF IsFirst
  <1>10. CandidatesOk(l, candidate)
    BY <1>7 DEF CandidatesOk
  <1>11. GatesOk(phase, gates, wave, l)
    BY <1>1, <1>7 DEF GatesOk
  <1> QED
    BY <1>8, <1>9, <1>10, <1>11

LEMMA IntegratesStep ==
  ASSUME EpicInv, Integrates
  PROVE  EpicInv'
  <1> DEFINE l == [t \in Tasks |-> IF t \in Enqueued THEN "queued" ELSE ledger[t]]
             o == [t \in Tasks |-> IF t \in Enqueued THEN Place(t) ELSE ordinal[t]]
             d == Drifted(l, o)
  <1>1. /\ EntriesOk(phase, wave, ledger, ordinal) /\ BranchesOk(ledger, ordinal, refs)
        /\ CandidatesOk(ledger, candidate) /\ GatesOk(phase, gates, wave, ledger)
        /\ \A t \in Tasks : wave[t] \in Nat
    BY DEF EpicInv, DispatchOk
  <1>2. /\ ordinal' = o
        /\ UNCHANGED <<phase, leased, wave, waves, child, told, waiting, calls, candidate, verified,
                       refs, current, todo, moved, trouble, graphRev, replan, reporting>>
        /\ pc # "idle" /\ pc' \in {"idle", "scan"}
        /\ \/ tick' = tick
           \/ pc' = "idle" /\ tick' = NoTick
    BY DEF Integrates, IntegrationBegins, childVars, workVars, epicVars
  <1>3. WorkOk(pc', phase, ledger', ordinal', candidate, refs, current, todo)
    BY <1>2, NoWork DEF Working, Reconciles
  <1>4. TickOk(pc', tick', graphRev)
    BY <1>2 DEF EpicInv, TickOk, NoTick
  <1>5. /\ EntriesOk(phase, wave, ledger', ordinal') /\ BranchesOk(ledger', ordinal', refs)
        /\ CandidatesOk(ledger', candidate) /\ GatesOk(phase, gates', wave, ledger')
    <2>1. CASE Conflicting # {}
      <3>1. Enqueued = {} /\ ledger' = l /\ gates' = gates
        BY <1>1, <2>1, ConflictStops DEF Integrates, IntegrationBegins
      <3>2. ledger' = ledger /\ ordinal' = ordinal
        BY <1>1, <1>2, <3>1 DEF EntriesOk
      <3> QED
        BY <1>1, <3>1, <3>2
    <2>2. CASE Conflicting = {}
      <3>1. /\ ledger' = [t \in Tasks |-> IF t \in d THEN "reconciliation_required" ELSE l[t]]
            /\ gates' = [t \in Tasks |-> IF t \in d THEN "reconciliation_required" ELSE gates[t]]
        BY <2>2 DEF Integrates, IntegrationBegins
      <3> HIDE DEF l, o
      <3>2. /\ EntriesOk(phase, wave, l, o) /\ BranchesOk(l, o, refs)
            /\ CandidatesOk(l, candidate) /\ GatesOk(phase, gates, wave, l)
        BY <1>1, <2>2, EnqueueKeeps DEF l, o
      <3>3. l \in [Tasks -> LedgerStates] /\ gates \in [Tasks -> GateStates]
        BY <1>1, <3>2 DEF EntriesOk, GatesOk
      <3>4. CASE d = {}
        <4>1. ledger' = l /\ gates' = gates
          BY <1>1, <3>1, <3>3, <3>4
        <4> QED
          BY <1>2, <3>2, <4>1
      <3>5. CASE d # {}
        <4> DEFINE t == InOrder(DriftHits(l), o)
        <4>1. d = {t} /\ DriftHits(l) # {}
          BY <3>5 DEF Drifted
        <4>2. DriftHits(l) \in SUBSET Tasks
          BY DEF DriftHits, Open
        <4>3. t \in DriftHits(l)
          BY <3>2, <4>1, <4>2, FirstInOrder DEF EntriesOk
        <4>4. t \in Open(l) /\ phase[t] = "succeeded"
          BY <4>3 DEF DriftHits
        <4> HIDE DEF d, t
        <4>5. /\ ledger' = [l EXCEPT ![t] = "reconciliation_required"]
              /\ gates' = [gates EXCEPT ![t] = "reconciliation_required"]
          BY <3>1, <3>3, <4>1
        <4>6. "reconciliation_required" \in Steps /\ "reconciliation_required" # "integrated"
              /\ "reconciliation_required" # "passed" /\ "reconciliation_required" \in GateStates
          BY DEF Steps, GateStates
        <4>7. EntriesOk(phase, wave, ledger', o)
          BY <3>2, <4>4, <4>5, <4>6, EntryMoves
        <4>8. GatesOk(phase, gates', wave, ledger')
          BY <3>2, <3>3, <4>4, <4>5, <4>6, GateMoves
        <4>9. BranchesOk(ledger', o, refs)
          BY <3>2, <3>3, <4>4, <4>5, <4>6, BranchMoves
        <4>10. CandidatesOk(ledger', candidate)
          BY <3>2, <3>3, <4>4, <4>5, CandidateMoves
        <4> QED
          BY <1>2, <4>7, <4>8, <4>9, <4>10
      <3> QED
        BY <3>4, <3>5
    <2> QED
      BY <2>1, <2>2
  <1> QED
    BY <1>2, <1>3, <1>4, <1>5 DEF EpicInv

-----------------------------------------------------------------------------
LEMMA StepsAndGates ==
  /\ Steps = {"prepared", "verified", "reconciliation_required", "integrated", "failed"}
  /\ GateStates = {"pending", "passed", "failed", "reconciliation_required"}
  BY DEF Steps, GateStates

(* The entry the service works on moves on. *)
LEMMA MoveKeeps ==
  ASSUME EpicInv, NEW t \in Open(ledger), NEW x \in Steps,
         x = "failed" \/ phase[t] = "succeeded",
         x = "integrated" => IsFirst(t, ledger, ordinal),
         x \in {"verified", "reconciliation_required", "integrated"}
           \/ \A r \in Repos : t \notin ToSet(refs[r]),
         x \in {"prepared", "verified"} => DOMAIN candidate[t] = Writes[t],
         NEW y \in GateStates, y = "passed" => x = "integrated",
         ledger' = [ledger EXCEPT ![t] = x],
         gates' = gates \/ gates' = [gates EXCEPT ![t] = y]
  PROVE  /\ EntriesOk(phase, wave, ledger', ordinal)
         /\ GatesOk(phase, gates', wave, ledger')
         /\ BranchesOk(ledger', ordinal, refs)
         /\ CandidatesOk(ledger', candidate)
  <1>1. /\ EntriesOk(phase, wave, ledger, ordinal) /\ GatesOk(phase, gates, wave, ledger)
        /\ BranchesOk(ledger, ordinal, refs) /\ CandidatesOk(ledger, candidate)
    BY DEF EpicInv
  <1>2. DOMAIN ledger = Tasks
    BY <1>1 DEF EntriesOk
  <1>3. EntriesOk(phase, wave, ledger', ordinal)
    BY <1>1, EntryMoves
  <1>4. GatesOk(phase, gates', wave, ledger')
    <2>1. CASE gates' = gates
      BY <1>1, <1>2, <2>1, GateMoves, StepsAndGates
    <2>2. CASE gates' = [gates EXCEPT ![t] = y]
      BY <1>1, <1>2, <2>2, GateMoves
    <2> QED
      BY <2>1, <2>2
  <1>5. BranchesOk(ledger', ordinal, refs)
    BY <1>1, <1>2, BranchMoves
  <1>6. CandidatesOk(ledger', candidate)
    BY <1>1, <1>2, CandidateMoves
  <1> QED
    BY <1>3, <1>4, <1>5, <1>6

(* A task whose entry is no further than prepared, or that did not succeed,  *)
(* is merged nowhere.                                                        *)
LEMMA NotMerged ==
  ASSUME EpicInv, NEW t \in Tasks,
         ledger[t] \in {"none", "queued", "prepared", "failed"} \/ phase[t] # "succeeded"
  PROVE  \A r \in Repos : t \notin ToSet(refs[r])
  BY DEF EpicInv, BranchesOk, EntriesOk

(* The task in work. *)
LEMMA AtWork ==
  ASSUME EpicInv, pc \in Working
  PROVE  /\ current \in Open(ledger) /\ current \in Tasks
         /\ phase[current] = "succeeded" /\ IsFirst(current, ledger, ordinal)
  BY DEF EpicInv, WorkOk, IsFirst

LEMMA StillFirst ==
  ASSUME NEW led, NEW ord, DOMAIN led = Tasks, NEW t, IsFirst(t, led, ord), NEW x \in Steps \ Closed
  PROVE  IsFirst(t, [led EXCEPT ![t] = x], ord)
  <1>1. Open([led EXCEPT ![t] = x]) = Open(led)
    BY DEF Open, Closed, Steps, IsFirst
  <1> QED
    BY <1>1 DEF IsFirst

LEMMA SkipStep ==
  ASSUME EpicInv, pc = "scan", SkipEntry, UNCHANGED epicVars
  PROVE  EpicInv'
  <1>1. /\ First \in Open(ledger) /\ First \in Tasks /\ phase[First] # "succeeded"
        /\ ledger' = [ledger EXCEPT ![First] = "failed"] /\ gates' = gates
    BY FirstIsFirst DEF SkipEntry, IsFirst, Open, EpicInv, waveVars, storeVars
  <1>2. \A r \in Repos : First \notin ToSet(refs[r])
    BY <1>1, NotMerged
  <1>3. /\ EntriesOk(phase, wave, ledger', ordinal) /\ GatesOk(phase, gates', wave, ledger')
        /\ BranchesOk(ledger', ordinal, refs) /\ CandidatesOk(ledger', candidate)
    BY <1>1, <1>2, MoveKeeps, StepsAndGates
  <1>4. WorkOk(pc, phase, ledger', ordinal, candidate, refs, current, todo)
    BY NoWork DEF Working, Reconciles
  <1> QED
    BY <1>3, <1>4
    DEF EpicInv, SkipEntry, waveVars, storeVars, childVars, tickVars, workVars, epicVars

LEMMA TakeStep ==
  ASSUME EpicInv, pc = "scan", TakeEntry("process", "observe"), UNCHANGED epicVars
  PROVE  EpicInv'
  <1>1. /\ IsFirst(First, ledger, ordinal) /\ First \in Tasks
    BY FirstIsFirst DEF TakeEntry, IsFirst, Open, EpicInv
  <1>2. WorkOk(pc', phase, ledger, ordinal, candidate, refs, current', todo)
    BY <1>1 DEF TakeEntry, WorkOk, Working, Reconciles, EpicInv, EntriesOk
  <1>3. TickOk(pc', tick, graphRev)
    BY DEF EpicInv, TickOk
  <1> QED
    BY <1>2, <1>3
    DEF EpicInv, TakeEntry, storeVars, childVars, ledgerVars, epicVars

LEMMA SurrenderStep ==
  ASSUME EpicInv, pc = "process", SurrenderEntry(current), UNCHANGED epicVars
  PROVE  EpicInv'
  <1>1. current \in Open(ledger) /\ phase[current] = "succeeded"
    BY AtWork DEF Working
  <1>2. /\ ledger' = [ledger EXCEPT ![current] = "reconciliation_required"]
        /\ gates' = [gates EXCEPT ![current] = "reconciliation_required"]
        /\ pc' = "integrated"
    BY DEF SurrenderEntry, ToReconciliation
  <1>3. /\ EntriesOk(phase, wave, ledger', ordinal) /\ GatesOk(phase, gates', wave, ledger')
        /\ BranchesOk(ledger', ordinal, refs) /\ CandidatesOk(ledger', candidate)
    BY <1>1, <1>2, MoveKeeps, StepsAndGates
  <1>4. WorkOk(pc', phase, ledger', ordinal, candidate, refs, current', todo)
    BY <1>2, NoWork DEF Working, Reconciles
  <1>5. TickOk(pc', tick, graphRev)
    BY DEF EpicInv, TickOk
  <1> QED
    BY <1>3, <1>4, <1>5 DEF EpicInv, SurrenderEntry, childVars, epicVars

LEMMA WritesRepos == \A t \in Tasks : Writes[t] \subseteq Repos
  BY GraphsAssumption DEF Tasks, Writes

LEMMA PrepareStep ==
  ASSUME EpicInv, pc = "process", PrepareEntry(current), UNCHANGED epicVars
  PROVE  EpicInv'
  <1> DEFINE t == current
             c == [r \in Writes[t] |-> [from |-> refs[r], to |-> Append(refs[r], t)]]
  <1>1. /\ t \in Open(ledger) /\ t \in Tasks /\ phase[t] = "succeeded"
        /\ IsFirst(t, ledger, ordinal)
    BY AtWork DEF Working
  <1>2. /\ ledger[t] = "queued" /\ ledger' = [ledger EXCEPT ![t] = "prepared"]
        /\ gates' = [gates EXCEPT ![t] = "pending"]
        /\ candidate' = [candidate EXCEPT ![t] = c]
    BY DEF PrepareEntry
  <1>3. \A r \in Repos : t \notin ToSet(refs[r])
    BY <1>1, <1>2, NotMerged
  <1>4. /\ EntriesOk(phase, wave, ledger, ordinal) /\ GatesOk(phase, gates, wave, ledger)
        /\ BranchesOk(ledger, ordinal, refs) /\ CandidatesOk(ledger, candidate)
        /\ DOMAIN ledger = Tasks
    BY DEF EpicInv, EntriesOk
  <1>5. EntriesOk(phase, wave, ledger', ordinal)
    BY <1>1, <1>2, <1>4, EntryMoves, StepsAndGates
  <1>6. GatesOk(phase, gates', wave, ledger')
    BY <1>1, <1>2, <1>4, GateMoves, StepsAndGates
  <1>7. BranchesOk(ledger', ordinal, refs)
    BY <1>1, <1>2, <1>3, <1>4, BranchMoves, StepsAndGates
  <1>8. CandidatesOk(ledger', candidate')
    <2>1. /\ DOMAIN candidate = Tasks /\ DOMAIN candidate' = Tasks /\ DOMAIN c = Writes[t]
          /\ \A s \in Tasks : candidate'[s] = IF s = t THEN c ELSE candidate[s]
          /\ \A s \in Tasks : ledger'[s] = IF s = t THEN "prepared" ELSE ledger[s]
      BY <1>1, <1>2, <1>4 DEF CandidatesOk
    <2>2. \A r \in Writes[t] : /\ c[r].from = refs[r] /\ c[r].to = Append(refs[r], t)
                               /\ refs[r] \in Seq(Tasks \cup {Outside}) /\ t \notin ToSet(refs[r])
      BY <1>1, <1>3, <1>4, WritesRepos DEF BranchesOk
    <2> HIDE DEF c, t
    <2> QED
      BY <1>4, <2>1, <2>2 DEF CandidatesOk
  <1>9. WorkOk(pc', phase, ledger', ordinal, candidate', refs, current, todo)
    <2>1. IsFirst(t, ledger', ordinal)
      BY <1>1, <1>2, <1>4, StillFirst, StepsAndGates DEF Closed
    <2>2. ledger'[t] = "prepared" /\ pc' = "process"
      BY <1>1, <1>2, <1>4 DEF PrepareEntry
    <2> QED
      BY <1>1, <2>1, <2>2 DEF WorkOk, Reconciles
  <1> QED
    BY <1>5, <1>6, <1>7, <1>8, <1>9
    DEF EpicInv, PrepareEntry, childVars, workVars, epicVars

LEMMA VerifyStep ==
  ASSUME EpicInv, pc = "process", VerifyEntry(current), UNCHANGED epicVars
  PROVE  EpicInv'
  <1>1. /\ current \in Open(ledger) /\ current \in Tasks /\ phase[current] = "succeeded"
        /\ IsFirst(current, ledger, ordinal)
    BY AtWork DEF Working
  <1>2. /\ ledger[current] = "prepared" /\ DOMAIN candidate[current] = Writes[current]
        /\ \A r \in Repos : current \notin ToSet(refs[r])
        /\ DOMAIN ledger = Tasks
    BY <1>1, NotMerged DEF VerifyEntry, EpicInv, CandidatesOk, EntriesOk
  <1>3. UNCHANGED <<phase, leased, wave, waves, child, told, tick, waiting, ordinal, candidate,
  refs>>
    BY DEF VerifyEntry, childVars
  <1>4. CASE /\ ledger' = [ledger EXCEPT ![current] = "verified"] /\ gates' = gates
             /\ pc' = pc /\ current' = current
    <2>1. /\ EntriesOk(phase, wave, ledger', ordinal) /\ GatesOk(phase, gates', wave, ledger')
          /\ BranchesOk(ledger', ordinal, refs) /\ CandidatesOk(ledger', candidate)
      BY <1>1, <1>2, <1>4, MoveKeeps, StepsAndGates
    <2>2. IsFirst(current, ledger', ordinal) /\ ledger'[current] = "verified"
      BY <1>1, <1>2, <1>4, StillFirst, StepsAndGates DEF Closed
    <2>3. WorkOk(pc', phase, ledger', ordinal, candidate, refs, current', todo)
      BY <1>1, <1>4, <2>2 DEF WorkOk, Reconciles
    <2> QED
      BY <1>3, <1>4, <2>1, <2>3 DEF EpicInv, VerifyEntry, epicVars
  <1>5. CASE /\ ledger' = [ledger EXCEPT ![current] = "failed"]
             /\ gates' = [gates EXCEPT ![current] = "failed"] /\ pc' = "integrated"
    <2>1. /\ EntriesOk(phase, wave, ledger', ordinal) /\ GatesOk(phase, gates', wave, ledger')
          /\ BranchesOk(ledger', ordinal, refs) /\ CandidatesOk(ledger', candidate)
      BY <1>1, <1>2, <1>5, MoveKeeps, StepsAndGates
    <2>2. WorkOk(pc', phase, ledger', ordinal, candidate, refs, current', todo)
      BY <1>5, NoWork DEF Working, Reconciles
    <2>3. TickOk(pc', tick, graphRev)
      BY DEF EpicInv, TickOk
    <2> QED
      BY <1>3, <2>1, <2>2, <2>3 DEF EpicInv, VerifyEntry, epicVars
  <1> QED
    BY <1>4, <1>5 DEF VerifyEntry

-----------------------------------------------------------------------------
(* Publication and reconciliation. *)
LEMMA PublishBeginsStep ==
  ASSUME EpicInv, pc = "process", PublishBegins(current), UNCHANGED epicVars
  PROVE  EpicInv'
  <1>1. /\ current \in Open(ledger) /\ current \in Tasks /\ phase[current] = "succeeded"
        /\ IsFirst(current, ledger, ordinal)
    BY AtWork DEF Working
  <1>2. ledger[current] = "verified" /\ DOMAIN candidate[current] = Writes[current]
    BY <1>1 DEF PublishBegins, EpicInv, CandidatesOk
  <1>3. /\ UNCHANGED <<phase, leased, wave, waves, child, told, tick, waiting, ordinal, candidate, refs>>
        /\ TickOk(pc', tick, graphRev)
    BY DEF PublishBegins, childVars, EpicInv, TickOk
  <1>4. CASE /\ ledger' = [ledger EXCEPT ![current] = "integrated"]
             /\ gates' = [gates EXCEPT ![current] = "passed"] /\ pc' = "scan"
    <2>1. /\ EntriesOk(phase, wave, ledger', ordinal) /\ GatesOk(phase, gates', wave, ledger')
          /\ BranchesOk(ledger', ordinal, refs) /\ CandidatesOk(ledger', candidate)
      BY <1>1, <1>4, MoveKeeps, StepsAndGates
    <2>2. WorkOk(pc', phase, ledger', ordinal, candidate, refs, current', todo')
      BY <1>4, NoWork DEF Working, Reconciles
    <2> QED
      BY <1>3, <2>1, <2>2 DEF EpicInv, epicVars
  <1>5. CASE /\ pc' = "publish" /\ todo' = DOMAIN candidate[current]
             /\ UNCHANGED <<ledger, gates, current>>
    <2>1. WorkOk(pc', phase, ledger, ordinal, candidate, refs, current, todo')
      BY <1>1, <1>2, <1>5 DEF WorkOk, Reconciles
    <2> QED
      BY <1>3, <1>5, <2>1 DEF EpicInv, epicVars
  <1> QED
    BY <1>4, <1>5 DEF PublishBegins

(* What is still to publish are repositories of the candidate. *)
LEMMA NextToPublish ==
  ASSUME EpicInv, pc \in Publishing, todo # {}
  PROVE  /\ Min(todo) \in todo /\ Min(todo) \in Repos /\ todo \subseteq Writes[current]
         /\ Min(todo) \in DOMAIN candidate[current]
  <1>1. current \in Tasks
    BY AtWork DEF Publishing, Working, Reconciles
  <1>2. todo \subseteq DOMAIN candidate[current] /\ todo \subseteq Writes[current]
    BY <1>1 DEF Publishing, EpicInv, WorkOk, CandidatesOk
  <1>3. Writes[current] \subseteq Repos /\ Repos \subseteq Nat
    BY <1>1, WritesRepos, GraphsAssumption
  <1>4. Min(todo) \in todo
    BY <1>2, <1>3, LowestIsMember
  <1> QED
    BY <1>2, <1>3, <1>4

(* One repository is published: its branch holds what it held and the task. *)
LEMMA RepoPublished ==
  ASSUME EpicInv, pc \in Publishing, PublishRepo(current)
  PROVE  /\ Min(todo) \in todo /\ Min(todo) \in Repos
         /\ refs' = [refs EXCEPT ![Min(todo)] = candidate[current][Min(todo)].to]
         /\ refs' \in [Repos -> Seq(Tasks \cup {Outside})]
         /\ \A r \in Repos, t \in Tasks :
               t \in ToSet(refs'[r]) <=> t \in ToSet(refs[r]) \/ (r = Min(todo) /\ t = current)
  <1> DEFINE r == Min(todo)
             c == candidate[current][r]
  <1>1. todo # {} /\ Swaps(current, r) /\ refs' = [refs EXCEPT ![r] = c.to]
    BY DEF PublishRepo
  <1>2. r \in todo /\ r \in Repos /\ r \in DOMAIN candidate[current]
    BY <1>1, NextToPublish
  <1>3. current \in Tasks
    BY AtWork DEF Publishing, Working, Reconciles
  <1>4. c.from \in Seq(Tasks \cup {Outside}) /\ c.to = Append(c.from, current)
    BY <1>2, <1>3 DEF EpicInv, CandidatesOk
  <1>5. c.to \in Seq(Tasks \cup {Outside}) /\ ToSet(c.to) = ToSet(c.from) \cup {current}
    BY <1>3, <1>4, AppendHolds
  <1>6. refs[r] = c.from \/ refs[r] = c.to
    BY <1>1 DEF Swaps
  <1>7. refs \in [Repos -> Seq(Tasks \cup {Outside})]
    BY DEF EpicInv, BranchesOk
  <1> HIDE DEF r, c
  <1>8. /\ refs' = [refs EXCEPT ![r] = c.to] /\ \A x \in Repos : refs'[x] = IF x = r THEN c.to ELSE refs[x]
    BY <1>1, <1>2, <1>7
  <1>9. refs' \in [Repos -> Seq(Tasks \cup {Outside})]
    BY <1>5, <1>7, <1>8
  <1>10. \A x \in Repos, t \in Tasks :
            t \in ToSet(refs'[x]) <=> t \in ToSet(refs[x]) \/ (x = r /\ t = current)
    BY <1>5, <1>6, <1>8
  <1> QED
    BY <1>1, <1>2, <1>8, <1>9, <1>10 DEF r, c

LEMMA PublishRepoStep ==
  ASSUME EpicInv, pc \in Publishing, PublishRepo(current), UNCHANGED epicVars
  PROVE  EpicInv'
  <1>1. /\ current \in Open(ledger) /\ current \in Tasks /\ phase[current] = "succeeded"
        /\ IsFirst(current, ledger, ordinal)
    BY AtWork DEF Publishing, Working, Reconciles
  <1>2. ledger[current] \in {"verified", "reconciliation_required"}
    BY DEF EpicInv, WorkOk, Publishing, Reconciles
  <1>3. /\ Min(todo) \in todo /\ Min(todo) \in Repos
        /\ refs' \in [Repos -> Seq(Tasks \cup {Outside})]
        /\ \A r \in Repos, t \in Tasks :
              t \in ToSet(refs'[r]) <=> t \in ToSet(refs[r]) \/ (r = Min(todo) /\ t = current)
    BY RepoPublished
  <1>4. BranchesOk(ledger, ordinal, refs')
    BY <1>1, <1>2, <1>3 DEF EpicInv, BranchesOk
  <1>5. WorkOk(pc, phase, ledger, ordinal, candidate, refs', current, todo')
    <2>1. todo' = todo \ {Min(todo)}
      BY DEF PublishRepo
    <2>2. Writes[current] \subseteq Repos
      BY <1>1, WritesRepos
    <2> HIDE DEF EpicInv
    <2>3. WorkOk(pc, phase, ledger, ordinal, candidate, refs, current, todo)
      BY DEF EpicInv
    <2> QED
      BY <1>1, <1>3, <2>1, <2>2, <2>3 DEF WorkOk
  <1> QED
    BY <1>4, <1>5
    DEF EpicInv, PublishRepo, waveVars, storeVars, childVars, tickVars, ledgerVars, epicVars

LEMMA PublishEndsStep ==
  ASSUME EpicInv, pc = "publish", PublishEnds(current), UNCHANGED epicVars
  PROVE  EpicInv'
  <1>1. /\ current \in Open(ledger) /\ current \in Tasks /\ phase[current] = "succeeded"
        /\ IsFirst(current, ledger, ordinal)
    BY AtWork DEF Working
  <1>2. UNCHANGED <<phase, leased, wave, waves, child, told, waiting, ordinal, candidate, refs>>
    BY DEF PublishEnds, childVars
  <1>3. CASE /\ ledger' = [ledger EXCEPT ![current] = "integrated"]
             /\ gates' = [gates EXCEPT ![current] = "passed"] /\ pc' = "scan" /\ tick' = tick
    <2>1. /\ EntriesOk(phase, wave, ledger', ordinal) /\ GatesOk(phase, gates', wave, ledger')
          /\ BranchesOk(ledger', ordinal, refs) /\ CandidatesOk(ledger', candidate)
      BY <1>1, <1>3, MoveKeeps, StepsAndGates
    <2>2. WorkOk(pc', phase, ledger', ordinal, candidate, refs, current', todo')
      BY <1>3, NoWork DEF Working, Reconciles
    <2>3. TickOk(pc', tick', graphRev)
      BY <1>3 DEF EpicInv, TickOk
    <2> QED
      BY <1>2, <2>1, <2>2, <2>3 DEF EpicInv, epicVars
  <1>4. CASE pc' = "idle" /\ tick' = NoTick /\ UNCHANGED <<ledger, expected, gates>>
    <2>1. WorkOk(pc', phase, ledger, ordinal, candidate, refs, current', todo')
      BY <1>4, NoWork DEF Working, Reconciles
    <2>2. TickOk(pc', tick', graphRev)
      BY <1>4 DEF EpicInv, TickOk, NoTick
    <2> QED
      BY <1>2, <1>4, <2>1, <2>2 DEF EpicInv, epicVars
  <1> QED
    BY <1>3, <1>4 DEF PublishEnds

LEMMA PublishStopsStep ==
  ASSUME EpicInv, pc = "publish", PublishStops(current), UNCHANGED epicVars
  PROVE  EpicInv'
  <1>1. /\ current \in Open(ledger) /\ current \in Tasks /\ phase[current] = "succeeded"
    BY AtWork DEF Working
  <1>2. UNCHANGED <<phase, leased, wave, waves, child, told, waiting, ordinal, candidate, refs>>
    BY DEF PublishStops, childVars
  <1>3. CASE /\ ToReconciliation(current) /\ pc' = "integrated" /\ tick' = tick
    <2>1. /\ EntriesOk(phase, wave, ledger', ordinal) /\ GatesOk(phase, gates', wave, ledger')
          /\ BranchesOk(ledger', ordinal, refs) /\ CandidatesOk(ledger', candidate)
      BY <1>1, <1>3, MoveKeeps, StepsAndGates DEF ToReconciliation
    <2>2. WorkOk(pc', phase, ledger', ordinal, candidate, refs, current', todo')
      BY <1>3, NoWork DEF Working, Reconciles
    <2>3. TickOk(pc', tick', graphRev)
      BY <1>3 DEF EpicInv, TickOk
    <2> QED
      BY <1>2, <2>1, <2>2, <2>3 DEF EpicInv, epicVars
  <1>4. CASE pc' = "idle" /\ tick' = NoTick /\ UNCHANGED <<ledger, recon, gates, expected>>
    <2>1. WorkOk(pc', phase, ledger, ordinal, candidate, refs, current', todo')
      BY <1>4, NoWork DEF Working, Reconciles
    <2>2. TickOk(pc', tick', graphRev)
      BY <1>4 DEF EpicInv, TickOk, NoTick
    <2> QED
      BY <1>2, <1>4, <2>1, <2>2 DEF EpicInv, epicVars
  <1> QED
    BY <1>3, <1>4 DEF PublishStops

LEMMA BlockStep ==
  ASSUME EpicInv, pc \in {"observe", "reobserve"}, NEW b, BlockEntry(current, b), UNCHANGED epicVars
  PROVE  EpicInv'
  <1>1. WorkOk(pc', phase, ledger, ordinal, candidate, refs, current', todo)
    BY NoWork DEF BlockEntry, Working, Reconciles
  <1>2. TickOk(pc', tick, graphRev)
    BY DEF EpicInv, TickOk
  <1> QED
    BY <1>1, <1>2 DEF EpicInv, BlockEntry, storeVars, childVars, epicVars

LEMMA ForwardStep ==
  ASSUME EpicInv, pc = "observe", ForwardEntry(current), UNCHANGED epicVars
  PROVE  EpicInv'
  <1>1. WorkOk(pc', phase, ledger, ordinal, candidate, refs, current, todo')
    BY DEF ForwardEntry, EpicInv, WorkOk, Working, Reconciles, Pending
  <1>2. TickOk(pc', tick, graphRev)
    BY DEF EpicInv, TickOk
  <1> QED
    BY <1>1, <1>2 DEF EpicInv, ForwardEntry, storeVars, childVars, epicVars

LEMMA ForwardEndsStep ==
  ASSUME EpicInv, pc = "forward", ForwardEnds(current), UNCHANGED epicVars
  PROVE  EpicInv'
  <1>1. WorkOk(pc', phase, ledger, ordinal, candidate, refs, current', todo')
    BY NoWork DEF ForwardEnds, EpicInv, WorkOk, Working, Reconciles
  <1>2. TickOk(pc', tick, graphRev)
    BY DEF EpicInv, TickOk
  <1> QED
    BY <1>1, <1>2 DEF EpicInv, ForwardEnds, storeVars, childVars, ledgerVars, epicVars

LEMMA ResolveStep ==
  ASSUME EpicInv, pc \in {"observe", "reobserve"}, ResolveEntry(current), UNCHANGED epicVars
  PROVE  EpicInv'
  <1>1. /\ current \in Open(ledger) /\ current \in Tasks /\ phase[current] = "succeeded"
        /\ IsFirst(current, ledger, ordinal)
    BY AtWork DEF Working, Reconciles
  <1>2. UNCHANGED <<phase, leased, wave, waves, child, told, waiting, ordinal, candidate, refs,
  todo>>
    BY DEF ResolveEntry, childVars
  <1>3. CASE /\ ledger' = [ledger EXCEPT ![current] = "integrated"]
             /\ gates' = [gates EXCEPT ![current] = "passed"] /\ pc' = "integrated" /\ tick' = tick
    <2>1. /\ EntriesOk(phase, wave, ledger', ordinal) /\ GatesOk(phase, gates', wave, ledger')
          /\ BranchesOk(ledger', ordinal, refs) /\ CandidatesOk(ledger', candidate)
      BY <1>1, <1>3, MoveKeeps, StepsAndGates
    <2>2. WorkOk(pc', phase, ledger', ordinal, candidate, refs, current', todo')
      BY <1>3, NoWork DEF Working, Reconciles
    <2>3. TickOk(pc', tick', graphRev)
      BY <1>3 DEF EpicInv, TickOk
    <2> QED
      BY <1>2, <2>1, <2>2, <2>3 DEF EpicInv, epicVars
  <1>4. CASE pc' = "idle" /\ tick' = NoTick /\ UNCHANGED <<expected, branchOk, ledger, recon, gates>>
    <2>1. WorkOk(pc', phase, ledger, ordinal, candidate, refs, current', todo')
      BY <1>4, NoWork DEF Working, Reconciles
    <2>2. TickOk(pc', tick', graphRev)
      BY <1>4 DEF EpicInv, TickOk, NoTick
    <2> QED
      BY <1>2, <1>4, <2>1, <2>2 DEF EpicInv, epicVars
  <1> QED
    BY <1>3, <1>4 DEF ResolveEntry

LEMMA IntegrationSteps ==
  ASSUME EpicInv, IntegrationStep
  PROVE  EpicInv'
  BY SkipStep, TakeStep, SurrenderStep, PrepareStep, VerifyStep, PublishBeginsStep,
     PublishRepoStep, PublishEndsStep, PublishStopsStep, BlockStep, ForwardStep, ResolveStep,
     ForwardEndsStep
  DEF IntegrationStep, Publishing

-----------------------------------------------------------------------------
LEMMA NextKeeps ==
  ASSUME EpicInv, [Next]_vars
  PROVE  EpicInv'
  <1>1. CASE Requests
    BY <1>1, UserCancelsStep, ReportsStep DEF Requests
  <1>2. CASE Daemon
    BY <1>2, TickBeginsStep, IntegratesStep, IntegrationSteps, ScanEndsStep, PlansStep,
       RunsTasksStep, SchedulerEndsStep, DecidesStep, RevisesStep, ResumesStep
    DEF Daemon
  <1>3. CASE \E t \in Tasks : Answers(t) \/ Arrives(t) \/ Ends(t) \/ Wavers(t)
    BY <1>3, AnswersStep, ArrivesStep, ChildStep
  <1>4. CASE \E r \in Repos : Push(r)
    BY <1>4, PushStep
  <1>5. CASE Crashes \/ CrashesInReport
    BY <1>5, CrashesStep
  <1>6. CASE UNCHANGED vars
    BY <1>6
    DEF vars, waveVars, storeVars, childVars, tickVars, integVars, ledgerVars, workVars,
        epicVars, EpicInv
  <1> QED
    BY <1>1, <1>2, <1>3, <1>4, <1>5, <1>6 DEF Next

LEMMA EpicInvariant == Spec => []EpicInv
  BY InitEpic, NextKeeps, PTL DEF Spec

(* A task is dispatched only on integrated and verified predecessors, and    *)
(* they stay so whatever is cancelled, reconciled or revised meanwhile       *)
(* (planTaskWave, TaskIntegrationService.tick).                              *)
THEOREM PredecessorsStay == Spec => []DependenciesIntegrated
  <1>1. EpicInv => DependenciesIntegrated
    BY DEF EpicInv, GatesOk, DependenciesIntegrated, Dispatched
  <1> QED
    BY <1>1, EpicInvariant, PTL

(* The children that are alive never outnumber the workers and never write   *)
(* one repository, for any graphs, crashes and cancellations (dispatchWave,  *)
(* settle, reconcileTasks).                                                  *)
THEOREM ChildrenLeased == Spec => []LiveChildrenAreLeased
  <1>1. ASSUME EpicInv PROVE LiveChildrenAreLeased
    <2> DEFINE alive == {t \in Tasks : ChildAlive(t)}
    <2>1. alive \subseteq leased
      BY <1>1 DEF EpicInv, LeasesOk, ChildAlive, Alive
    <2>2. IsFiniteSet(leased) /\ Cardinality(leased) <= MaxWorkers
      BY <1>1, TasksFinite, FS_Subset DEF EpicInv, LeasesOk
    <2>3. \A s, t \in leased : s # t => Writes[s] \cap Writes[t] = {}
      BY <1>1 DEF EpicInv, LeasesOk
    <2>4. Cardinality(alive) <= MaxWorkers
      <3> HIDE DEF alive
      <3> QED
        BY <2>1, <2>2, ReleaseKeeps
    <2> QED
      BY <2>1, <2>3, <2>4 DEF LiveChildrenAreLeased
  <1> QED
    BY <1>1, EpicInvariant, PTL

-----------------------------------------------------------------------------
(* The log of the integrated entries. *)
Earlier(S, o, t) == {s \in S : o[s] < o[t]}
LogOf(S, o) == [i \in 1..Cardinality(S) |-> CHOOSE t \in S : Cardinality(Earlier(S, o, t)) = i - 1]
Integrated == {t \in Tasks : ledger[t] = "integrated"}
Distinct(S, o) ==
  /\ \A t \in S : o[t] \in Nat
  /\ \A s, t \in S : s # t => o[s] # o[t]

(* The places of tasks with different ordinals are 1, 2, ... *)
LEMMA RanksAreAll ==
  ASSUME NEW S \in SUBSET Tasks, NEW o, Distinct(S, o)
  PROVE  /\ IsFiniteSet(S) /\ Cardinality(S) \in Nat
         /\ \A t \in S : Cardinality(Earlier(S, o, t)) \in Nat /\ Cardinality(Earlier(S, o, t)) < Cardinality(S)
         /\ \A s, t \in S : Cardinality(Earlier(S, o, s)) = Cardinality(Earlier(S, o, t)) => s = t
         /\ \A i \in 1..Cardinality(S) : \E t \in S : Cardinality(Earlier(S, o, t)) = i - 1
  <1> DEFINE n == Cardinality(S)
             rank == [t \in S |-> Cardinality(Earlier(S, o, t)) + 1]
  <1>1. IsFiniteSet(S) /\ n \in Nat
    BY TasksFinite, FS_Subset, FS_CardinalityType
  <1>2. ASSUME NEW t \in S
        PROVE  /\ IsFiniteSet(Earlier(S, o, t)) /\ Cardinality(Earlier(S, o, t)) \in Nat
               /\ Cardinality(Earlier(S, o, t)) < n
    <2>1. Earlier(S, o, t) \in SUBSET S /\ t \notin Earlier(S, o, t)
      BY DEF Earlier, Distinct
    <2>2. IsFiniteSet(Earlier(S, o, t)) /\ Cardinality(Earlier(S, o, t)) <= n
          /\ (Cardinality(Earlier(S, o, t)) = n => S = Earlier(S, o, t))
      BY <1>1, <2>1, FS_Subset
    <2> QED
      BY <1>1, <2>1, <2>2, FS_CardinalityType
  <1>3. ASSUME NEW s \in S, NEW t \in S, o[s] < o[t]
        PROVE  Cardinality(Earlier(S, o, s)) < Cardinality(Earlier(S, o, t))
    <2>1. Earlier(S, o, s) \cup {s} \subseteq Earlier(S, o, t) /\ s \notin Earlier(S, o, s)
      BY <1>3 DEF Earlier, Distinct
    <2>2. Cardinality(Earlier(S, o, s) \cup {s}) = Cardinality(Earlier(S, o, s)) + 1
      BY <1>2, <2>1, FS_AddElement
    <2>3. Cardinality(Earlier(S, o, s) \cup {s}) <= Cardinality(Earlier(S, o, t))
      BY <1>2, <2>1, FS_Subset
    <2> QED
      BY <1>2, <2>2, <2>3
  <1>4. \A s, t \in S : Cardinality(Earlier(S, o, s)) = Cardinality(Earlier(S, o, t)) => s = t
    <2> SUFFICES ASSUME NEW s \in S, NEW t \in S, s # t
                 PROVE  Cardinality(Earlier(S, o, s)) # Cardinality(Earlier(S, o, t))
      OBVIOUS
    <2>1. o[s] < o[t] \/ o[t] < o[s]
      BY DEF Distinct
    <2> QED
      BY <1>2, <1>3, <2>1
  <1>5. rank \in Injection(S, 1..n)
    <2>1. rank \in [S -> 1..n]
      BY <1>1, <1>2
    <2>2. \A s, t \in S : rank[s] = rank[t] => s = t
      BY <1>2, <1>4
    <2> HIDE DEF rank, n
    <2> QED
      BY <2>1, <2>2 DEF Injection, IsInjective
  <1>6. IsFiniteSet(1..n) /\ Cardinality(1..n) = n
    BY <1>1, FS_Interval
  <1>7. rank \in Surjection(S, 1..n)
    <2>1. Cardinality(S) = Cardinality(1..n)
      BY <1>6
    <2> HIDE DEF rank, n
    <2> QED
      BY <1>5, <1>6, <2>1, FS_Injection
  <1>8. \A i \in 1..n : \E t \in S : rank[t] = i
    <2> HIDE DEF rank, n
    <2> QED
      BY <1>7 DEF Surjection
  <1>9. \A i \in 1..n : \E t \in S : Cardinality(Earlier(S, o, t)) = i - 1
    BY <1>1, <1>2, <1>8
  <1> QED
    BY <1>1, <1>2, <1>4, <1>9

LEMMA LogIs ==
  ASSUME NEW S \in SUBSET Tasks, NEW o, Distinct(S, o)
  PROVE  /\ LogOf(S, o) \in Seq(S) /\ Len(LogOf(S, o)) = Cardinality(S) /\ Cardinality(S) \in Nat
         /\ ToSet(LogOf(S, o)) = S
         /\ \A i \in 1..Cardinality(S) :
               LogOf(S, o)[i] \in S /\ Cardinality(Earlier(S, o, LogOf(S, o)[i])) = i - 1
         /\ \A t \in S, i \in 1..Cardinality(S) :
               Cardinality(Earlier(S, o, t)) = i - 1 => LogOf(S, o)[i] = t
  <1> DEFINE n == Cardinality(S)
             L == LogOf(S, o)
  <1>1. /\ n \in Nat
        /\ \A t \in S : Cardinality(Earlier(S, o, t)) \in Nat /\ Cardinality(Earlier(S, o, t)) < n
        /\ \A s, t \in S : Cardinality(Earlier(S, o, s)) = Cardinality(Earlier(S, o, t)) => s = t
        /\ \A i \in 1..n : \E t \in S : Cardinality(Earlier(S, o, t)) = i - 1
    BY RanksAreAll
  <1>2. \A i \in 1..n : L[i] \in S /\ Cardinality(Earlier(S, o, L[i])) = i - 1
    BY <1>1 DEF LogOf
  <1>3. DOMAIN L = 1..n /\ L \in [1..n -> S]
    BY <1>2 DEF LogOf
  <1>4. L \in Seq(S) /\ Len(L) = n
    <2> HIDE DEF L, n
    <2> QED
      BY <1>1, <1>3
  <1>5. \A t \in S, i \in 1..n : Cardinality(Earlier(S, o, t)) = i - 1 => L[i] = t
    <2> HIDE DEF L, n
    <2> QED
      BY <1>1, <1>2
  <1>6. ToSet(L) = S
    <2>1. ToSet(L) = {L[i] : i \in 1..n}
      <3> HIDE DEF L, n
      <3> QED
        BY <1>3 DEF ToSet
    <2>2. \A t \in S : \E i \in 1..n : L[i] = t
      <3> SUFFICES ASSUME NEW t \in S PROVE \E i \in 1..n : L[i] = t
        OBVIOUS
      <3> HIDE DEF L, n
      <3>1. Cardinality(Earlier(S, o, t)) + 1 \in 1..n
        BY <1>1
      <3>2. Cardinality(Earlier(S, o, t)) = (Cardinality(Earlier(S, o, t)) + 1) - 1
        BY <1>1
      <3> QED
        BY <1>5, <3>1, <3>2
    <2> HIDE DEF L, n
    <2> QED
      BY <1>2, <2>1, <2>2
  <1> QED
    BY <1>1, <1>2, <1>4, <1>5, <1>6

(* Only the ordinals of the integrated entries matter to the log. *)
LEMMA LogSame ==
  ASSUME NEW S \in SUBSET Tasks, NEW o, Distinct(S, o), NEW p, \A t \in S : p[t] = o[t]
  PROVE  LogOf(S, p) = LogOf(S, o)
  <1>1. \A t \in S : Earlier(S, p, t) = Earlier(S, o, t)
    BY DEF Earlier
  <1>2. Distinct(S, p)
    BY DEF Distinct
  <1> DEFINE n == Cardinality(S)
             L == LogOf(S, o)
             M == LogOf(S, p)
  <1>3. DOMAIN L = 1..n /\ DOMAIN M = 1..n /\ L = [i \in 1..n |-> L[i]] /\ M = [i \in 1..n |-> M[i]]
    BY DEF LogOf
  <1>4. \A i \in 1..n : M[i] \in S /\ Cardinality(Earlier(S, o, M[i])) = i - 1
    BY <1>1, <1>2, LogIs
  <1>5. \A i \in 1..n : L[i] = M[i]
    <2> HIDE DEF M, n
    <2> QED
      BY <1>4, LogIs DEF n
  <1> HIDE DEF L, M, n
  <1>6. L = M
    BY <1>3, <1>5
  <1> QED
    BY <1>6 DEF L, M

(* An entry behind all the others is appended. *)
LEMMA LogGrows ==
  ASSUME NEW S \in SUBSET Tasks, NEW u \in Tasks \ S, NEW o, Distinct(S \cup {u}, o),
         \A s \in S : o[s] < o[u]
  PROVE  LogOf(S \cup {u}, o) = Append(LogOf(S, o), u)
  <1> DEFINE n == Cardinality(S)
             T == S \cup {u}
             L == LogOf(S, o)
             M == LogOf(T, o)
  <1>1. /\ Distinct(S, o) /\ T \in SUBSET Tasks
    BY DEF Distinct
  <1>2. /\ L \in Seq(S) /\ Len(L) = n /\ n \in Nat
        /\ \A i \in 1..n : L[i] \in S /\ Cardinality(Earlier(S, o, L[i])) = i - 1
    BY <1>1, LogIs
  <1>3. Cardinality(T) = n + 1
    BY <1>1, RanksAreAll, FS_AddElement
  <1>4. /\ \A t \in S : Earlier(T, o, t) = Earlier(S, o, t)
        /\ Earlier(T, o, u) = S
    BY DEF Earlier, Distinct
  <1>5. /\ M \in Seq(T) /\ Len(M) = n + 1
        /\ \A t \in T, i \in 1..(n + 1) : Cardinality(Earlier(T, o, t)) = i - 1 => M[i] = t
    <2>1. Distinct(T, o) /\ T \in SUBSET Tasks
      BY <1>1
    <2> HIDE DEF n, T, L
    <2>2. /\ M \in Seq(T) /\ Len(M) = Cardinality(T)
          /\ \A t \in T, i \in 1..Cardinality(T) :
                Cardinality(Earlier(T, o, t)) = i - 1 => M[i] = t
      BY <2>1, LogIs
    <2> HIDE DEF M
    <2> QED
      BY <2>2, <1>3
  <1>6. \A i \in 1..n : M[i] = L[i]
    <2> SUFFICES ASSUME NEW i \in 1..n PROVE M[i] = L[i]
      OBVIOUS
    <2>1. L[i] \in T /\ L[i] \in S /\ Cardinality(Earlier(S, o, L[i])) = i - 1
      BY <1>2
    <2>2. Earlier(T, o, L[i]) = Earlier(S, o, L[i])
      BY <1>4, <2>1
    <2> HIDE DEF n, T, L, M
    <2>3. i \in 1..(n + 1)
      BY <1>2
    <2> QED
      BY <1>5, <2>1, <2>2, <2>3
  <1>7. M[n + 1] = u
    <2>1. u \in T /\ Earlier(T, o, u) = S
      BY <1>4
    <2>2. Cardinality(Earlier(T, o, u)) = n
      BY <2>1
    <2> HIDE DEF n, T, L, M
    <2>3. n + 1 \in 1..(n + 1) /\ n = (n + 1) - 1
      BY <1>2
    <2> QED
      BY <1>5, <2>1, <2>2, <2>3
  <1>8. /\ Append(L, u) \in Seq(T) /\ Len(Append(L, u)) = n + 1
        /\ \A i \in 1..n : Append(L, u)[i] = L[i]
        /\ Append(L, u)[n + 1] = u
    <2>1. L \in Seq(T) /\ u \in T
      BY <1>2
    <2> HIDE DEF n, T, L, M
    <2> QED
      BY <1>2, <2>1
  <1> HIDE DEF n, T, L, M
  <1>9. \A i \in 1..(n + 1) : M[i] = Append(L, u)[i]
    BY <1>2, <1>6, <1>7, <1>8
  <1>10. M = Append(L, u)
    BY <1>2, <1>5, <1>8, <1>9
  <1> QED
    BY <1>10 DEF M, L, T

-----------------------------------------------------------------------------
(* Integration implements the abstract log, step by step. *)
LEMMA LogOfIntegrated ==
  /\ IntegratedLog = LogOf(Integrated, ordinal)
  /\ IntegratedLog' = LogOf(Integrated', ordinal')
  BY DEF IntegratedLog, LogOf, Integrated, Earlier

LEMMA SetsAgree == \A s : Log!ToSet(s) = ToSet(s)
  BY DEF ToSet, Log!ToSet

LEMMA OrdinalsDistinct ==
  ASSUME EpicInv
  PROVE  Distinct(Integrated, ordinal) /\ ToSet(IntegratedLog) = Integrated /\ Integrated \subseteq Tasks
  <1>1. Distinct(Integrated, ordinal) /\ Integrated \in SUBSET Tasks
    BY DEF EpicInv, EntriesOk, Distinct, Integrated
  <1> QED
    BY <1>1, LogIs, LogOfIntegrated

(* The log stays while no entry becomes integrated. *)
LEMMA LogStays ==
  ASSUME EpicInv, Integrated' = Integrated, \A t \in Integrated : ordinal'[t] = ordinal[t]
  PROVE  IntegratedLog' = IntegratedLog
  BY OrdinalsDistinct, LogOfIntegrated, LogSame

LEMMA LogUntouched ==
  ASSUME ledger' = ledger, ordinal' = ordinal
  PROVE  IntegratedLog' = IntegratedLog
  BY DEF IntegratedLog

LEMMA LogMoves ==
  ASSUME EpicInv, NEW t \in Open(ledger), NEW x, x # "integrated",
         ledger' = [ledger EXCEPT ![t] = x], ordinal' = ordinal
  PROVE  IntegratedLog' = IntegratedLog
  <1>1. Integrated' = Integrated
    BY DEF Integrated, EpicInv, EntriesOk, Open, Closed
  <1> QED
    BY <1>1, LogStays

(* An entry that is integrated, and merged into all the repositories its     *)
(* task writes, is appended.                                                 *)
LEMMA Appends ==
  ASSUME EpicInv, NEW t \in Tasks, IsFirst(t, ledger, ordinal),
         ledger' = [ledger EXCEPT ![t] = "integrated"], UNCHANGED <<ordinal, refs>>,
         \A r \in Writes[t] : t \in ToSet(refs[r])
  PROVE  Log!Integrate(t)
  <1>1. t \notin Integrated /\ Integrated' = Integrated \cup {t}
    BY DEF Integrated, EpicInv, EntriesOk, IsFirst, Open, Closed
  <1>2. \A s \in Integrated : ordinal[s] < ordinal[t]
    BY DEF EpicInv, EntriesOk, IsFirst, Integrated
  <1>3. Distinct(Integrated \cup {t}, ordinal) /\ Integrated \in SUBSET Tasks
    BY <1>2, OrdinalsDistinct DEF EpicInv, EntriesOk, Distinct
  <1>4. LogOf(Integrated \cup {t}, ordinal) = Append(LogOf(Integrated, ordinal), t)
    BY <1>1, <1>2, <1>3, LogGrows
  <1>5. IntegratedLog' = Append(IntegratedLog, t)
    BY <1>1, <1>4, LogOfIntegrated
  <1> QED
    BY <1>1, <1>5, OrdinalsDistinct, SetsAgree DEF Log!Integrate

(* A repository that is published receives the merge of the task in work, or *)
(* has it already.                                                           *)
LEMMA Merges ==
  ASSUME EpicInv, pc \in Publishing, PublishRepo(current)
  PROVE  UNCHANGED refs \/ Log!Merge(current, Min(todo))
  <1> DEFINE t == current
             r == Min(todo)
             c == candidate[t][r]
  <1>1. /\ t \in Open(ledger) /\ t \in Tasks /\ IsFirst(t, ledger, ordinal)
    BY AtWork DEF Publishing, Working, Reconciles
  <1>2. todo # {} /\ Swaps(t, r) /\ refs' = [refs EXCEPT ![r] = c.to] /\ UNCHANGED ledgerVars
    BY DEF PublishRepo
  <1>3. r \in Repos /\ r \in Writes[t] /\ r \in DOMAIN candidate[t]
    BY <1>2, NextToPublish
  <1>4. /\ c.from \in Seq(Tasks \cup {Outside}) /\ c.to = Append(c.from, t)
        /\ refs \in [Repos -> Seq(Tasks \cup {Outside})]
    BY <1>1, <1>3 DEF EpicInv, CandidatesOk, BranchesOk
  <1>5. refs[r] = c.from \/ refs[r] = c.to
    BY <1>2 DEF Swaps
  <1>6. t \in ToSet(c.to)
    BY <1>1, <1>4, AppendHolds
  <1>7. CASE refs[r] = c.to
    <2>1. refs' = refs
      <3> HIDE DEF r, c
      <3> QED
        BY <1>2, <1>3, <1>4, <1>7
    <2> QED
      BY <2>1
  <1>8. CASE refs[r] = c.from
    <2>1. refs' = [refs EXCEPT ![r] = Append(refs[r], t)]
      BY <1>2, <1>4, <1>8
    <2>2. t \notin ToSet(refs[r])
      BY <1>1, <1>3, <1>8 DEF EpicInv, CandidatesOk
    <2>3. t \notin Integrated
      BY <1>1 DEF Integrated, Open, Closed
    <2>4. ASSUME NEW s \in Tasks, NEW q \in Repos, s \in ToSet(refs[q]), s \notin Integrated
          PROVE  s = t
      <3>1. IsFirst(s, ledger, ordinal)
        BY <2>4 DEF EpicInv, BranchesOk, Integrated
      <3>2. ordinal[s] \in Nat /\ ordinal[t] \in Nat
        BY <1>1 DEF EpicInv, EntriesOk
      <3> HIDE DEF t
      <3> QED
        BY <1>1, <3>1, <3>2 DEF IsFirst
    <2>5. Log!Merged \ Log!ToSet(IntegratedLog) \subseteq {t}
      BY <2>4, OrdinalsDistinct, SetsAgree DEF Log!Merged
    <2>6. Needs[t] \subseteq Integrated
      <3>1. wave[t] > 0
        BY <1>1 DEF EpicInv, EntriesOk, Open
      <3>2. \A p \in Needs[t] : p \in Tasks /\ ledger[p] = "integrated"
        BY <1>1, <3>1 DEF EpicInv, GatesOk, Needs
      <3> QED
        BY <3>2 DEF Integrated
    <2>7. IntegratedLog' = IntegratedLog
      BY <1>2, LogUntouched DEF ledgerVars
    <2> HIDE DEF t, r
    <2>8. Log!Merge(t, r)
      BY <1>3, <2>1, <2>2, <2>3, <2>5, <2>6, <2>7, OrdinalsDistinct, SetsAgree DEF Log!Merge
    <2> QED
      BY <2>8 DEF t, r
  <1> QED
    BY <1>5, <1>7, <1>8

(* One step of the epic is a step of the log or leaves it alone. *)
LEMMA EntryWorkMaps ==
  ASSUME EpicInv, pc = "process",
         \/ SurrenderEntry(current) \/ PrepareEntry(current)
         \/ VerifyEntry(current) \/ PublishBegins(current)
  PROVE  [Log!Next]_<<IntegratedLog, refs>>
  <1>1. /\ current \in Open(ledger) /\ current \in Tasks /\ IsFirst(current, ledger, ordinal)
    BY AtWork DEF Working
  <1>2. ordinal' = ordinal /\ refs' = refs
    BY DEF SurrenderEntry, PrepareEntry, VerifyEntry, PublishBegins, workVars
  <1>3. \/ ledger' = ledger
        \/ \E x \in {"reconciliation_required", "prepared", "verified", "failed"} :
              ledger' = [ledger EXCEPT ![current] = x]
        \/ PublishBegins(current) /\ DOMAIN candidate[current] = {}
             /\ ledger' = [ledger EXCEPT ![current] = "integrated"]
    BY DEF SurrenderEntry, ToReconciliation, PrepareEntry, VerifyEntry, PublishBegins
  <1>4. CASE ledger' = ledger
    BY <1>2, <1>4, LogUntouched
  <1>5. CASE \E x \in {"reconciliation_required", "prepared", "verified", "failed"} :
                ledger' = [ledger EXCEPT ![current] = x]
    BY <1>1, <1>2, <1>5, LogMoves
  <1>6. CASE PublishBegins(current) /\ DOMAIN candidate[current] = {}
               /\ ledger' = [ledger EXCEPT ![current] = "integrated"]
    <2>1. ledger[current] = "verified"
      BY <1>6 DEF PublishBegins
    <2>2. Writes[current] = {}
      BY <1>1, <1>6, <2>1 DEF EpicInv, CandidatesOk
    <2>3. Log!Integrate(current)
      BY <1>1, <1>2, <1>6, <2>2, Appends
    <2> QED
      BY <1>1, <2>3 DEF Log!Next
  <1> QED
    BY <1>3, <1>4, <1>5, <1>6

LEMMA PublicationMaps ==
  ASSUME EpicInv, pc = "publish", PublishEnds(current) \/ PublishStops(current)
  PROVE  [Log!Next]_<<IntegratedLog, refs>>
  <1>1. /\ current \in Open(ledger) /\ current \in Tasks /\ IsFirst(current, ledger, ordinal)
    BY AtWork DEF Working
  <1>2. ordinal' = ordinal /\ refs' = refs
    BY DEF PublishEnds, PublishStops
  <1>3. \/ ledger' = ledger
        \/ ledger' = [ledger EXCEPT ![current] = "reconciliation_required"]
        \/ todo = {} /\ ledger' = [ledger EXCEPT ![current] = "integrated"]
    BY DEF PublishEnds, PublishStops, ToReconciliation
  <1>4. CASE ledger' = ledger
    BY <1>2, <1>4, LogUntouched
  <1>5. CASE ledger' = [ledger EXCEPT ![current] = "reconciliation_required"]
    BY <1>1, <1>2, <1>5, LogMoves
  <1>6. CASE todo = {} /\ ledger' = [ledger EXCEPT ![current] = "integrated"]
    <2>1. \A r \in Writes[current] : current \in ToSet(refs[r])
      BY <1>6 DEF EpicInv, WorkOk
    <2>2. Log!Integrate(current)
      BY <1>1, <1>2, <1>6, <2>1, Appends
    <2> QED
      BY <1>1, <2>2 DEF Log!Next
  <1> QED
    BY <1>3, <1>4, <1>5, <1>6

LEMMA ResolveMaps ==
  ASSUME EpicInv, pc \in {"observe", "reobserve"}, ResolveEntry(current)
  PROVE  [Log!Next]_<<IntegratedLog, refs>>
  <1>1. /\ current \in Open(ledger) /\ current \in Tasks /\ IsFirst(current, ledger, ordinal)
    BY AtWork DEF Working, Reconciles
  <1>2. ordinal' = ordinal /\ refs' = refs
    BY DEF ResolveEntry
  <1>3. ledger' = ledger \/ ledger' = [ledger EXCEPT ![current] = "integrated"]
    BY DEF ResolveEntry
  <1>4. CASE ledger' = ledger
    BY <1>2, <1>4, LogUntouched
  <1>5. CASE ledger' = [ledger EXCEPT ![current] = "integrated"]
    <2>1. DOMAIN candidate[current] = Writes[current]
      BY <1>1 DEF ResolveEntry, EpicInv, CandidatesOk
    <2>2. ASSUME NEW r \in Writes[current] PROVE current \in ToSet(refs[r])
      <3>1. refs[r] = candidate[current][r].to
        BY <2>1, <2>2 DEF ResolveEntry, Pending, Alien, Swaps
      <3>2. /\ candidate[current][r].from \in Seq(Tasks \cup {Outside})
            /\ candidate[current][r].to = Append(candidate[current][r].from, current)
        BY <1>1, <2>1, <2>2 DEF EpicInv, CandidatesOk
      <3> QED
        BY <1>1, <3>1, <3>2, AppendHolds
    <2>3. Log!Integrate(current)
      BY <1>1, <1>2, <1>5, <2>2, Appends
    <2> QED
      BY <1>1, <2>3 DEF Log!Next
  <1> QED
    BY <1>3, <1>4, <1>5

LEMMA ScanMaps ==
  ASSUME EpicInv, SkipEntry \/ TakeEntry("process", "observe")
  PROVE  [Log!Next]_<<IntegratedLog, refs>>
  <1>1. CASE SkipEntry
    <2>1. First \in Open(ledger)
      BY <1>1, FirstIsFirst DEF SkipEntry, EpicInv, IsFirst
    <2>2. ledger' = [ledger EXCEPT ![First] = "failed"] /\ ordinal' = ordinal /\ refs' = refs
      BY <1>1 DEF SkipEntry
    <2> QED
      BY <2>1, <2>2, LogMoves
  <1>2. CASE TakeEntry("process", "observe")
    BY <1>2, LogUntouched DEF TakeEntry, ledgerVars
  <1> QED
    BY <1>1, <1>2

LEMMA IntegrationMaps ==
  ASSUME EpicInv, IntegrationStep
  PROVE  [Log!Next]_<<IntegratedLog, refs>>
  <1>1. CASE pc = "scan"
    BY <1>1, ScanMaps DEF IntegrationStep
  <1>2. CASE pc = "process"
    BY <1>2, EntryWorkMaps DEF IntegrationStep
  <1>3. CASE pc \in Publishing /\ PublishRepo(current)
    <2>1. UNCHANGED refs \/ Log!Merge(current, Min(todo))
      BY <1>3, Merges
    <2>2. IntegratedLog' = IntegratedLog
      BY <1>3, LogUntouched DEF PublishRepo, ledgerVars
    <2>3. current \in Tasks /\ Min(todo) \in Repos
      BY <1>3, AtWork, RepoPublished DEF Publishing, Working, Reconciles
    <2> QED
      BY <2>1, <2>2, <2>3 DEF Log!Next
  <1>4. CASE pc = "publish" /\ (PublishEnds(current) \/ PublishStops(current))
    BY <1>4, PublicationMaps
  <1>5. CASE pc \in {"observe", "reobserve"} /\ ResolveEntry(current)
    BY <1>5, ResolveMaps
  <1>6. CASE \/ BlockEntry(current, FALSE) \/ BlockEntry(current, TRUE) \/ ForwardEntry(current)
             \/ ForwardEnds(current)
    <2>1. ledger' = ledger /\ ordinal' = ordinal /\ refs' = refs
      BY <1>6 DEF BlockEntry, ForwardEntry, ForwardEnds, ledgerVars
    <2> QED
      BY <2>1, LogUntouched
  <1> QED
    BY <1>1, <1>2, <1>3, <1>4, <1>5, <1>6 DEF IntegrationStep, Publishing

(* Enqueueing entries and handing one to reconciliation integrates nothing, *)
(* and integrated entries keep their ordinals.                              *)
LEMMA EnqueueMaps ==
  ASSUME EpicInv, Integrates
  PROVE  UNCHANGED <<IntegratedLog, refs>>
  <1> DEFINE l == [t \in Tasks |-> IF t \in Enqueued THEN "queued" ELSE ledger[t]]
             o == [t \in Tasks |-> IF t \in Enqueued THEN Place(t) ELSE ordinal[t]]
             d == Drifted(l, o)
  <1>1. /\ ordinal' = o /\ refs' = refs
        /\ \/ ledger' = l
           \/ ledger' = [t \in Tasks |-> IF t \in d THEN "reconciliation_required" ELSE l[t]]
    BY DEF Integrates, IntegrationBegins
  <1>2. \A t \in Enqueued : t \in Tasks /\ ledger[t] = "none"
    BY DEF Enqueued, Dispatched
  <1>3. \A t \in Tasks : o[t] \in Nat
    BY PlacesGrow DEF EpicInv, DispatchOk, EntriesOk
  <1>4. \A t \in d : t \in Tasks /\ l[t] # "integrated"
    <2> HIDE DEF l, o
    <2>1. DriftHits(l) \in SUBSET Tasks /\ \A t \in DriftHits(l) : l[t] # "integrated"
      BY DEF DriftHits, Open, Closed
    <2>2. DriftHits(l) # {} => InOrder(DriftHits(l), o) \in DriftHits(l)
      BY <1>3, <2>1, FirstInOrder
    <2> QED
      BY <2>1, <2>2 DEF Drifted
  <1>5. \A t \in Tasks : ledger[t] = "integrated" => o[t] = ordinal[t]
    BY <1>2
  <1>6. \A t \in Tasks : l[t] = "integrated" <=> ledger[t] = "integrated"
    BY <1>2
  <1> HIDE DEF l, o, d
  <1>7. Integrated' = Integrated
    BY <1>1, <1>4, <1>6 DEF Integrated
  <1>8. \A t \in Integrated : ordinal'[t] = ordinal[t]
    BY <1>1, <1>5 DEF Integrated
  <1> QED
    BY <1>1, <1>7, <1>8, LogStays

LEMMA StepMaps ==
  ASSUME EpicInv, [Next]_vars
  PROVE  [Log!Next]_<<IntegratedLog, refs>>
  <1>1. CASE Integrates
    BY <1>1, EnqueueMaps
  <1>2. CASE IntegrationStep
    BY <1>2, IntegrationMaps
  <1>3. CASE \E r \in Repos : Push(r)
    <2>1. PICK r \in Repos : Push(r)
      BY <1>3
    <2>2. IntegratedLog' = IntegratedLog
      BY <2>1, LogUntouched DEF Push, ExternalPush, ledgerVars
    <2>3. Log!Push(r)
      BY <2>1, <2>2 DEF Push, ExternalPush, Log!Push
    <2> QED
      BY <2>3 DEF Log!Next
  <1>4. CASE \/ UNCHANGED integVars
             \/ UNCHANGED <<ledgerVars, refs>>
    BY <1>4, LogUntouched DEF integVars, ledgerVars
  <1>5. CASE UNCHANGED vars
    BY <1>4, <1>5 DEF vars
  <1>6. CASE Daemon /\ ~ Integrates /\ ~ IntegrationStep
    BY <1>4, <1>6
    DEF Daemon, TickBegins, BeginTick, ScanEnds, Plans, RunsTasks, SchedulerEnds, Decides,
        Revises, Resumes
  <1>7. CASE Requests \/ \E t \in Tasks : Answers(t) \/ Arrives(t) \/ Ends(t) \/ Wavers(t)
    BY <1>4, <1>7 DEF Requests, Reports, Answers, Arrives, Ends, Wavers
  <1>8. CASE Crashes \/ CrashesInReport
    BY <1>4, <1>8 DEF Crashes, CrashesInReport, Forgotten
  <1> QED
    BY <1>1, <1>2, <1>3, <1>5, <1>6, <1>7, <1>8 DEF Next

LEMMA InitMaps == Init => Log!Init
  <1> SUFFICES ASSUME Init PROVE Log!Init
    OBVIOUS
  <1>1. Integrated = {}
    BY DEF Init, IntegrationInit, Integrated
  <1>2. LogOf({}, ordinal) = <<>>
    <2>1. Cardinality({}) = 0
      BY FS_EmptySet
    <2>2. LogOf({}, ordinal) \in [{} -> {}]
      BY <2>1 DEF LogOf
    <2> QED
      BY <2>1, LogIs DEF Distinct
  <1> QED
    BY <1>1, <1>2, LogOfIntegrated DEF Init, IntegrationInit, Log!Init

(* The integration service implements the log: whatever crashes, partial     *)
(* publications, pushes from outside and reconciliations happen on the way,  *)
(* the epic branches grow by one task at a time, in dependency order, and    *)
(* nothing is taken back (TaskIntegrationService, SqliteIntegrationStore).   *)
THEOREM IntegrationImplementsLog == Spec => ImplementsLog
  BY InitMaps, StepMaps, EpicInvariant, PTL DEF Spec, ImplementsLog, Log!Spec
=============================================================================
