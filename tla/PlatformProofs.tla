--------------------------- MODULE PlatformProofs ---------------------------
(***************************************************************************)
(* Proofs about the services that stand beside the scheduler.  Capsules: a *)
(* continuation is accepted exactly when the work can go on where it       *)
(* stopped.  Admission: no attached stage comes before work that had       *)
(* begun.  Segment fusion: the session a stage joins is the latest.        *)
(* Findings: a ready verification leaves no accepted finding open.  Native *)
(* bridge: a run that waits for its user can be answered, and no parent    *)
(* submits past an answer it was not given.  They hold for any graphs,     *)
(* repositories, templates, findings, runs and sessions, and any number of *)
(* moves, reports, attempts, questions and deaths of the daemon.           *)
(***************************************************************************)
EXTENDS MCPlatform, Sequences, TLAPS, FiniteSetTheorems, NaturalsInduction,
        WellFoundedInduction

-----------------------------------------------------------------------------
(* Folds over finite sets *)

LEMMA LeastOf ==
  ASSUME NEW S \in SUBSET Nat, S # {}
  PROVE  \E x \in S : \A y \in S : x <= y
  <1> DEFINE Less == {ss \in Nat \X Nat : ss[1] < ss[2]}
  <1>1. IsWellFoundedOn(Less, Nat)
    BY NatLessThanWellFounded, Zenon DEF OpToRel
  <1>2. PICK x \in S : \A y \in S : ~ (<<y, x>> \in Less)
    <2> HIDE DEF Less
    <2> QED
      BY <1>1, WFMin, Zenon
  <1>3. ASSUME NEW y \in S PROVE x <= y
    <2>1. <<y, x>> \in Nat \X Nat /\ <<y, x>>[1] = y /\ <<y, x>>[2] = x
      OBVIOUS
    <2>2. ~ (y < x)
      BY <1>2, <2>1, Zenon
    <2> QED
      BY <2>2
  <1> QED
    BY <1>3

(* What holds of the empty set, and of every set that holds a member without which it *)
(* has the property, holds of all subsets of a finite set.                      *)
LEMMA SubsetsReached ==
  ASSUME NEW S, IsFiniteSet(S), NEW Q, {} \in Q,
         \A s \in SUBSET S : s # {} => \E x \in s : (s \ {x} \in Q) => (s \in Q)
  PROVE  SUBSET S \subseteq Q
  <1>1. SUFFICES ASSUME NEW bad \in SUBSET S, bad \notin Q PROVE FALSE
    OBVIOUS
  <1> DEFINE Sizes == {Cardinality(s) : s \in {t \in SUBSET S : t \notin Q}}
  <1>2. \A s \in SUBSET S : IsFiniteSet(s) /\ Cardinality(s) \in Nat
    BY FS_Subset, FS_CardinalityType
  <1>3. Sizes \in SUBSET Nat /\ Sizes # {}
    BY <1>1, <1>2
  <1>4. PICK k \in Sizes : \A m \in Sizes : k <= m
    <2> HIDE DEF Sizes
    <2> QED
      BY <1>3, LeastOf
  <1>5. PICK s \in SUBSET S : s \notin Q /\ k = Cardinality(s)
    BY <1>4
  <1>6. PICK x \in s : (s \ {x} \in Q) => (s \in Q)
    <2>1. s \notin Q
      BY <1>5
    <2> HIDE DEF Sizes
    <2>2. s # {}
      BY <2>1
    <2> QED
      BY <2>2
  <1>7. Cardinality(s \ {x}) = k - 1
    BY <1>2, <1>5, <1>6, FS_RemoveElement
  <1>8. s \ {x} \in SUBSET S /\ s \ {x} \notin Q
    BY <1>5, <1>6
  <1>9. k - 1 \in Sizes
    BY <1>7, <1>8
  <1>10. k \in Nat /\ k <= k - 1
    BY <1>3, <1>4, <1>9
  <1> QED
    BY <1>10

(* A fold of the finite set S that stays among the values V: ch picks the member to  *)
(* apply last, op applies it.                                                 *)
Foldable(S, V, first, ch, op) ==
  /\ IsFiniteSet(S) /\ first \in V
  /\ \A s \in SUBSET S : s # {} => ch[s] \in s
  /\ \A x \in S : \A v \in V : op[<<x, v>>] \in V

Folded(g, S, V, first, ch, op) ==
  /\ g \in [SUBSET S -> V]
  /\ \A s \in SUBSET S :
       g[s] = IF s = {} THEN first ELSE op[<<ch[s], g[s \ {ch[s]}]>>]

(* The function a fold is computed with exists. *)
LEMMA FoldExists ==
  ASSUME NEW S, NEW V, NEW first, NEW ch, NEW op, Foldable(S, V, first, ch, op)
  PROVE  \E g : Folded(g, S, V, first, ch, op)
  <1>0. /\ IsFiniteSet(S) /\ first \in V
        /\ \A s \in SUBSET S : s # {} => ch[s] \in s
        /\ \A x \in S : \A v \in V : op[<<x, v>>] \in V
    BY DEF Foldable
  <1> DEFINE Small(k) == {s \in SUBSET S : Cardinality(s) <= k}
             Folds(g, k) == \A s \in Small(k) :
                              g[s] = IF s = {} THEN first ELSE op[<<ch[s], g[s \ {ch[s]}]>>]
             None == {k \in Nat : ~ \E g \in [Small(k) -> V] : Folds(g, k)}
  <1>1. \A s \in SUBSET S : IsFiniteSet(s) /\ Cardinality(s) \in Nat
    BY <1>0, FS_Subset, FS_CardinalityType
  <1>2. None = {}
    <2>1. SUFFICES ASSUME None # {} PROVE FALSE
      OBVIOUS
    <2>2. PICK k \in None : \A m \in None : k <= m
      <3>1. None \in SUBSET Nat
        OBVIOUS
      <3> HIDE DEF None
      <3> QED
        BY <2>1, <3>1, LeastOf
    <2>3. k \in Nat /\ ~ \E g \in [Small(k) -> V] : Folds(g, k)
      OBVIOUS
    <2>4. CASE k = 0
      <3> DEFINE g == [s \in Small(0) |-> first]
      <3>1. \A s \in Small(0) : s = {}
        BY <1>1, FS_EmptySet
      <3>2. g \in [Small(0) -> V] /\ Folds(g, 0)
        BY <1>0, <3>1
      <3> QED
        BY <2>3, <2>4, <3>2
    <2>5. CASE k # 0
      <3>1. k - 1 \in Nat /\ ~ (k <= k - 1)
        BY <2>3, <2>5
      <3>2. k - 1 \notin None
        BY <2>2, <3>1
      <3>3. PICK g \in [Small(k - 1) -> V] : Folds(g, k - 1)
        BY <3>1, <3>2
      <3> DEFINE h == [s \in Small(k) |->
                         IF s = {} THEN first ELSE op[<<ch[s], g[s \ {ch[s]}]>>]]
      <3>4. ASSUME NEW s \in Small(k), s # {}
            PROVE  s \ {ch[s]} \in Small(k - 1)
        <4>1. ch[s] \in s
          BY <1>0, <3>4
        <4>2. Cardinality(s \ {ch[s]}) = Cardinality(s) - 1
          BY <1>1, <4>1, FS_RemoveElement
        <4> QED
          BY <1>1, <2>3, <4>2
      <3>5. \A s \in Small(k - 1) : s \in Small(k)
        BY <1>1, <2>3
      <3>6. ASSUME NEW s \in Small(k) PROVE h[s] \in V
        <4>1. CASE s = {}
          BY <1>0, <4>1
        <4>2. CASE s # {}
          <5>1. g[s \ {ch[s]}] \in V /\ ch[s] \in S
            BY <1>0, <3>3, <3>4, <4>2
          <5>2. h[s] = op[<<ch[s], g[s \ {ch[s]}]>>]
            BY <4>2
          <5> QED
            BY <1>0, <5>1, <5>2
        <4> QED
          BY <4>1, <4>2
      <3>7. ASSUME NEW t \in Small(k - 1) PROVE h[t] = g[t]
        BY <3>3, <3>5
      <3>8. ASSUME NEW s \in Small(k)
            PROVE  h[s] = IF s = {} THEN first ELSE op[<<ch[s], h[s \ {ch[s]}]>>]
        BY <3>4, <3>7
      <3>9. h \in [Small(k) -> V] /\ Folds(h, k)
        <4>1. h \in [Small(k) -> V]
          BY <3>6
        <4> HIDE DEF h
        <4> QED
          BY <3>8, <4>1
      <3> HIDE DEF h, Small, Folds
      <3> QED
        BY <2>3, <3>9
    <2> QED
      BY <2>4, <2>5
  <1>3. Small(Cardinality(S)) = SUBSET S /\ Cardinality(S) \in Nat
    BY <1>1, FS_Subset
  <1>4. \E g \in [Small(Cardinality(S)) -> V] : Folds(g, Cardinality(S))
    BY <1>2, <1>3
  <1>5. PICK g \in [Small(Cardinality(S)) -> V] : Folds(g, Cardinality(S))
    BY <1>4
  <1>6. Folded(g, S, V, first, ch, op)
    <2>1. g \in [SUBSET S -> V]
      BY <1>3
    <2>2. \A s \in SUBSET S :
            g[s] = IF s = {} THEN first ELSE op[<<ch[s], g[s \ {ch[s]}]>>]
      BY <1>3, <1>5
    <2> QED
      BY <2>1, <2>2 DEF Folded
  <1> QED
    BY <1>6

-----------------------------------------------------------------------------
(* Continuation capsules *)

(* What the capsule says is what the witness was, but for the dirty files, which *)
(* somebody may have altered since; the digest stands for the original.          *)
CapsuleBuilt ==
  /\ capsule = [state |-> "built",
                digest |-> [heads |-> witness.heads, dirty |-> witness.dirty,
                            artifacts |-> capsule.artifacts, context |-> capsule.context],
                heads |-> witness.heads, dirty |-> capsule.dirty,
                artifacts |-> capsule.artifacts, context |-> capsule.context]
  /\ \A a \in DOMAIN capsule.artifacts : capsule.artifacts[a] = witness.artifacts[a]
  /\ \A f \in DOMAIN capsule.context : capsule.context[f] \in {"any", witness.context[f]}

CapsuleInv ==
  /\ \/ capsule = C!NoCapsule \/ capsule = [state |-> "blocked"]
     \/ CapsuleBuilt
  /\ verdict # C!Unverified => CapsuleBuilt /\ ResumesWhereItStopped

LEMMA CheckpointKeeps ==
  ASSUME CapsuleInv, C!Checkpoint
  PROVE  CapsuleInv'
  <1>1. PICK input \in [complete : BOOLEAN, hashed : BOOLEAN,
                        artifacts : SUBSET {a \in Artifacts : world.artifacts[a] # "missing"},
                        context : SUBSET {f \in Files : world.context[f] # "missing"}] :
          IF C!Blocker(input) # "none"
          THEN capsule' = [state |-> "blocked"] /\ UNCHANGED handoffs
          ELSE LET fields == [heads |-> world.heads, dirty |-> C!Bounded(world.dirty),
                              artifacts |-> [a \in input.artifacts |-> world.artifacts[a]],
                              context |-> [f \in input.context |->
                                             IF input.hashed THEN world.context[f] ELSE "any"]]
               IN  /\ capsule' = [state |-> "built", digest |-> fields, heads |-> fields.heads,
                                  dirty |-> fields.dirty, artifacts |-> fields.artifacts,
                                  context |-> fields.context]
                   /\ handoffs' = handoffs + 1
    BY DEF C!Checkpoint
  <1>2. verdict' = C!Unverified /\ witness' = world
    BY DEF CapsuleInv, CapsuleBuilt, C!Checkpoint, C!NoCapsule
  <1>3. CASE C!Blocker(input) # "none"
    BY <1>1, <1>2, <1>3 DEF CapsuleInv
  <1>4. CASE C!Blocker(input) = "none"
    <2>1. C!Bounded(world.dirty) = world.dirty
      BY <1>4 DEF C!Blocker, C!Bounded
    <2> DEFINE artifacts == [a \in input.artifacts |-> world.artifacts[a]]
               context == [f \in input.context |->
                             IF input.hashed THEN world.context[f] ELSE "any"]
               fields == [heads |-> world.heads, dirty |-> world.dirty,
                          artifacts |-> artifacts, context |-> context]
    <2>2. capsule' = [state |-> "built", digest |-> fields, heads |-> world.heads,
                      dirty |-> world.dirty, artifacts |-> artifacts, context |-> context]
      BY <1>1, <1>4, <2>1
    <2>3. capsule'.artifacts = artifacts /\ capsule'.context = context
          /\ capsule'.dirty = world.dirty
      BY <2>2
    <2>4. /\ \A a \in DOMAIN artifacts : artifacts[a] = world.artifacts[a]
          /\ \A f \in DOMAIN context : context[f] \in {"any", world.context[f]}
      OBVIOUS
    <2> HIDE DEF artifacts, context
    <2>5. CapsuleBuilt'
      BY <1>2, <2>2, <2>3, <2>4 DEF CapsuleBuilt
    <2> QED
      BY <1>2, <2>5 DEF CapsuleInv
  <1> QED
    BY <1>3, <1>4

LEMMA VerifyKeeps ==
  ASSUME CapsuleInv, C!Verify
  PROVE  CapsuleInv'
  <1>1. CapsuleBuilt
    BY DEF CapsuleInv, C!Verify, C!NoCapsule
  <1>2. UNCHANGED <<world, witness, capsule>>
    BY DEF C!Verify
  <1>3. CapsuleBuilt'
    BY <1>1, <1>2 DEF CapsuleBuilt
  <1> DEFINE Own == {"contradictory_completion", "cheap_check_failed"}
  <1>4. PICK objections \in SUBSET Own : verdict' =
          (IF C!VerifyCapsuleDigest(capsule) THEN {} ELSE {"digest_mismatch", "tampered_capsule"})
          \cup (IF capsule.heads = world.heads THEN {} ELSE {"stale_head"})
          \cup (IF capsule.dirty = world.dirty THEN {} ELSE {"dirty_set_mismatch"})
          \cup C!ArtifactBlockers(capsule.artifacts) \cup C!ContextBlockers(capsule.context)
          \cup objections
    BY DEF C!Verify
  <1>5. C!VerifyCapsuleDigest(capsule) <=> capsule.dirty = witness.dirty
    BY <1>1 DEF CapsuleBuilt, C!VerifyCapsuleDigest, C!Payload
  <1>6. capsule.heads = witness.heads
    BY <1>1 DEF CapsuleBuilt
  <1>7. C!ArtifactBlockers(capsule.artifacts) \subseteq Own
        <=> \A a \in DOMAIN capsule.artifacts :
              world.artifacts[a] # "missing" /\ world.artifacts[a] = witness.artifacts[a]
    BY <1>1 DEF CapsuleBuilt, C!ArtifactBlockers
  <1>8. C!ContextBlockers(capsule.context) \subseteq Own
        <=> \A f \in DOMAIN capsule.context :
              /\ world.context[f] # "missing"
              /\ capsule.context[f] # "any" => world.context[f] = witness.context[f]
    BY <1>1 DEF CapsuleBuilt, C!ContextBlockers
  <1>9. verdict' \subseteq Own <=>
          /\ capsule.dirty = witness.dirty /\ world.dirty = witness.dirty
          /\ world.heads = witness.heads
          /\ C!ArtifactBlockers(capsule.artifacts) \subseteq Own
          /\ C!ContextBlockers(capsule.context) \subseteq Own
    BY <1>4, <1>5, <1>6
  <1>10. ResumesWhereItStopped'
    BY <1>2, <1>7, <1>8, <1>9 DEF ResumesWhereItStopped, C!ResumesWhereItStopped
  <1> QED
    BY <1>3, <1>10 DEF CapsuleInv

LEMMA CapsuleStep ==
  ASSUME CapsuleInv, C!Next
  PROVE  CapsuleInv'
  <1>1. CASE C!Move
    <2>1. verdict' = C!Unverified /\ UNCHANGED <<capsule, witness>>
      BY <1>1 DEF C!Move
    <2> QED
      BY <2>1 DEF CapsuleInv, CapsuleBuilt
  <1>2. CASE C!Alter
    <2>1. verdict' = C!Unverified /\ witness' = witness /\ CapsuleBuilt
      BY <1>2 DEF C!Alter, CapsuleInv, C!NoCapsule
    <2>2. CapsuleBuilt'
      BY <1>2, <2>1 DEF C!Alter, CapsuleBuilt
    <2> QED
      BY <2>1, <2>2 DEF CapsuleInv
  <1> QED
    BY <1>1, <1>2, CheckpointKeeps, VerifyKeeps DEF C!Next

(* verifyIncomingContinuation accepts a capsule exactly when the work can go on *)
(* where it stopped, for any repositories, files and artifacts, any bound on     *)
(* the references and any number of moves.                                   *)
THEOREM CapsulesResume == Spec => []ResumesWhereItStopped
  <1>1. Init => CapsuleInv
    BY DEF Init, C!Init, CapsuleInv
  <1>2. CapsuleInv /\ [Next]_vars => CapsuleInv'
    <2> SUFFICES ASSUME CapsuleInv, [Next]_vars PROVE CapsuleInv'
      OBVIOUS
    <2>1. CASE C!Next
      BY <2>1, CapsuleStep
    <2>2. CASE UNCHANGED capsuleVars
      BY <2>2 DEF capsuleVars, CapsuleInv, CapsuleBuilt, ResumesWhereItStopped,
                  C!ResumesWhereItStopped
    <2> QED
      BY <2>1, <2>2 DEF Next, vars
  <1>3. CapsuleInv => ResumesWhereItStopped
    BY DEF CapsuleInv, ResumesWhereItStopped, C!ResumesWhereItStopped
  <1> QED
    BY <1>1, <1>2, <1>3, PTL DEF Spec

-----------------------------------------------------------------------------
(* Admission and attachment *)

(* The first of a list of checks that applies. *)
LEMMA FirstCheck ==
  ASSUME NEW S \in SUBSET Nat, S # {}
  PROVE  P!Min(S) \in S /\ \A j \in S : P!Min(S) <= j
  <1>1. PICK x \in S : \A y \in S : x <= y
    BY LeastOf
  <1> QED
    BY <1>1, Zenon DEF P!Min

(* What has begun is scheduled and no longer pending; requests that committed   *)
(* were composed under a graph that has been replaced since.                 *)
AdmissionInv ==
  /\ schedule.graphRevision \in Nat
  /\ \A r \in sent : r.graphRevision \in Nat
  /\ ledger \subseteq sent
  /\ schedule.graphRevision = 0 => sent = {} /\ DOMAIN started = {}
  /\ schedule.graphRevision > 0 =>
       /\ DOMAIN schedule = {"graphRevision", "revision", "terminal", "graph", "state"}
       /\ \A s \in DOMAIN started :
            s \in DOMAIN schedule.state /\ schedule.state[s] # "pending" /\ started[s] \in Nat
       /\ \A r \in ledger : r.graphRevision < schedule.graphRevision
  /\ AttachedBeforeDependants

LEMMA CommittedIsCurrent ==
  ASSUME NEW r, P!AttachResult(r) = "committed"
  PROVE  /\ r.graphRevision = schedule.graphRevision
         /\ \A d \in r.dependants : d \in DOMAIN schedule.state /\ schedule.state[d] = "pending"
         /\ r.stage \notin DOMAIN schedule.state
  <1> DEFINE outer == <<
        <<source.state # "succeeded", "source-stage-not-succeeded">>,
        <<~source.artifact, "completion-artifacts-missing">>,
        <<~P!Valid(P!Augmented(r)), "augmented-graph-invalid">>,
        <<TRUE, P!LedgerResult(r)>> >>
             inner == <<
        <<r \in ledger, "idempotent-replay">>,
        <<r.id \in {q.id : q \in ledger}, "attachment-id-conflict">>,
        <<r.stage \in {q.stage : q \in ledger}, "source-target-conflict">>,
        <<schedule.terminal, "target-terminal">>,
        <<r.graphRevision # schedule.graphRevision \/ r.revision # schedule.revision,
          "stale-schedule">>,
        <<canonical = 0, "canonical-missing">>,
        <<r.canonical # canonical, "stale-run-revision">>,
        <<\E s \in DOMAIN schedule.state : schedule.state[s] \in P!Active, "not-quiescent">>,
        <<P!DependantInvalid(r), "dependant-invalid">>,
        <<r.stage \in DOMAIN schedule.state, "stage-exists">>,
        <<schedule.graphRevision + 1 > MaxGraphRevisions, "graph-revision-limit">>,
        <<TRUE, "committed">> >>
  <1>1. P!LedgerResult(r) = "committed"
    <2> DEFINE I == {i \in DOMAIN outer : outer[i][1]}
    <2>1. DOMAIN outer = 1..4
      OBVIOUS
    <2>5. outer[4][1] = TRUE
      OBVIOUS
    <2>2. P!Min(I) \in 1..4
      <3>1. I \in SUBSET Nat /\ I # {} /\ I \subseteq 1..4
        <4> HIDE DEF outer
        <4> QED
          BY <2>1, <2>5
      <3> HIDE DEF I
      <3> QED
        BY <3>1, FirstCheck
    <2>3. outer[P!Min(I)][2] = "committed"
      BY DEF P!AttachResult
    <2>4. /\ outer[1][2] = "source-stage-not-succeeded" /\ outer[2][2] = "completion-artifacts-missing"
          /\ outer[3][2] = "augmented-graph-invalid" /\ outer[4][2] = P!LedgerResult(r)
      OBVIOUS
    <2> HIDE DEF outer, I
    <2> QED
      BY <2>2, <2>3, <2>4
  <1>2. \A i \in 1..11 : ~inner[i][1]
    <2> DEFINE I == {i \in DOMAIN inner : inner[i][1]}
    <2>1. DOMAIN inner = 1..12
      OBVIOUS
    <2>7. inner[12][1] = TRUE
      OBVIOUS
    <2>2. P!Min(I) \in 1..12 /\ \A j \in I : P!Min(I) <= j
      <3>1. I \in SUBSET Nat /\ I # {} /\ I \subseteq 1..12
        <4> HIDE DEF inner
        <4> QED
          BY <2>1, <2>7
      <3> HIDE DEF I
      <3> QED
        BY <3>1, FirstCheck
    <2>3. inner[P!Min(I)][2] = "committed"
      BY <1>1, Zenon DEF P!LedgerResult
    <2>4. \A i \in 1..11 : inner[i][2] # "committed"
      OBVIOUS
    <2>5. \A i \in DOMAIN inner : inner[i][1] => i \in I
      OBVIOUS
    <2> HIDE DEF inner, I
    <2>6. P!Min(I) = 12
      BY <2>2, <2>3, <2>4
    <2> QED
      BY <2>1, <2>2, <2>5, <2>6
  <1>3. ~inner[5][1] /\ ~inner[9][1] /\ ~inner[10][1]
    BY <1>2
  <1> QED
    BY <1>3 DEF P!DependantInvalid

LEMMA AttachKeeps ==
  ASSUME AdmissionInv, NEW r \in sent, P!Attach(r)
  PROVE  AdmissionInv'
  <1>1. UNCHANGED <<sent, started>>
    BY DEF P!Attach
  <1>2. CASE P!AttachResult(r) # "committed"
    <2>1. UNCHANGED <<schedule, ledger>>
      BY <1>2 DEF P!Attach
    <2> QED
      BY <1>1, <2>1 DEF AdmissionInv, AttachedBeforeDependants, P!AttachedBeforeDependants
  <1>3. CASE P!AttachResult(r) = "committed"
    <2>1. /\ r.graphRevision = schedule.graphRevision
          /\ \A d \in r.dependants : d \in DOMAIN schedule.state /\ schedule.state[d] = "pending"
          /\ r.stage \notin DOMAIN schedule.state
      BY <1>3, CommittedIsCurrent
    <2>2. /\ schedule' = [schedule EXCEPT
                  !.graphRevision = @ + 1, !.revision = @ + 1, !.graph = P!Augmented(r),
                  !.state = [s \in DOMAIN @ \cup {r.stage} |->
                               IF s = r.stage THEN "succeeded" ELSE schedule.state[s]]]
          /\ ledger' = ledger \cup {r}
      BY <1>3 DEF P!Attach
    <2>3. schedule.graphRevision \in Nat /\ schedule.graphRevision > 0
      BY DEF AdmissionInv
    <2>4. DOMAIN schedule = {"graphRevision", "revision", "terminal", "graph", "state"}
      BY <2>3 DEF AdmissionInv
    <2>5. /\ schedule'.graphRevision = schedule.graphRevision + 1
          /\ DOMAIN schedule' = DOMAIN schedule
          /\ DOMAIN schedule'.state = DOMAIN schedule.state \cup {r.stage}
          /\ \A s \in DOMAIN schedule.state : schedule'.state[s] = schedule.state[s]
      BY <2>1, <2>2, <2>4
    <2>6. \A s \in DOMAIN started :
            s \in DOMAIN schedule.state /\ schedule.state[s] # "pending" /\ started[s] \in Nat
      BY <2>3 DEF AdmissionInv
    <2>7. \A q \in ledger' : q.graphRevision < schedule'.graphRevision
      <3>1. \A q \in ledger : q \in sent /\ q.graphRevision < schedule.graphRevision
        BY <2>3 DEF AdmissionInv
      <3>2. \A q \in sent : q.graphRevision \in Nat
        BY DEF AdmissionInv
      <3> QED
        BY <2>1, <2>2, <2>3, <2>5, <3>1, <3>2
    <2>8. AttachedBeforeDependants'
      <3>1. \A d \in r.dependants : d \notin DOMAIN started
        BY <2>1, <2>6
      <3> QED
        BY <1>1, <2>2, <3>1 DEF AdmissionInv, AttachedBeforeDependants, P!AttachedBeforeDependants
    <2> QED
      BY <1>1, <2>2, <2>3, <2>4, <2>5, <2>6, <2>7, <2>8 DEF AdmissionInv
  <1> QED
    BY <1>2, <1>3

LEMMA AdmissionStep ==
  ASSUME AdmissionInv, P!Next
  PROVE  AdmissionInv'
  <1> USE DEF P!Scheduled, P!StageIds
  <1>1. CASE P!AdmitRun
    BY <1>1 DEF P!AdmitRun, AdmissionInv, AttachedBeforeDependants, P!AttachedBeforeDependants
  <1>2. CASE P!RejectRun \/ P!FinishSource
    BY <1>2 DEF P!RejectRun, P!FinishSource, AdmissionInv, AttachedBeforeDependants,
                P!AttachedBeforeDependants
  <1>3. ASSUME NEW s \in P!StageIds, P!Dispatch(s)
        PROVE  AdmissionInv'
    BY <1>3 DEF P!Dispatch, P!Bump, AdmissionInv, AttachedBeforeDependants,
                P!AttachedBeforeDependants
  <1>4. ASSUME NEW s \in P!StageIds, P!Finish(s)
        PROVE  AdmissionInv'
    BY <1>4 DEF P!Finish, P!Bump, AdmissionInv, AttachedBeforeDependants,
                P!AttachedBeforeDependants
  <1>5. ASSUME NEW id \in AttachIds, P!Compose(id)
        PROVE  AdmissionInv'
    BY <1>5 DEF P!Compose, AdmissionInv, AttachedBeforeDependants, P!AttachedBeforeDependants
  <1> QED
    BY <1>1, <1>2, <1>3, <1>4, <1>5, AttachKeeps DEF P!Next

(* An attached stage never comes before work that had begun (attachAdHocStage, *)
(* the scheduler's dispatch), for any graphs, targets and attachments and      *)
(* however late a request arrives.                                           *)
THEOREM AttachmentsPrecede == Spec => []AttachedBeforeDependants
  <1>1. Init => AdmissionInv
    BY DEF Init, P!Init, P!Unscheduled, AdmissionInv, AttachedBeforeDependants,
           P!AttachedBeforeDependants
  <1>2. AdmissionInv /\ [Next]_vars => AdmissionInv'
    <2> SUFFICES ASSUME AdmissionInv, [Next]_vars PROVE AdmissionInv'
      OBVIOUS
    <2>1. CASE P!Next
      BY <2>1, AdmissionStep
    <2>2. CASE UNCHANGED admissionVars
      BY <2>2 DEF admissionVars, AdmissionInv, AttachedBeforeDependants,
                  P!AttachedBeforeDependants
    <2> QED
      BY <2>1, <2>2 DEF Next, vars
  <1>3. AdmissionInv => AttachedBeforeDependants
    BY DEF AdmissionInv
  <1> QED
    BY <1>1, <1>2, <1>3, PTL DEF Spec

-----------------------------------------------------------------------------
(* Segment fusion *)

(* Which segments are open and what they end with *)
SegmentRows == [status : {"open", "closed"}, stages : Seq(DOMAIN graph),
                backend : {0} \cup DOMAIN graph, startedAt : Nat]

(* A dispatch in progress *)
Drives == [step : {"join", "joined", "close", "open", "opened", "start"},
           stage : DOMAIN graph, open : SUBSET F!SegmentIds, segment : F!SegmentIds]

(* no agent that has started was planned after the stage the segment ends with *)
Covered(o) ==
  \A i \in DOMAIN planned : planned[i] \in F!Range(launched) =>
    \E j \in i..Len(planned) : planned[j] = F!Last(segments[o].stages)

FusionTypes ==
  /\ planned \in Seq(DOMAIN graph) /\ launched \in Seq(DOMAIN graph)
  /\ \A i \in DOMAIN planned : graph[planned[i]].type = "agent"
  /\ DOMAIN segments = F!SegmentIds
  /\ \A i \in DOMAIN segments : segments[i] = F!Absent \/ segments[i] \in SegmentRows
  /\ \A i \in F!Open : segments[i].stages # <<>>
  /\ drive = F!Idle \/ drive \in Drives

FusionInv ==
  /\ FusionTypes
  /\ \A i, j \in F!Open : i = j
  /\ \A o \in F!Open : Covered(o)
  /\ drive # F!Idle => planned # <<>> /\ planned[Len(planned)] = drive.stage
  /\ drive.step = "join" => drive.segment \in F!Open
  /\ drive.step = "close" =>
       drive.open = F!Open /\ (F!Open # {} => drive.segment \in F!Open)
  /\ drive.step = "open" => F!Open = {}
  /\ drive.step \in {"joined", "opened", "start"} =>
       \A o \in F!Open : F!Last(segments[o].stages) = drive.stage

(* CanFuse joins the one open segment. *)
LEMMA PlanOne ==
  ASSUME FusionInv, NEW s \in DOMAIN graph, F!Plan(s)
  PROVE  /\ drive' \in Drives
         /\ drive'.step \in {"join", "close"} /\ drive'.stage = s /\ drive'.open = F!Open
         /\ drive'.step = "join" => F!Open # {}
         /\ F!Open # {} => drive'.segment \in F!Open
  <1>1. PICK hint \in F!Hints :
          drive' = [step |-> IF F!CanFuse(s, hint) THEN "join" ELSE "close",
                    stage |-> s, open |-> F!Open,
                    segment |-> IF F!Open = {} THEN <<graph[s].profile, 0>> ELSE F!OpenId]
    BY DEF F!Plan
  <1>2. F!Open # {} => F!OpenId \in F!Open
    <2>1. SUFFICES ASSUME F!Open # {} PROVE F!OpenId \in F!Open
      OBVIOUS
    <2>2. PICK o \in F!Open : TRUE
      BY <2>1
    <2>3. \A j \in F!Open : segments[j].startedAt <= segments[o].startedAt
      <3>1. o \in DOMAIN segments /\ segments[o].startedAt \in Nat
        BY <2>2 DEF F!Open, FusionInv, FusionTypes, SegmentRows, F!Absent
      <3> QED
        BY <3>1, <2>2 DEF FusionInv
    <2> QED
      BY <2>2, <2>3 DEF F!OpenId
  <1>3. F!Open \subseteq F!SegmentIds
    BY DEF F!Open, FusionInv, FusionTypes
  <1>4. <<graph[s].profile, 0>> \in F!SegmentIds
    BY DEF F!SegmentIds
  <1>5. F!CanFuse(s, hint) => F!Open # {}
    BY DEF F!CanFuse
  <1> DEFINE step == IF F!CanFuse(s, hint) THEN "join" ELSE "close"
             segment == IF F!Open = {} THEN <<graph[s].profile, 0>> ELSE F!OpenId
  <1>6. step \in {"join", "close"} /\ (step = "join" => F!Open # {})
    BY <1>5
  <1>7. segment \in F!SegmentIds /\ (F!Open # {} => segment \in F!Open)
    BY <1>2, <1>3, <1>4
  <1>8. drive' = [step |-> step, stage |-> s, open |-> F!Open, segment |-> segment]
    BY <1>1
  <1> HIDE DEF step, segment
  <1> QED
    BY <1>3, <1>6, <1>7, <1>8 DEF Drives

LEMMA PlanKeeps ==
  ASSUME FusionInv, NEW s \in DOMAIN graph, F!Plan(s)
  PROVE  FusionInv'
  <1>1. /\ planned' = Append(planned, s)
        /\ UNCHANGED <<graph, segments, metrics, launched, crashes>>
        /\ s \notin F!Range(launched) /\ graph[s].type = "agent"
    BY DEF F!Plan, F!Ready
  <1>2. F!Open' = F!Open /\ F!SegmentIds' = F!SegmentIds
    BY <1>1 DEF F!Open, F!SegmentIds
  <1>3. /\ planned \in Seq(DOMAIN graph) /\ planned' \in Seq(DOMAIN graph)
        /\ Len(planned') = Len(planned) + 1 /\ planned'[Len(planned')] = s
        /\ \A i \in 1..Len(planned) : planned'[i] = planned[i]
    BY <1>1 DEF FusionInv, FusionTypes
  <1>4. FusionTypes'
    <2>1. \A i \in DOMAIN planned' : graph'[planned'[i]].type = "agent"
      BY <1>1, <1>3 DEF FusionInv, FusionTypes
    <2>2. drive' \in Drives'
      BY PlanOne, <1>1, <1>2 DEF Drives
    <2> QED
      BY <1>1, <1>2, <1>3, <2>1, <2>2 DEF FusionInv, FusionTypes, SegmentRows, F!Absent
  <1>5. \A o \in F!Open' : Covered(o)'
    <2>1. SUFFICES ASSUME NEW o \in F!Open, NEW i \in DOMAIN planned',
                          planned'[i] \in F!Range(launched)
                   PROVE  \E j \in i..Len(planned') :
                            planned'[j] = F!Last(segments[o].stages)
      BY <1>1, <1>2 DEF Covered, F!Last, F!Range
    <2>2. i \in DOMAIN planned
      BY <1>1, <1>3, <2>1
    <2>3. PICK j \in i..Len(planned) : planned[j] = F!Last(segments[o].stages)
      BY <1>3, <2>1, <2>2 DEF FusionInv, Covered
    <2> QED
      BY <1>3, <2>2, <2>3
  <1>6. drive' # F!Idle => planned' # <<>> /\ planned'[Len(planned')] = drive'.stage
    BY PlanOne, <1>3
  <1> QED
    BY PlanOne, <1>2, <1>4, <1>5, <1>6 DEF FusionInv

LEMMA StartOtherKeeps ==
  ASSUME FusionInv, NEW s \in DOMAIN graph, F!StartOther(s)
  PROVE  FusionInv'
  <1>1. /\ launched' = Append(launched, s) /\ graph[s].type # "agent"
        /\ UNCHANGED <<graph, segments, metrics, planned, drive, crashes>>
    BY DEF F!StartOther
  <1>2. F!Open' = F!Open /\ F!SegmentIds' = F!SegmentIds
    BY <1>1 DEF F!Open, F!SegmentIds
  <1>3. launched \in Seq(DOMAIN graph) /\ launched' \in Seq(DOMAIN graph)
    BY <1>1 DEF FusionInv, FusionTypes
  <1>4. FusionTypes'
    BY <1>1, <1>2, <1>3 DEF FusionInv, FusionTypes, SegmentRows, F!Absent, Drives
  <1>5. \A o \in F!Open' : Covered(o)'
    <2>1. SUFFICES ASSUME NEW o \in F!Open, NEW i \in DOMAIN planned,
                          planned[i] \in F!Range(launched')
                   PROVE  \E j \in i..Len(planned) : planned[j] = F!Last(segments[o].stages)
      BY <1>1, <1>2 DEF Covered, F!Last, F!Range
    <2>2. planned[i] # s
      BY <1>1 DEF FusionInv, FusionTypes
    <2>3. planned[i] \in F!Range(launched)
      BY <1>1, <1>3, <2>1, <2>2 DEF F!Range
    <2> QED
      BY <2>1, <2>3 DEF FusionInv, Covered
  <1> QED
    BY <1>1, <1>2, <1>4, <1>5 DEF FusionInv, F!Last

(* The rows' part of a step that leaves plans, graph and starts alone *)
LEMMA RowsKept ==
  ASSUME FusionInv, UNCHANGED <<graph, planned, launched>>, DOMAIN segments' = DOMAIN segments,
         \A i \in DOMAIN segments : segments'[i] = F!Absent \/ segments'[i] \in SegmentRows,
         \A i \in F!Open' : segments'[i].stages # <<>>,
         drive' \in Drives
  PROVE  FusionTypes'
  <1>1. F!SegmentIds' = F!SegmentIds /\ SegmentRows' = SegmentRows /\ Drives' = Drives
    BY DEF F!SegmentIds, SegmentRows, Drives
  <1> QED
    BY <1>1 DEF FusionInv, FusionTypes, F!Absent

(* A row that ends with the stage being dispatched covers all plans. *)
LEMMA DriveCovers ==
  ASSUME FusionInv, drive # F!Idle, UNCHANGED <<planned>>, NEW o,
         F!Last(segments[o].stages)' = drive.stage
  PROVE  Covered(o)'
  <1>1. planned \in Seq(DOMAIN graph) /\ planned # <<>> /\ planned[Len(planned)] = drive.stage
    BY DEF FusionInv, FusionTypes
  <1>2. \A i \in DOMAIN planned : Len(planned) \in i..Len(planned)
    BY <1>1
  <1> QED
    BY <1>1, <1>2 DEF Covered

LEMMA JoinKeeps ==
  ASSUME FusionInv, F!JoinSegment
  PROVE  FusionInv'
  <1> DEFINE o == drive.segment
             row == [segments[o] EXCEPT !.stages = Append(@, drive.stage)]
  <1>1. /\ drive.step = "join" /\ segments' = [segments EXCEPT ![o] = row]
        /\ drive' = [drive EXCEPT !.step = "joined"]
        /\ UNCHANGED <<graph, decisions, metrics, planned, launched, crashes>>
    BY DEF F!JoinSegment, F!Patched
  <1>2. drive \in Drives /\ drive # F!Idle
    BY <1>1 DEF FusionInv, FusionTypes, F!Idle
  <1>3. /\ o \in F!Open /\ o \in DOMAIN segments /\ segments[o] \in SegmentRows
        /\ segments[o].status = "open"
    BY <1>1 DEF FusionInv, FusionTypes, F!Open, F!Absent
  <1>4. /\ row \in SegmentRows /\ row.status = "open" /\ row.stages # <<>>
        /\ F!Last(row.stages) = drive.stage
    <2>1. segments[o].stages \in Seq(DOMAIN graph) /\ drive.stage \in DOMAIN graph
      BY <1>2, <1>3 DEF SegmentRows, Drives
    <2>2. row.stages = Append(segments[o].stages, drive.stage) /\ row.status = "open"
      BY <1>3 DEF SegmentRows
    <2>3. row.stages # <<>> /\ row.stages[Len(row.stages)] = drive.stage
      BY <2>1, <2>2
    <2>4. row \in SegmentRows
      <3> DEFINE stages == Append(segments[o].stages, drive.stage)
      <3>1. stages \in Seq(DOMAIN graph) /\ row = [segments[o] EXCEPT !.stages = stages]
        BY <2>1
      <3> HIDE DEF stages, row
      <3> QED
        BY <1>3, <3>1 DEF SegmentRows
    <2>5. F!Last(row.stages) = row.stages[Len(row.stages)]
      BY DEF F!Last
    <2> QED
      BY <2>2, <2>3, <2>4, <2>5
  <1>5. drive' \in Drives /\ drive'.step = "joined" /\ drive'.stage = drive.stage
    BY <1>1, <1>2 DEF Drives
  <1> HIDE DEF row, o
  <1>6. DOMAIN segments' = DOMAIN segments /\ segments'[o] = row
        /\ \A i \in DOMAIN segments \ {o} : segments'[i] = segments[i]
    BY <1>1, <1>3
  <1>7. F!Open' = F!Open
    BY <1>3, <1>4, <1>6 DEF F!Open
  <1>8. \A i \in F!Open' : i = o
    BY <1>3, <1>7 DEF FusionInv
  <1>9. FusionTypes'
    BY RowsKept, <1>1, <1>3, <1>4, <1>5, <1>6, <1>8 DEF FusionInv, FusionTypes
  <1>10. \A i \in F!Open' : F!Last(segments[i].stages)' = drive.stage
    BY <1>4, <1>6, <1>8 DEF F!Last
  <1>11. \A i \in F!Open' : Covered(i)'
    BY DriveCovers, <1>1, <1>2, <1>10
  <1>12. drive' # F!Idle => planned' # <<>> /\ planned'[Len(planned')] = drive'.stage
    BY <1>1, <1>2, <1>5 DEF FusionInv
  <1> QED
    BY <1>5, <1>8, <1>9, <1>10, <1>11, <1>12 DEF FusionInv

LEMMA CloseKeeps ==
  ASSUME FusionInv, F!CloseSegment
  PROVE  FusionInv'
  <1> DEFINE o == drive.segment
             row == [segments[o] EXCEPT !.status = "closed"]
             next == <<graph[drive.stage].profile, IF drive.open = {} THEN 0 ELSE 1>>
  <1>1. /\ drive.step = "close"
        /\ segments' = IF drive.open = {} THEN segments ELSE [segments EXCEPT ![o] = row]
        /\ drive' = [drive EXCEPT !.step = "open", !.segment = next]
        /\ UNCHANGED <<graph, decisions, metrics, planned, launched, crashes>>
    BY DEF F!CloseSegment, F!Patched
  <1>2. drive \in Drives /\ drive # F!Idle /\ drive.open = F!Open
    BY <1>1 DEF FusionInv, FusionTypes, F!Idle
  <1>3. next \in F!SegmentIds
    BY <1>2 DEF F!SegmentIds, Drives
  <1>4. drive' \in Drives /\ drive'.step = "open" /\ drive'.stage = drive.stage
    <2> HIDE DEF next
    <2> QED
      BY <1>1, <1>2, <1>3 DEF Drives
  <1>5. /\ DOMAIN segments' = DOMAIN segments /\ F!Open' = {}
        /\ \A i \in DOMAIN segments : segments'[i] = F!Absent \/ segments'[i] \in SegmentRows
    <2>1. CASE drive.open = {}
      BY <1>1, <1>2, <2>1 DEF F!Open, FusionInv, FusionTypes
    <2>2. CASE drive.open # {}
      <3>1. /\ o \in F!Open /\ o \in DOMAIN segments /\ segments[o] \in SegmentRows
        BY <1>1, <1>2, <2>2 DEF FusionInv, FusionTypes, F!Open, F!Absent
      <3>2. row \in SegmentRows /\ row.status = "closed"
        BY <3>1 DEF SegmentRows
      <3> HIDE DEF row, o
      <3>3. DOMAIN segments' = DOMAIN segments /\ segments'[o] = row
            /\ \A i \in DOMAIN segments \ {o} : segments'[i] = segments[i]
        BY <1>1, <2>2, <3>1
      <3>4. F!Open' = {}
        BY <3>1, <3>2, <3>3 DEF F!Open, FusionInv
      <3> QED
        BY <3>1, <3>2, <3>3, <3>4 DEF FusionInv, FusionTypes
    <2> QED
      BY <2>1, <2>2
  <1>6. FusionTypes'
    BY RowsKept, <1>1, <1>4, <1>5
  <1>7. drive' # F!Idle => planned' # <<>> /\ planned'[Len(planned')] = drive'.stage
    BY <1>1, <1>2, <1>4 DEF FusionInv
  <1> QED
    BY <1>4, <1>5, <1>6, <1>7 DEF FusionInv

LEMMA OpenKeeps ==
  ASSUME FusionInv, F!OpenSegment
  PROVE  FusionInv'
  <1> DEFINE o == drive.segment
             row == [status |-> "open", stages |-> <<drive.stage>>, backend |-> 0,
                     startedAt |-> Len(planned)]
  <1>1. /\ drive.step = "open"
        /\ segments' = IF segments[o] # F!Absent THEN segments ELSE [segments EXCEPT ![o] = row]
        /\ drive' = [drive EXCEPT !.step = "opened"]
        /\ UNCHANGED <<graph, decisions, metrics, planned, launched, crashes>>
    BY DEF F!OpenSegment
  <1>2. drive \in Drives /\ drive # F!Idle /\ F!Open = {}
    BY <1>1 DEF FusionInv, FusionTypes, F!Idle
  <1>3. drive' \in Drives /\ drive'.step = "opened" /\ drive'.stage = drive.stage
    BY <1>1, <1>2 DEF Drives
  <1>4. /\ row \in SegmentRows /\ row.status = "open" /\ row.stages # <<>>
        /\ F!Last(row.stages) = drive.stage
    <2>1. planned \in Seq(DOMAIN graph) /\ drive.stage \in DOMAIN graph
      BY <1>2 DEF FusionInv, FusionTypes, Drives
    <2>2. <<drive.stage>> \in Seq(DOMAIN graph) /\ <<drive.stage>> # <<>>
          /\ Len(<<drive.stage>>) = 1 /\ <<drive.stage>>[1] = drive.stage
      BY <2>1
    <2> QED
      BY <2>1, <2>2 DEF SegmentRows, F!Last
  <1>5. o \in DOMAIN segments
    BY <1>2 DEF Drives, FusionInv, FusionTypes
  <1> HIDE DEF row, o
  <1>6. /\ DOMAIN segments' = DOMAIN segments /\ \A i \in F!Open' : i = o /\ segments'[i] = row
        /\ \A i \in DOMAIN segments : segments'[i] = F!Absent \/ segments'[i] \in SegmentRows
    <2>1. CASE segments[o] # F!Absent
      BY <1>1, <1>2, <2>1 DEF F!Open, FusionInv, FusionTypes
    <2>2. CASE segments[o] = F!Absent
      <3>1. DOMAIN segments' = DOMAIN segments /\ segments'[o] = row
            /\ \A i \in DOMAIN segments \ {o} : segments'[i] = segments[i]
        BY <1>1, <1>5, <2>2
      <3> QED
        BY <1>2, <1>4, <3>1 DEF F!Open, FusionInv, FusionTypes
    <2> QED
      BY <2>1, <2>2
  <1>7. FusionTypes'
    BY RowsKept, <1>1, <1>3, <1>4, <1>6
  <1>8. \A i \in F!Open' : F!Last(segments[i].stages)' = drive.stage
    BY <1>4, <1>6 DEF F!Last
  <1>9. \A i \in F!Open' : Covered(i)'
    BY DriveCovers, <1>1, <1>2, <1>8
  <1>10. drive' # F!Idle => planned' # <<>> /\ planned'[Len(planned')] = drive'.stage
    BY <1>1, <1>2, <1>3 DEF FusionInv
  <1>11. \A i, j \in F!Open' : i = j
    BY <1>6
  <1> QED
    BY <1>3, <1>7, <1>8, <1>9, <1>10, <1>11 DEF FusionInv

LEMMA MetricsKeep ==
  ASSUME FusionInv, F!RecordFusedStage \/ F!RecordColdStartSession
  PROVE  FusionInv'
  <1>1. /\ drive.step \in {"joined", "opened"} /\ drive' = [drive EXCEPT !.step = "start"]
        /\ UNCHANGED <<graph, segments, decisions, planned, launched, crashes>>
    BY DEF F!RecordFusedStage, F!RecordColdStartSession
  <1>2. drive \in Drives /\ drive # F!Idle
    BY <1>1 DEF FusionInv, FusionTypes, F!Idle
  <1>3. drive' \in Drives /\ drive'.step = "start" /\ drive'.stage = drive.stage
    BY <1>1, <1>2 DEF Drives
  <1>4. F!Open' = F!Open
    BY <1>1 DEF F!Open
  <1>5. FusionTypes'
    BY RowsKept, <1>1, <1>3, <1>4 DEF FusionInv, FusionTypes
  <1>6. \A o \in F!Open' : Covered(o)'
    BY <1>1, <1>4 DEF FusionInv, Covered, F!Last, F!Range
  <1>7. \A o \in F!Open' : F!Last(segments[o].stages)' = drive'.stage
    BY <1>1, <1>3, <1>4 DEF FusionInv, F!Last
  <1>8. drive' # F!Idle => planned' # <<>> /\ planned'[Len(planned')] = drive'.stage
    BY <1>1, <1>2, <1>3 DEF FusionInv
  <1>9. \A i, j \in F!Open' : i = j
    BY <1>4 DEF FusionInv
  <1> QED
    BY <1>3, <1>5, <1>6, <1>7, <1>8, <1>9 DEF FusionInv

LEMMA StartAgentKeeps ==
  ASSUME FusionInv, F!StartAgent
  PROVE  FusionInv'
  <1> DEFINE o == F!OpenId
             row == [segments[o] EXCEPT !.backend = drive.stage]
  <1>1. /\ drive.step = "start"
        /\ segments' = IF F!Open = {} THEN segments ELSE [segments EXCEPT ![o] = row]
        /\ launched' = Append(launched, drive.stage) /\ drive' = F!Idle
        /\ UNCHANGED <<graph, decisions, metrics, planned, crashes>>
    BY DEF F!StartAgent, F!Patched
  <1>2. drive \in Drives /\ drive # F!Idle
    BY <1>1 DEF FusionInv, FusionTypes, F!Idle
  <1>3. F!Open # {} => o \in F!Open /\ segments[o] \in SegmentRows
    <2>1. SUFFICES ASSUME F!Open # {} PROVE o \in F!Open /\ segments[o] \in SegmentRows
      OBVIOUS
    <2>2. PICK p \in F!Open : TRUE
      BY <2>1
    <2>3. p \in DOMAIN segments /\ segments[p] \in SegmentRows
      BY <2>2 DEF F!Open, FusionInv, FusionTypes, F!Absent
    <2>4. \A j \in F!Open : segments[j].startedAt <= segments[p].startedAt
      BY <2>2, <2>3 DEF FusionInv, SegmentRows
    <2>5. o \in F!Open
      BY <2>2, <2>4 DEF F!OpenId
    <2> QED
      BY <2>2, <2>3, <2>5 DEF FusionInv
  <1>4. /\ DOMAIN segments' = DOMAIN segments /\ F!Open' = F!Open
        /\ \A i \in DOMAIN segments : segments'[i] = F!Absent \/ segments'[i] \in SegmentRows
        /\ \A i \in F!Open : segments'[i].stages = segments[i].stages
    <2>1. CASE F!Open = {}
      BY <1>1, <2>1 DEF F!Open, FusionInv, FusionTypes
    <2>2. CASE F!Open # {}
      <3>1. /\ o \in DOMAIN segments /\ segments[o] \in SegmentRows
            /\ segments[o].status = "open"
        BY <1>3, <2>2 DEF F!Open
      <3>2. row \in SegmentRows /\ row.status = "open" /\ row.stages = segments[o].stages
        BY <1>2, <3>1 DEF SegmentRows, Drives
      <3> HIDE DEF row, o
      <3>3. DOMAIN segments' = DOMAIN segments /\ segments'[o] = row
            /\ \A i \in DOMAIN segments \ {o} : segments'[i] = segments[i]
        BY <1>1, <2>2, <3>1
      <3>4. F!Open' = F!Open
        BY <3>1, <3>2, <3>3 DEF F!Open
      <3> QED
        BY <3>1, <3>2, <3>3, <3>4 DEF FusionInv, FusionTypes, F!Open
    <2> QED
      BY <2>1, <2>2
  <1>5. FusionTypes'
    <2>1. F!SegmentIds' = F!SegmentIds /\ SegmentRows' = SegmentRows
      BY <1>1 DEF F!SegmentIds, SegmentRows
    <2>2. launched' \in Seq(DOMAIN graph)
      BY <1>1, <1>2 DEF FusionInv, FusionTypes, Drives
    <2> QED
      BY <1>1, <1>4, <2>1, <2>2 DEF FusionInv, FusionTypes, F!Absent, F!Idle
  <1>6. \A i \in F!Open' : F!Last(segments[i].stages)' = drive.stage
    BY <1>1, <1>4 DEF FusionInv, F!Last
  <1>7. \A i \in F!Open' : Covered(i)'
    BY DriveCovers, <1>1, <1>2, <1>6
  <1>8. \A i, j \in F!Open' : i = j
    BY <1>4 DEF FusionInv
  <1>9. drive'.step = "idle"
    BY <1>1 DEF F!Idle
  <1> QED
    BY <1>1, <1>5, <1>7, <1>8, <1>9 DEF FusionInv

LEMMA FusionStep ==
  ASSUME FusionInv, F!Next \/ UNCHANGED fusionVars
  PROVE  FusionInv'
  <1>1. CASE F!Crash \/ UNCHANGED fusionVars
    <2>1. /\ UNCHANGED <<graph, segments, planned, launched>>
          /\ drive' = F!Idle \/ UNCHANGED drive
      BY <1>1 DEF F!Crash, fusionVars
    <2>2. F!Open' = F!Open /\ F!SegmentIds' = F!SegmentIds /\ SegmentRows' = SegmentRows
          /\ Drives' = Drives
      BY <2>1 DEF F!Open, F!SegmentIds, SegmentRows, Drives
    <2>3. FusionTypes'
      BY <2>1, <2>2 DEF FusionInv, FusionTypes, F!Absent, F!Idle
    <2>4. \A o \in F!Open' : Covered(o)'
      BY <2>1, <2>2 DEF FusionInv, Covered, F!Last, F!Range
    <2>5. CASE drive' = F!Idle
      <3>1. drive'.step = "idle"
        BY <2>5 DEF F!Idle
      <3> QED
        BY <2>2, <2>3, <2>4, <2>5, <3>1 DEF FusionInv
    <2>6. CASE UNCHANGED drive
      <3>1. drive'.step \in {"joined", "opened", "start"} =>
              \A o \in F!Open' : F!Last(segments[o].stages)' = drive'.stage
        BY <2>1, <2>2, <2>6 DEF FusionInv, F!Last
      <3>2. drive' # F!Idle => planned' # <<>> /\ planned'[Len(planned')] = drive'.stage
        BY <2>1, <2>6 DEF FusionInv, F!Idle
      <3> QED
        BY <2>2, <2>3, <2>4, <2>6, <3>1, <3>2 DEF FusionInv
    <2> QED
      BY <2>1, <2>5, <2>6
  <1> QED
    BY PlanKeeps, StartOtherKeeps, JoinKeeps, CloseKeeps, OpenKeeps, MetricsKeep,
       StartAgentKeeps, <1>1 DEF F!Next

LEMMA FusionStart == F!Init => FusionInv
  <1>1. SUFFICES ASSUME F!Init PROVE FusionInv
    OBVIOUS
  <1>2. /\ segments = [i \in F!SegmentIds |-> F!Absent] /\ planned = <<>> /\ launched = <<>>
        /\ drive = F!Idle /\ drive.step = "idle"
    BY <1>1 DEF F!Init, F!Idle
  <1>3. F!Open = {}
    BY <1>2 DEF F!Open, F!Absent
  <1> QED
    BY <1>2, <1>3 DEF FusionInv, FusionTypes

(* planFusionDispatch: the session a stage may join is the latest, whatever the *)
(* run's graph and however often the daemon dies half way through a dispatch.    *)
THEOREM LatestIsJoined == Spec => []SessionIsLatest
  <1>1. FusionInv => SessionIsLatest
    <2>1. SUFFICES ASSUME FusionInv PROVE SessionIsLatest
      OBVIOUS
    <2>2. F!Cardinality(F!Open) <= 1
      <3>1. Cardinality(F!Open) <= 1
        <4>1. CASE F!Open = {}
          BY <4>1, FS_EmptySet
        <4>2. CASE F!Open # {}
          <5>1. PICK o \in F!Open : TRUE
            BY <4>2
          <5>2. F!Open = {o}
            BY <2>1, <5>1 DEF FusionInv
          <5>3. Cardinality({o}) = 1
            BY FS_Singleton
          <5> QED
            BY <5>2, <5>3
        <4> QED
          BY <4>1, <4>2
      <3>2. F!Cardinality(F!Open) = Cardinality(F!Open)
        BY Zenon DEF Cardinality, F!Cardinality
      <3> QED
        BY <3>1, <3>2
    <2>3. F!Open # {} => F!OpenId \in F!Open
      <3>1. SUFFICES ASSUME F!Open # {} PROVE F!OpenId \in F!Open
        OBVIOUS
      <3>2. PICK o \in F!Open : TRUE
        BY <3>1
      <3>3. o \in DOMAIN segments /\ segments[o].startedAt \in Nat
        BY <2>1, <3>2 DEF F!Open, FusionInv, FusionTypes, SegmentRows, F!Absent
      <3>4. \A j \in F!Open : segments[j].startedAt <= segments[o].startedAt
        BY <2>1, <3>2, <3>3 DEF FusionInv
      <3> QED
        BY <3>2, <3>4 DEF F!OpenId
    <2> QED
      BY <2>1, <2>2, <2>3 DEF SessionIsLatest, F!SessionIsLatest, FusionInv, Covered
  <1>2. Init => FusionInv
    BY FusionStart DEF Init
  <1>3. FusionInv /\ [Next]_vars => FusionInv'
    BY FusionStep DEF Next, vars
  <1> QED
    BY <1>1, <1>2, <1>3, PTL DEF Spec

-----------------------------------------------------------------------------
(* Review findings *)

FindingReports ==
  R!Reviews(Nat)
  \cup [id : Nat, kind : {"repair"}, source : Nat,
        entries : R!Partial(Findings, {"applied", "skipped", "failed"})]
  \cup [id : Nat, kind : {"final_verification"}, verdict : {"ready", "not_ready"},
        sources : SUBSET Nat,
        results : R!Partial(Findings, {"fixed", "unresolved", "not_applicable"})]

Snapshots ==
  [origin : Nat, severity : R!Severities, accepted : BOOLEAN,
   repair : {"pending", "not_required", "applied", "skipped", "failed"},
   resolution : {"pending", "not_applicable", "fixed", "unresolved"},
   latest : Nat, revision : Nat]

FindingTables == [Findings -> {R!NoFinding} \cup Snapshots]

(* A ready verification among the first k reports, followed by repairs alone, has *)
(* fixed what the table holds.                                              *)
FixedBy(log, k, table) ==
  \A i \in 1..k :
    (/\ log[i].kind = "final_verification" /\ log[i].verdict = "ready"
     /\ \A j \in (i + 1)..k : log[j].kind = "repair")
      => \A f \in R!Known(table) : table[f].accepted => table[f].resolution = "fixed"

FindingsInv ==
  /\ reports \in Seq(FindingReports)
  /\ projection \in FindingTables
  /\ FixedBy(reports, Len(reports), projection)

LEMMA ReportKinds ==
  ASSUME NEW r \in FindingReports
  PROVE  /\ r.id \in Nat /\ r.kind \in {"review", "repair", "final_verification"}
         /\ r.kind = "review" =>
              /\ DOMAIN r.findings \subseteq Findings
              /\ \A f \in DOMAIN r.findings :
                   r.findings[f].severity \in R!Severities /\ r.findings[f].accepted \in BOOLEAN
         /\ r.kind = "repair" =>
              /\ DOMAIN r.entries \subseteq Findings
              /\ \A f \in DOMAIN r.entries : r.entries[f] \in {"applied", "skipped", "failed"}
         /\ r.kind = "final_verification" =>
              /\ DOMAIN r.results \subseteq Findings
              /\ \A f \in DOMAIN r.results :
                   r.results[f] \in {"fixed", "unresolved", "not_applicable"}
  <1>1. CASE r \in R!Reviews(Nat)
    <2>1. /\ r.id \in Nat /\ r.kind = "review"
          /\ r.findings \in R!Partial(Findings, [severity : R!Severities, accepted : BOOLEAN,
                                                 verified : BOOLEAN])
      BY <1>1 DEF R!Reviews
    <2> QED
      BY <2>1 DEF R!Partial
  <1>2. CASE r \in [id : Nat, kind : {"repair"}, source : Nat,
                    entries : R!Partial(Findings, {"applied", "skipped", "failed"})]
    <2>1. /\ r.id \in Nat /\ r.kind = "repair"
          /\ r.entries \in R!Partial(Findings, {"applied", "skipped", "failed"})
      BY <1>2
    <2> QED
      BY <2>1 DEF R!Partial
  <1>3. CASE r \in [id : Nat, kind : {"final_verification"}, verdict : {"ready", "not_ready"},
                    sources : SUBSET Nat,
                    results : R!Partial(Findings, {"fixed", "unresolved", "not_applicable"})]
    <2>1. /\ r.id \in Nat /\ r.kind = "final_verification"
          /\ r.results \in R!Partial(Findings, {"fixed", "unresolved", "not_applicable"})
      BY <1>3
    <2> QED
      BY <2>1 DEF R!Partial
  <1> QED
    BY <1>1, <1>2, <1>3 DEF FindingReports

LEMMA KnownRows ==
  ASSUME NEW table \in FindingTables, NEW f \in R!Known(table)
  PROVE  f \in Findings /\ table[f] \in Snapshots
  BY DEF FindingTables, R!Known

LEMMA AppliedTyped ==
  ASSUME NEW table \in FindingTables, NEW r \in FindingReports, NEW log,
         R!Legal(log, table, r)
  PROVE  R!Applied(table, r) \in FindingTables
  <1>1. CASE r.kind = "review"
    <2> DEFINE row(f) == [origin |-> r.id, severity |-> r.findings[f].severity,
                  accepted |-> r.findings[f].accepted,
                  repair |-> IF r.findings[f].accepted THEN "pending" ELSE "not_required",
                  resolution |-> IF r.findings[f].accepted THEN "pending" ELSE "not_applicable",
                  latest |-> r.id, revision |-> 1]
    <2>1. \A f \in DOMAIN r.findings : row(f) \in Snapshots
      BY ReportKinds, <1>1 DEF Snapshots
    <2>2. R!Applied(table, r) =
            [f \in Findings |-> IF f \notin DOMAIN r.findings THEN table[f] ELSE row(f)]
      BY <1>1 DEF R!Applied
    <2> HIDE DEF row
    <2> QED
      BY <2>1, <2>2 DEF FindingTables
  <1>2. CASE r.kind = "repair"
    <2> DEFINE row(f) == [table[f] EXCEPT !.repair = r.entries[f], !.latest = r.id,
                                          !.revision = @ + 1]
    <2>1. ASSUME NEW f \in DOMAIN r.entries PROVE row(f) \in Snapshots
      <3>1. f \in R!Known(table)
        BY <1>2, <2>1 DEF R!Legal, R!Actionable
      <3>2. table[f] \in Snapshots
        BY <3>1, KnownRows
      <3>3. r.id \in Nat /\ r.entries[f] \in {"applied", "skipped", "failed"}
        BY ReportKinds, <1>2, <2>1
      <3>4. table[f].revision + 1 \in Nat
        BY <3>2 DEF Snapshots
      <3> QED
        BY <3>2, <3>3, <3>4 DEF Snapshots
    <2>2. R!Applied(table, r) =
            [f \in Findings |-> IF f \notin DOMAIN r.entries THEN table[f] ELSE row(f)]
      BY <1>2 DEF R!Applied
    <2> HIDE DEF row
    <2> QED
      BY <2>1, <2>2 DEF FindingTables
  <1>3. CASE r.kind = "final_verification"
    <2> DEFINE row(f) == [table[f] EXCEPT !.resolution = r.results[f], !.latest = r.id,
                                          !.revision = @ + 1]
    <2>1. ASSUME NEW f \in DOMAIN r.results PROVE row(f) \in Snapshots
      <3>1. f \in R!Known(table)
        BY <1>3, <2>1 DEF R!Legal, R!Covers
      <3>2. table[f] \in Snapshots
        BY <3>1, KnownRows
      <3>3. r.id \in Nat /\ r.results[f] \in {"fixed", "unresolved", "not_applicable"}
        BY ReportKinds, <1>3, <2>1
      <3>4. table[f].revision + 1 \in Nat
        BY <3>2 DEF Snapshots
      <3> QED
        BY <3>2, <3>3, <3>4 DEF Snapshots
    <2>2. R!Applied(table, r) =
            [f \in Findings |-> IF f \notin DOMAIN r.results THEN table[f] ELSE row(f)]
      BY <1>3 DEF R!Applied
    <2> HIDE DEF row
    <2> QED
      BY <2>1, <2>2 DEF FindingTables
  <1> QED
    BY ReportKinds, <1>1, <1>2, <1>3

(* A legal report keeps what a ready verification promised: another verification *)
(* promises it anew, a repair touches neither resolutions nor decisions.         *)
LEMMA AppliedFixes ==
  ASSUME NEW table \in FindingTables, NEW log, NEW k \in Nat, log[k + 1] \in FindingReports,
         NEW stored, R!Legal(stored, table, log[k + 1]), FixedBy(log, k, table)
  PROVE  FixedBy(log, k + 1, R!Applied(table, log[k + 1]))
  <1> DEFINE r == log[k + 1]
             after == R!Applied(table, r)
  <1>0. r \in FindingReports /\ R!Legal(stored, table, r)
    OBVIOUS
  <1> HIDE DEF r
  <1>1. SUFFICES ASSUME NEW i \in 1..(k + 1),
                        log[i].kind = "final_verification", log[i].verdict = "ready",
                        \A j \in (i + 1)..(k + 1) : log[j].kind = "repair",
                        NEW f \in R!Known(after), after[f].accepted
                 PROVE  after[f].resolution = "fixed"
    BY DEF FixedBy, r
  <1>2. f \in Findings
    BY <1>1 DEF R!Known
  <1>3. CASE i = k + 1
    <2>1. r.kind = "final_verification" /\ r.verdict = "ready"
      BY <1>1, <1>3 DEF r
    <2>2. /\ DOMAIN r.results = R!Known(table)
          /\ \A g \in DOMAIN r.results : table[g].accepted <=> r.results[g] # "not_applicable"
          /\ \A g \in DOMAIN r.results : r.results[g] # "unresolved"
      BY <1>0, <2>1 DEF R!Legal, R!Covers, R!WellFormed
    <2>3. after = [g \in Findings |->
            IF g \notin DOMAIN r.results THEN table[g]
            ELSE [table[g] EXCEPT !.resolution = r.results[g], !.latest = r.id,
                                  !.revision = @ + 1]]
      BY <2>1 DEF R!Applied
    <2>4. f \in DOMAIN r.results
      <3>1. SUFFICES ASSUME f \notin DOMAIN r.results PROVE FALSE
        OBVIOUS
      <3>2. after[f] = table[f]
        BY <1>2, <2>3, <3>1
      <3> QED
        BY <1>1, <1>2, <2>2, <3>1, <3>2 DEF R!Known
    <2>5. table[f] \in Snapshots
      BY KnownRows, <2>2, <2>4
    <2>6. after[f] = [table[f] EXCEPT !.resolution = r.results[f], !.latest = r.id,
                                      !.revision = @ + 1]
      BY <1>2, <2>3, <2>4
    <2>7. after[f].accepted = table[f].accepted /\ after[f].resolution = r.results[f]
      BY <2>5, <2>6 DEF Snapshots
    <2> HIDE DEF after
    <2> QED
      BY ReportKinds, <1>0, <1>1, <2>1, <2>2, <2>4, <2>7
  <1>4. CASE i \in 1..k
    <2>1. r.kind = "repair"
      <3>1. k + 1 \in (i + 1)..(k + 1)
        BY <1>4
      <3> QED
        BY <1>1, <3>1 DEF r
    <2>2. \A g \in R!Known(table) : table[g].accepted => table[g].resolution = "fixed"
      <3>1. \A j \in (i + 1)..k : log[j].kind = "repair"
        BY <1>1, <1>4
      <3> QED
        BY <1>1, <1>4, <3>1 DEF FixedBy
    <2>3. after = [g \in Findings |->
            IF g \notin DOMAIN r.entries THEN table[g]
            ELSE [table[g] EXCEPT !.repair = r.entries[g], !.latest = r.id, !.revision = @ + 1]]
      BY <2>1 DEF R!Applied
    <2>4. CASE f \notin DOMAIN r.entries
      <3>1. after[f] = table[f]
        BY <1>2, <2>3, <2>4
      <3> QED
        BY <1>1, <1>2, <2>2, <3>1 DEF R!Known
    <2>5. CASE f \in DOMAIN r.entries
      <3>1. f \in R!Known(table)
        BY <1>0, <2>1, <2>5 DEF R!Legal, R!Actionable
      <3>2. table[f] \in Snapshots
        BY KnownRows, <3>1
      <3>3. after[f] = [table[f] EXCEPT !.repair = r.entries[f], !.latest = r.id,
                                        !.revision = @ + 1]
        BY <1>2, <2>3, <2>5
      <3>4. after[f].accepted = table[f].accepted /\ after[f].resolution = table[f].resolution
        BY <3>2, <3>3 DEF Snapshots
      <3> QED
        BY <1>1, <2>2, <3>1, <3>4
    <2> QED
      BY <2>4, <2>5
  <1> QED
    BY <1>3, <1>4

(* one report applied to what the rebuild has so far *)
Refold(acc, r) ==
  IF acc.legal /\ R!Legal(reports, acc.table, r)
  THEN [acc EXCEPT !.table = R!Applied(acc.table, r)]
  ELSE [acc EXCEPT !.legal = FALSE]

RebuildStart == [legal |-> TRUE, table |-> R!Empty]

RebuildStates == [legal : BOOLEAN, table : FindingTables]

LEMMA RebuiltUnfolds ==
  R!Rebuilt = (CHOOSE iter : iter = [s \in SUBSET (DOMAIN reports) |->
                 IF s = {} THEN RebuildStart
                 ELSE Refold(iter[s \ {R!Max(s)}], reports[R!Max(s)])])[DOMAIN reports]
  BY Zenon DEF R!Rebuilt, R!FoldLeft, R!MapThenFoldSet, RebuildStart, Refold

LEMMA LargestOf ==
  ASSUME NEW n \in Nat, NEW s \in SUBSET (1..n), s # {}
  PROVE  R!Max(s) \in s /\ \A y \in s : R!Max(s) >= y
  <1> DEFINE T == {n - x : x \in s}
  <1>1. T \in SUBSET Nat /\ T # {}
    <2>1. \A x \in s : n - x \in Nat
      OBVIOUS
    <2> QED
      BY <2>1
  <1>2. PICK t \in T : \A u \in T : t <= u
    <2> HIDE DEF T
    <2> QED
      BY <1>1, LeastOf
  <1>3. PICK x \in s : t = n - x
    BY <1>2
  <1>4. \A y \in s : x >= y
    <2>1. SUFFICES ASSUME NEW y \in s PROVE x >= y
      OBVIOUS
    <2>2. n - y \in T
      OBVIOUS
    <2>3. n - x <= n - y
      BY <1>2, <1>3, <2>2
    <2> QED
      BY <1>3, <2>3
  <1> QED
    BY <1>3, <1>4, Zenon DEF R!Max

(* The rebuild applies the reports one after the other. *)
LEMMA RebuildRuns ==
  ASSUME FindingsInv
  PROVE  \E h : /\ R!Rebuilt = h[1..Len(reports)]
                /\ h[{}] = RebuildStart
                /\ \A k \in 1..Len(reports) : h[1..k] = Refold(h[1..(k - 1)], reports[k])
                /\ \A k \in 0..Len(reports) : h[1..k] \in RebuildStates
  <1> DEFINE n == Len(reports)
             D == 1..n
             ch == [s \in SUBSET D |-> R!Max(s)]
             op == [p \in D \X RebuildStates |-> Refold(p[2], reports[p[1]])]
             Folds(g) == g = [s \in SUBSET D |->
                 IF s = {} THEN RebuildStart
                 ELSE Refold(g[s \ {R!Max(s)}], reports[R!Max(s)])]
  <1>1. /\ n \in Nat /\ DOMAIN reports = D /\ \A i \in D : reports[i] \in FindingReports
    BY DEF FindingsInv
  <1>2. RebuildStart \in RebuildStates
    BY DEF RebuildStart, RebuildStates, R!Empty, FindingTables
  <1>3. ASSUME NEW x \in D, NEW v \in RebuildStates
        PROVE  Refold(v, reports[x]) \in RebuildStates
    BY <1>1, AppliedTyped DEF Refold, RebuildStates
  <1>4. \A s \in SUBSET D : s # {} => ch[s] \in s
    BY <1>1, LargestOf
  <1>5. IsFiniteSet(D)
    BY <1>1, FS_Interval
  <1>6. \A x \in D : \A v \in RebuildStates : op[<<x, v>>] \in RebuildStates
    BY <1>3
  <1>7. PICK g : Folded(g, D, RebuildStates, RebuildStart, ch, op)
    <2>1. Foldable(D, RebuildStates, RebuildStart, ch, op)
      <3> HIDE DEF n, D, ch, op, Folds
      <3> QED
        BY <1>2, <1>4, <1>5, <1>6 DEF Foldable
    <2> HIDE DEF n, D, ch, op, Folds
    <2> QED
      BY <2>1, FoldExists, Zenon
  <1>8. /\ g \in [SUBSET D -> RebuildStates]
        /\ \A s \in SUBSET D :
             g[s] = IF s = {} THEN RebuildStart ELSE op[<<ch[s], g[s \ {ch[s]}]>>]
    <2> HIDE DEF n, D, ch, op, Folds
    <2> QED
      BY <1>7 DEF Folded
  <1>9. Folds(g)
    <2>1. ASSUME NEW s \in SUBSET D, s # {}
          PROVE  g[s] = Refold(g[s \ {R!Max(s)}], reports[R!Max(s)])
      <3>1. ch[s] = R!Max(s) /\ R!Max(s) \in D
        BY <1>4, <2>1
      <3>2. g[s \ {ch[s]}] \in RebuildStates
        BY <1>8
      <3>3. g[s] = op[<<ch[s], g[s \ {ch[s]}]>>]
        BY <1>8, <2>1
      <3>4. <<ch[s], g[s \ {ch[s]}]>> \in D \X RebuildStates
        BY <3>1, <3>2
      <3> QED
        BY <3>1, <3>3, <3>4
    <2>2. g = [s \in SUBSET D |-> g[s]]
      BY <1>8
    <2>3. g[{}] = RebuildStart
      BY <1>8
    <2> QED
      BY <2>1, <2>2, <2>3
  <1> DEFINE h == CHOOSE iter : Folds(iter)
  <1>10. Folds(h)
    BY <1>9, Zenon
  <1>11. R!Rebuilt = h[D]
    BY <1>1, RebuiltUnfolds, Zenon
  <1> HIDE DEF h, op, ch
  <1>12. /\ h[{}] = RebuildStart
         /\ \A s \in SUBSET D : s # {} =>
              h[s] = Refold(h[s \ {R!Max(s)}], reports[R!Max(s)])
    BY <1>10
  <1>13. ASSUME NEW k \in 1..n PROVE h[1..k] = Refold(h[1..(k - 1)], reports[k])
    <2>0. k \in 1..k /\ \A i \in 1..k : i \in D
      BY <1>1
    <2>1. 1..k \in SUBSET D /\ 1..k # {} /\ k \in 1..k
      BY <2>0
    <2>2. R!Max(1..k) = k
      <3>1. R!Max(1..k) \in 1..k /\ \A y \in 1..k : R!Max(1..k) >= y
        <4> HIDE DEF n, D
        <4> QED
          BY <1>1, <2>1, LargestOf DEF D
      <3> QED
        BY <2>1, <3>1
    <2>3. (1..k) \ {k} = 1..(k - 1)
      BY <1>1
    <2> QED
      BY <1>12, <2>1, <2>2, <2>3
  <1>14. \A k \in 0..n : h[1..k] \in RebuildStates
    <2> DEFINE bad == {k \in 0..n : h[1..k] \notin RebuildStates}
    <2>1. SUFFICES ASSUME bad # {} PROVE FALSE
      OBVIOUS
    <2>2. PICK k \in bad : \A j \in bad : k <= j
      <3>1. bad \in SUBSET Nat
        BY <1>1
      <3> HIDE DEF bad
      <3> QED
        BY <2>1, <3>1, LeastOf
    <2>3. CASE k = 0
      <3>1. 1..k = {}
        BY <2>3
      <3> QED
        BY <1>2, <1>12, <2>2, <3>1
    <2>4. CASE k # 0
      <3>1. k \in 1..n /\ k - 1 \in 0..n /\ ~ (k <= k - 1)
        BY <1>1, <2>2, <2>4
      <3>2. h[1..(k - 1)] \in RebuildStates
        BY <2>2, <3>1
      <3> QED
        BY <1>3, <1>13, <2>2, <3>1, <3>2
    <2> QED
      BY <2>3, <2>4
  <1> QED
    BY <1>11, <1>12, <1>13, <1>14

LEMMA RebuildKeeps ==
  ASSUME FindingsInv, R!Rebuild
  PROVE  FindingsInv'
  <1>1. reports' = reports /\ R!Rebuilt.legal /\ projection' = R!Rebuilt.table
    BY DEF R!Rebuild
  <1>2. PICK h : /\ R!Rebuilt = h[1..Len(reports)]
                 /\ h[{}] = RebuildStart
                 /\ \A k \in 1..Len(reports) : h[1..k] = Refold(h[1..(k - 1)], reports[k])
                 /\ \A k \in 0..Len(reports) : h[1..k] \in RebuildStates
    BY RebuildRuns
  <1>3. Len(reports) \in Nat /\ \A i \in 1..Len(reports) : reports[i] \in FindingReports
    BY DEF FindingsInv
  <1> DEFINE Good(k) == h[1..k].legal => FixedBy(reports, k, h[1..k].table)
             bad == {k \in 0..Len(reports) : ~ Good(k)}
  <1>4. bad = {}
    <2>1. SUFFICES ASSUME bad # {} PROVE FALSE
      OBVIOUS
    <2>2. PICK k \in bad : \A j \in bad : k <= j
      <3>1. bad \in SUBSET Nat
        BY <1>3
      <3> HIDE DEF bad
      <3> QED
        BY <2>1, <3>1, LeastOf
    <2>3. k \in 0..Len(reports) /\ ~ Good(k)
      BY <2>2
    <2>4. CASE k = 0
      BY <2>3, <2>4 DEF FixedBy
    <2>5. CASE k # 0
      <3>1. k \in 1..Len(reports) /\ k - 1 \in 0..Len(reports) /\ ~ (k <= k - 1)
            /\ k - 1 \in Nat /\ (k - 1) + 1 = k
        BY <1>3, <2>3, <2>5
      <3>2. Good(k - 1)
        BY <2>2, <3>1
      <3> DEFINE acc == h[1..(k - 1)]
      <3>3. acc \in RebuildStates /\ h[1..k] = Refold(acc, reports[k]) /\ h[1..k].legal
        BY <1>2, <2>3, <3>1
      <3>4. acc.legal => FixedBy(reports, k - 1, acc.table)
        BY <3>2
      <3>5. ~ FixedBy(reports, k, h[1..k].table)
        BY <2>3
      <3> HIDE DEF acc
      <3>6. /\ acc.legal /\ R!Legal(reports, acc.table, reports[k])
            /\ h[1..k].table = R!Applied(acc.table, reports[k]) /\ acc.table \in FindingTables
        BY <3>3 DEF Refold, RebuildStates
      <3> HIDE DEF Good, bad
      <3>7. FixedBy(reports, k, R!Applied(acc.table, reports[k]))
        BY <1>3, <3>1, <3>4, <3>6, AppliedFixes
      <3> QED
        BY <3>5, <3>6, <3>7
    <2> QED
      BY <2>4, <2>5
  <1>5. FixedBy(reports, Len(reports), R!Rebuilt.table)
    <2>1. Len(reports) \in 0..Len(reports)
      BY <1>3
    <2>2. Good(Len(reports))
      BY <1>4, <2>1
    <2> QED
      BY <1>1, <1>2, <2>2
  <1>6. R!Rebuilt.table \in FindingTables
    BY <1>2, <1>3 DEF RebuildStates
  <1> QED
    BY <1>1, <1>5, <1>6 DEF FindingsInv

LEMMA RecordKeeps ==
  ASSUME FindingsInv, NEW r \in FindingReports, R!Record(r)
  PROVE  FindingsInv'
  <1>1. /\ R!Legal(reports, projection, r) /\ reports' = Append(reports, r)
        /\ projection' = R!Applied(projection, r)
    BY DEF R!Record, R!Acceptable
  <1> DEFINE k == Len(reports)
  <1>2. /\ k \in Nat /\ reports' \in Seq(FindingReports) /\ Len(reports') = k + 1
        /\ reports'[k + 1] = r /\ \A i \in 1..k : reports'[i] = reports[i]
        /\ DOMAIN reports = 1..k /\ DOMAIN reports' = 1..(k + 1)
    BY <1>1 DEF FindingsInv
  <1>3. projection' \in FindingTables
    BY <1>1, AppliedTyped DEF FindingsInv
  <1>4. FixedBy(reports', k, projection)
    BY <1>2 DEF FindingsInv, FixedBy
  <1>5. FixedBy(reports', k + 1, projection')
    <2> HIDE DEF k
    <2> QED
      BY <1>1, <1>2, <1>4, AppliedFixes DEF FindingsInv
  <1> QED
    BY <1>2, <1>3, <1>5 DEF FindingsInv

LEMMA FindingsStep ==
  ASSUME FindingsInv, R!Next \/ UNCHANGED findingVars
  PROVE  FindingsInv'
  <1>1. CASE UNCHANGED <<reports, projection>>
    BY <1>1 DEF FindingsInv
  <1>2. Len(reports) \in Nat
    BY DEF FindingsInv
  <1>3. ASSUME NEW r \in R!Reviews({R!Fresh}), R!Record(r) PROVE FindingsInv'
    <2>1. r \in FindingReports
      BY <1>2, <1>3 DEF FindingReports, R!Reviews, R!Fresh
    <2> QED
      BY <1>3, <2>1, RecordKeeps
  <1>4. ASSUME NEW r \in R!Repairs({R!Fresh}), R!Record(r) PROVE FindingsInv'
    <2>1. r \in FindingReports
      BY <1>2, <1>4 DEF FindingReports, R!Repairs, R!Fresh, R!Ids
    <2> QED
      BY <1>4, <2>1, RecordKeeps
  <1>5. ASSUME NEW r \in R!Verifications({R!Fresh}), R!Record(r) PROVE FindingsInv'
    <2>1. r \in FindingReports
      BY <1>2, <1>5 DEF FindingReports, R!Verifications, R!Fresh, R!Ids
    <2> QED
      BY <1>5, <2>1, RecordKeeps
  <1>6. CASE R!Rebuild
    BY <1>6, RebuildKeeps
  <1>7. ASSUME R!Next \/ UNCHANGED findingVars
        PROVE  \/ UNCHANGED <<reports, projection>>
               \/ \E r \in R!Reviews({R!Fresh}) : R!Record(r)
               \/ \E r \in R!Repairs({R!Fresh}) : R!Record(r)
               \/ \E r \in R!Verifications({R!Fresh}) : R!Record(r)
               \/ R!Rebuild
    BY <1>7, Zenon DEF R!Next, R!RecordAgain, R!Refuse, findingVars
  <1> QED
    BY <1>1, <1>3, <1>4, <1>5, <1>6, <1>7

(* assertReportTransition: a ready final verification leaves no accepted finding    *)
(* open, over any number of reports, also when the projection is rebuilt from them.  *)
THEOREM VerifiedIsFixed == Spec => []ReadyMeansFixed
  <1>1. Init => FindingsInv
    <2>1. SUFFICES ASSUME Init PROVE FindingsInv
      OBVIOUS
    <2>2. reports = <<>> /\ projection = R!Empty
      BY <2>1 DEF Init, R!Init
    <2> QED
      BY <2>2 DEF FindingsInv, FixedBy, R!Empty, FindingTables
  <1>2. FindingsInv /\ [Next]_vars => FindingsInv'
    BY FindingsStep DEF Next, vars
  <1>3. FindingsInv => ReadyMeansFixed
    BY DEF FindingsInv, FixedBy, ReadyMeansFixed, R!ReadyMeansFixed
  <1> QED
    BY <1>1, <1>2, <1>3, PTL DEF Spec
-----------------------------------------------------------------------------
(* The native bridge: its tables *)

DispatchRows ==
  [session : Sessions,
   state : {"dispatched", "waiting_on_user", "abandoned", "submitted", "revoked"},
   rev : Nat, outcome : {"none", "succeeded", "failed", "cancelled"},
   attempt : {"running", "recovery_required", "cancelled", "failed", "succeeded"},
   workspace : BOOLEAN]
QuestionRows ==
  [dispatch : Nat, state : {"pending", "answered", "cancelled"},
   delivery : {"not_applicable", "pending", "delivered"}]
Events ==
  [state : {"pending", "answered", "cancelled", "corrupt"},
   delivery : {"not_applicable", "pending", "delivered", "corrupt"}]
StageRows ==
  [state : {"none", "waiting_for_parent", "dispatched", "waiting_on_user",
            "recovery_required", "settled"},
   attempt : Nat]
SessionRows ==
  [state : {"none", "attached", "stalled", "expired", "superseded", "detached"},
   late : BOOLEAN]
RunStates ==
  {"none", "created", "waiting_for_parent_session", "running", "waiting_on_user",
   "recovery_required", "succeeded", "failed", "cancelled"}
BridgeTables ==
  [session : [Sessions -> SessionRows], stage : [Runs -> StageRows],
   dispatch : [Runs -> Seq(DispatchRows)], question : [Runs -> Seq(QuestionRows)],
   replayed : [Runs -> Seq(Events)], run : [Runs -> RunStates]]

LEMMA SequencePatched ==
  ASSUME NEW X, NEW q \in Seq(X), NEW n \in DOMAIN q, NEW x \in X
  PROVE  /\ [q EXCEPT ![n] = x] \in Seq(X)
         /\ Len([q EXCEPT ![n] = x]) = Len(q)
  <1>1. [q EXCEPT ![n] = x] \in [1..Len(q) -> X] /\ Len(q) \in Nat
    OBVIOUS
  <1> DEFINE p == [q EXCEPT ![n] = x]
  <1>2. p \in [1..Len(q) -> X]
    BY <1>1
  <1> HIDE DEF p
  <1>3. p \in Seq(X) /\ Len(p) = Len(q)
    BY <1>1, <1>2
  <1> QED
    BY <1>3 DEF p

LEMMA TablesTyped ==
  ASSUME NEW T \in BridgeTables, NEW r \in Runs
  PROVE  /\ T.stage[r] \in StageRows /\ T.dispatch[r] \in Seq(DispatchRows)
         /\ T.question[r] \in Seq(QuestionRows) /\ T.replayed[r] \in Seq(Events)
         /\ T.run[r] \in RunStates
         /\ Len(T.dispatch[r]) \in Nat /\ DOMAIN T.dispatch[r] = 1..Len(T.dispatch[r])
         /\ Len(T.question[r]) \in Nat /\ DOMAIN T.question[r] = 1..Len(T.question[r])
         /\ \A n \in DOMAIN T.dispatch[r] : T.dispatch[r][n] \in DispatchRows
         /\ \A i \in DOMAIN T.question[r] : T.question[r][i] \in QuestionRows
  <1>1. /\ T.stage[r] \in StageRows /\ T.dispatch[r] \in Seq(DispatchRows)
        /\ T.question[r] \in Seq(QuestionRows) /\ T.replayed[r] \in Seq(Events)
        /\ T.run[r] \in RunStates
    BY DEF BridgeTables
  <1> QED
    BY <1>1

LEMMA Replayed ==
  ASSUME NEW e, NEW type \in {"raised", "answered", "cancelled", "delivered"}
  PROVE  N!Replay(e, type) \in Events
  BY DEF N!Replay, Events

(* the journal entry of a question touches no other table *)
LEMMA Journaled ==
  ASSUME NEW T \in BridgeTables, NEW r \in Runs, NEW i \in Nat \ {0},
         NEW type \in {"raised", "answered", "cancelled", "delivered"}
  PROVE  /\ N!appendNativeEvent(T, r, i, type) \in BridgeTables
         /\ N!appendNativeEvent(T, r, i, type).session = T.session
         /\ N!appendNativeEvent(T, r, i, type).stage = T.stage
         /\ N!appendNativeEvent(T, r, i, type).dispatch = T.dispatch
         /\ N!appendNativeEvent(T, r, i, type).question = T.question
         /\ N!appendNativeEvent(T, r, i, type).run = T.run
  <1> DEFINE log == N!Extended(T.replayed[r], i, type)
  <1>1. log \in Seq(Events)
    <2>1. T.replayed[r] \in Seq(Events)
      BY TablesTyped
    <2>2. CASE i > Len(T.replayed[r])
      <3>1. N!Replay(<<>>, type) \in Events
        BY Replayed
      <3> QED
        BY <2>1, <2>2, <3>1 DEF N!Extended
    <2>3. CASE ~ (i > Len(T.replayed[r]))
      <3>1. i \in DOMAIN T.replayed[r]
        BY <2>1, <2>3
      <3>2. N!Replay(T.replayed[r][i], type) \in Events
        BY Replayed
      <3>3. [T.replayed[r] EXCEPT ![i] = N!Replay(T.replayed[r][i], type)] \in Seq(Events)
        BY <2>1, <3>1, <3>2, SequencePatched
      <3> QED
        BY <2>3, <3>3 DEF N!Extended
    <2> QED
      BY <2>2, <2>3
  <1>2. N!appendNativeEvent(T, r, i, type) = [T EXCEPT !.replayed[r] = log]
    BY DEF N!appendNativeEvent
  <1> HIDE DEF log
  <1> DEFINE U == [T EXCEPT !.replayed[r] = log]
  <1>3. /\ U \in BridgeTables /\ U.session = T.session /\ U.stage = T.stage
        /\ U.dispatch = T.dispatch /\ U.question = T.question /\ U.run = T.run
    BY <1>1 DEF BridgeTables
  <1> HIDE DEF U
  <1> QED
    BY <1>2, <1>3 DEF U

LEMMA RowCancelled ==
  ASSUME NEW e \in QuestionRows
  PROVE  /\ [e EXCEPT !.state = "cancelled", !.delivery = "not_applicable"] =
              [dispatch |-> e.dispatch, state |-> "cancelled", delivery |-> "not_applicable"]
         /\ [dispatch |-> e.dispatch, state |-> "cancelled", delivery |-> "not_applicable"]
              \in QuestionRows
  <1>1. [dispatch |-> e.dispatch, state |-> "cancelled", delivery |-> "not_applicable"]
          \in QuestionRows
    BY DEF QuestionRows
  <1>2. [e EXCEPT !.state = "cancelled", !.delivery = "not_applicable"] \in QuestionRows
    BY DEF QuestionRows
  <1> DEFINE a == [e EXCEPT !.state = "cancelled", !.delivery = "not_applicable"]
             b == [dispatch |-> e.dispatch, state |-> "cancelled", delivery |-> "not_applicable"]
  <1>3. a.dispatch = b.dispatch /\ a.state = b.state /\ a.delivery = b.delivery
    BY DEF QuestionRows
  <1> HIDE DEF a, b
  <1>4. a \in QuestionRows /\ b \in QuestionRows
    BY <1>1, <1>2 DEF a, b
  <1>5. a = b
    BY <1>3, <1>4 DEF QuestionRows
  <1> QED
    BY <1>1, <1>5 DEF a, b

(* what withdrawing questions of one run changes *)
Quieted(T, U, r) ==
  /\ U.session = T.session /\ U.stage = T.stage /\ U.dispatch = T.dispatch /\ U.run = T.run
  /\ \A q \in Runs : q # r => U.question[q] = T.question[q]
  /\ Len(U.question[r]) = Len(T.question[r])
  /\ \A j \in 1..Len(T.question[r]) :
       \/ U.question[r][j] = T.question[r][j]
       \/ /\ T.question[r][j].state = "pending"
          /\ U.question[r][j] = [dispatch |-> T.question[r][j].dispatch,
                                 state |-> "cancelled", delivery |-> "not_applicable"]

LEMMA QuestionCancelled ==
  ASSUME NEW T \in BridgeTables, NEW r \in Runs, NEW i \in DOMAIN T.question[r]
  PROVE  /\ N!cancelNativeQuestion(T, r, i) \in BridgeTables
         /\ Quieted(T, N!cancelNativeQuestion(T, r, i), r)
  <1>0. /\ T.question[r] \in Seq(QuestionRows) /\ i \in Nat \ {0}
        /\ T.question[r][i] \in QuestionRows /\ i \in 1..Len(T.question[r])
    BY TablesTyped
  <1>1. CASE T.question[r][i].state # "pending"
    BY <1>1 DEF N!cancelNativeQuestion, Quieted
  <1>2. CASE T.question[r][i].state = "pending"
    <2> DEFINE J == N!appendNativeEvent(T, r, i, "cancelled")
               row == [dispatch |-> T.question[r][i].dispatch,
                       state |-> "cancelled", delivery |-> "not_applicable"]
               Q == [T.question[r] EXCEPT ![i] = row]
    <2>1. /\ J \in BridgeTables /\ J.session = T.session /\ J.stage = T.stage
          /\ J.dispatch = T.dispatch /\ J.question = T.question /\ J.run = T.run
      BY <1>0, Journaled
    <2>2. row \in QuestionRows
          /\ row = [T.question[r][i] EXCEPT !.state = "cancelled", !.delivery = "not_applicable"]
      BY <1>0, RowCancelled
    <2>3. N!cancelNativeQuestion(T, r, i) =
            [J EXCEPT !.question[r][i] =
               [@ EXCEPT !.state = "cancelled", !.delivery = "not_applicable"]]
      BY <1>2 DEF N!cancelNativeQuestion
    <2> HIDE DEF J
    <2>4. N!cancelNativeQuestion(T, r, i) = [J EXCEPT !.question[r] = Q]
      BY <2>1, <2>2, <2>3
    <2> HIDE DEF row
    <2>5. Q \in Seq(QuestionRows) /\ Len(Q) = Len(T.question[r])
      BY <1>0, <2>2, SequencePatched
    <2>6. \A j \in 1..Len(T.question[r]) : Q[j] = IF j = i THEN row ELSE T.question[r][j]
      BY <1>0
    <2> HIDE DEF Q
    <2> DEFINE U == [J EXCEPT !.question[r] = Q]
    <2>7. /\ U \in BridgeTables /\ U.session = T.session /\ U.stage = T.stage
          /\ U.dispatch = T.dispatch /\ U.run = T.run /\ U.question[r] = Q
          /\ \A q \in Runs : q # r => U.question[q] = T.question[q]
      BY <2>1, <2>5 DEF BridgeTables
    <2> HIDE DEF U
    <2> QED
      BY <1>2, <2>4, <2>5, <2>6, <2>7 DEF Quieted, row, U
  <1> QED
    BY <1>1, <1>2
-----------------------------------------------------------------------------
(* The native bridge: what is said of the rows of one run, and of the revisions its *)
(* parents hold                                                              *)

Holds == [Runs \X (1..MaxAttempts) -> Nat]

(* the rows fit together *)
RowsFit(T, H, r) ==
  /\ Len(T.dispatch[r]) <= MaxAttempts /\ Len(T.question[r]) <= MaxQuestions
  /\ \A n \in DOMAIN T.dispatch[r] : T.dispatch[r][n].rev > 0 /\ H[<<r, n>>] <= T.dispatch[r][n].rev
  /\ \A n \in 1..MaxAttempts : n > Len(T.dispatch[r]) => H[<<r, n>>] = 0
  /\ \A i \in DOMAIN T.question[r] :
       /\ T.question[r][i].dispatch \in DOMAIN T.dispatch[r]
       /\ T.dispatch[r][T.question[r][i].dispatch].rev > 1

(* a dispatch has one question to answer at a time and waits for it *)
AskedOnce(T, r) ==
  \A i \in DOMAIN T.question[r] : T.question[r][i].state = "pending" =>
    /\ T.dispatch[r][T.question[r][i].dispatch].state # "dispatched"
    /\ \A j \in DOMAIN T.question[r] :
         T.question[r][j].state = "pending" /\ T.question[r][j].dispatch = T.question[r][i].dispatch
           => i = j

(* an answer that was not handed over has left the parent behind *)
AnswerFences(T, H, r) ==
  \A i \in DOMAIN T.question[r] :
    (/\ T.question[r][i].state = "answered" /\ T.question[r][i].delivery = "pending"
     /\ T.dispatch[r][T.question[r][i].dispatch].state \in N!Open)
      => H[<<r, T.question[r][i].dispatch>>] < T.dispatch[r][T.question[r][i].dispatch].rev

(* a run that waits for its user does so with its stage and a question *)
WaitOk(T, r) ==
  T.run[r] = "waiting_on_user" =>
    /\ T.stage[r].state = "waiting_on_user"
    /\ \E i \in DOMAIN T.question[r] : T.question[r][i].state = "pending"

RunFits(T, H, r) == RowsFit(T, H, r) /\ AskedOnce(T, r) /\ AnswerFences(T, H, r)
RunOk(T, H, r) == RunFits(T, H, r) /\ WaitOk(T, r)

(* dispatches may have been abandoned, everything else about them is as it was *)
Later(T, U) ==
  \A r \in Runs :
    /\ Len(U.dispatch[r]) = Len(T.dispatch[r])
    /\ \A n \in 1..Len(T.dispatch[r]) :
         U.dispatch[r][n] = T.dispatch[r][n] \/ U.dispatch[r][n].state = "abandoned"

LEMMA RunUntouched ==
  ASSUME NEW T \in BridgeTables, NEW U \in BridgeTables, NEW r \in Runs, NEW H, NEW G,
         U.dispatch[r] = T.dispatch[r], U.question[r] = T.question[r],
         \A n \in 1..MaxAttempts : G[<<r, n>>] = H[<<r, n>>]
  PROVE  /\ RunFits(T, H, r) => RunFits(U, G, r)
         /\ U.stage[r] = T.stage[r] /\ U.run[r] = T.run[r] /\ RunOk(T, H, r) => RunOk(U, G, r)
  <1>1. ASSUME RunFits(T, H, r) PROVE RunFits(U, G, r)
    <2>1. RowsFit(T, H, r) /\ AskedOnce(T, r) /\ AnswerFences(T, H, r)
      BY <1>1 DEF RunFits
    <2>2. /\ Len(T.dispatch[r]) \in Nat /\ DOMAIN T.dispatch[r] = 1..Len(T.dispatch[r])
          /\ MaxAttempts \in Nat
      BY TablesTyped, BridgeAssumption
    <2>3. \A n \in DOMAIN T.dispatch[r] : n \in 1..MaxAttempts
      BY <2>1, <2>2 DEF RowsFit
    <2>4. RowsFit(U, G, r)
      BY <2>1, <2>2, <2>3 DEF RowsFit
    <2>5. AskedOnce(U, r)
      BY <2>1, Zenon DEF AskedOnce
    <2>6. AnswerFences(U, G, r)
      BY <2>1, <2>3 DEF AnswerFences, RowsFit
    <2> QED
      BY <2>4, <2>5, <2>6 DEF RunFits
  <1>2. ASSUME U.stage[r] = T.stage[r], U.run[r] = T.run[r], WaitOk(T, r) PROVE WaitOk(U, r)
    BY <1>2 DEF WaitOk
  <1> QED
    BY <1>1, <1>2 DEF RunOk

LEMMA QuietedFits ==
  ASSUME NEW T \in BridgeTables, NEW U \in BridgeTables, NEW r \in Runs, NEW H,
         Quieted(T, U, r), RunFits(T, H, r)
  PROVE  RunFits(U, H, r)
  <1>1. RowsFit(T, H, r) /\ AskedOnce(T, r) /\ AnswerFences(T, H, r)
    BY DEF RunFits
  <1>2. /\ Len(T.question[r]) \in Nat /\ DOMAIN T.question[r] = 1..Len(T.question[r])
        /\ DOMAIN U.question[r] = DOMAIN T.question[r] /\ U.dispatch = T.dispatch
        /\ Len(U.question[r]) = Len(T.question[r])
    BY TablesTyped DEF Quieted
  <1>3. ASSUME NEW j \in DOMAIN T.question[r]
        PROVE  /\ U.question[r][j].dispatch = T.question[r][j].dispatch
               /\ U.question[r][j].state = "pending" => T.question[r][j].state = "pending"
               /\ U.question[r][j].state = "answered" => U.question[r][j] = T.question[r][j]
    <2>1. CASE U.question[r][j] = T.question[r][j]
      BY <2>1
    <2>2. CASE U.question[r][j] # T.question[r][j]
      <3>1. U.question[r][j] = [dispatch |-> T.question[r][j].dispatch,
                                state |-> "cancelled", delivery |-> "not_applicable"]
        BY <1>2, <2>2, Zenon DEF Quieted
      <3> QED
        BY <3>1
    <2> QED
      BY <2>1, <2>2
  <1>4. RowsFit(U, H, r)
    BY <1>1, <1>2, <1>3 DEF RowsFit
  <1>5. AskedOnce(U, r)
    BY <1>1, <1>2, <1>3, Zenon DEF AskedOnce
  <1>6. AnswerFences(U, H, r)
    BY <1>1, <1>2, <1>3 DEF AnswerFences
  <1> QED
    BY <1>4, <1>5, <1>6 DEF RunFits

(* Dispatches whose revisions grow, without a parent catching up, and which are not *)
(* opened again, keep their run's rows together.                               *)
LEMMA DispatchesMoved ==
  ASSUME NEW T \in BridgeTables, NEW U \in BridgeTables, NEW r \in Runs,
         NEW H \in Holds, NEW G \in Holds, RunFits(T, H, r),
         Len(U.dispatch[r]) = Len(T.dispatch[r]), U.question[r] = T.question[r],
         \A n \in 1..Len(T.dispatch[r]) :
           /\ U.dispatch[r][n].rev >= T.dispatch[r][n].rev
           /\ G[<<r, n>>] <= U.dispatch[r][n].rev
           /\ U.dispatch[r][n].state = "dispatched" => T.dispatch[r][n].state = "dispatched"
           /\ U.dispatch[r][n].state \in N!Open =>
                /\ T.dispatch[r][n].state \in N!Open
                /\ H[<<r, n>>] < T.dispatch[r][n].rev => G[<<r, n>>] < U.dispatch[r][n].rev,
         \A n \in 1..MaxAttempts : n > Len(T.dispatch[r]) => G[<<r, n>>] = 0
  PROVE  RunFits(U, G, r)
  <1>1. RowsFit(T, H, r) /\ AskedOnce(T, r) /\ AnswerFences(T, H, r)
    BY DEF RunFits
  <1>2. /\ Len(T.dispatch[r]) \in Nat /\ DOMAIN T.dispatch[r] = 1..Len(T.dispatch[r])
        /\ DOMAIN U.dispatch[r] = DOMAIN T.dispatch[r]
        /\ \A n \in DOMAIN T.dispatch[r] : T.dispatch[r][n].rev \in Nat
        /\ \A n \in DOMAIN T.dispatch[r] : U.dispatch[r][n].rev \in Nat
    BY TablesTyped DEF DispatchRows
  <1>3. RowsFit(U, G, r)
    <2>1. Len(U.dispatch[r]) <= MaxAttempts /\ Len(U.question[r]) <= MaxQuestions
      BY <1>1 DEF RowsFit
    <2>2. \A n \in DOMAIN U.dispatch[r] :
            U.dispatch[r][n].rev > 0 /\ G[<<r, n>>] <= U.dispatch[r][n].rev
      <3>1. SUFFICES ASSUME NEW n \in DOMAIN U.dispatch[r]
                     PROVE  U.dispatch[r][n].rev > 0 /\ G[<<r, n>>] <= U.dispatch[r][n].rev
        OBVIOUS
      <3>2. /\ n \in 1..Len(T.dispatch[r]) /\ U.dispatch[r][n].rev >= T.dispatch[r][n].rev
            /\ U.dispatch[r][n].rev \in Nat /\ T.dispatch[r][n].rev \in Nat
            /\ G[<<r, n>>] <= U.dispatch[r][n].rev
        BY <1>2, Zenon
      <3>3. T.dispatch[r][n].rev > 0
        BY <1>1, <1>2 DEF RowsFit
      <3> QED
        BY <3>2, <3>3
    <2>3. \A i \in DOMAIN U.question[r] :
            /\ U.question[r][i].dispatch \in DOMAIN U.dispatch[r]
            /\ U.dispatch[r][U.question[r][i].dispatch].rev > 1
      <3>1. SUFFICES ASSUME NEW i \in DOMAIN T.question[r]
                     PROVE  /\ T.question[r][i].dispatch \in DOMAIN U.dispatch[r]
                            /\ U.dispatch[r][T.question[r][i].dispatch].rev > 1
        OBVIOUS
      <3> DEFINE n == T.question[r][i].dispatch
      <3>2. n \in DOMAIN T.dispatch[r] /\ T.dispatch[r][n].rev > 1
        BY <1>1, Zenon DEF RowsFit
      <3>3. /\ n \in 1..Len(T.dispatch[r]) /\ U.dispatch[r][n].rev >= T.dispatch[r][n].rev
            /\ U.dispatch[r][n].rev \in Nat /\ T.dispatch[r][n].rev \in Nat
        BY <1>2, <3>2
      <3>4. n \in DOMAIN U.dispatch[r]
        BY <1>2, <3>2
      <3>5. U.dispatch[r][n].rev > 1
        <4> HIDE DEF n
        <4> QED
          BY <3>2, <3>3
      <3> QED
        BY <3>4, <3>5
    <2> QED
      BY <2>1, <2>2, <2>3, Zenon DEF RowsFit
  <1>4. AskedOnce(U, r)
    BY <1>1, <1>2, Zenon DEF AskedOnce, RowsFit
  <1>5. AnswerFences(U, G, r)
    BY <1>1, <1>2 DEF AnswerFences, RowsFit
  <1> QED
    BY <1>3, <1>4, <1>5 DEF RunFits

LEMMA RowMoved ==
  ASSUME NEW row \in DispatchRows,
         NEW state \in {"dispatched", "waiting_on_user", "abandoned", "submitted", "revoked"},
         NEW attempt \in {"running", "recovery_required", "cancelled", "failed", "succeeded"}
  PROVE  /\ N!Moved(row, state) \in DispatchRows
         /\ N!Moved(row, state).state = state /\ N!Moved(row, state).rev = row.rev + 1
         /\ N!Moved(row, state).attempt = row.attempt
         /\ N!Closed(row, attempt) \in DispatchRows
         /\ N!Closed(row, attempt).state = "abandoned"
         /\ N!Closed(row, attempt).rev = row.rev + 1
  <1>1. row.rev + 1 \in Nat
    BY DEF DispatchRows
  <1>2. /\ N!Moved(row, state) \in DispatchRows
        /\ N!Moved(row, state).state = state /\ N!Moved(row, state).rev = row.rev + 1
        /\ N!Moved(row, state).attempt = row.attempt
    BY <1>1 DEF DispatchRows, N!Moved
  <1>3. /\ N!Moved(row, "abandoned") \in DispatchRows
        /\ N!Moved(row, "abandoned").state = "abandoned"
        /\ N!Moved(row, "abandoned").rev = row.rev + 1
    BY <1>1 DEF DispatchRows, N!Moved
  <1>4. /\ N!Closed(row, attempt) \in DispatchRows
        /\ N!Closed(row, attempt).state = "abandoned"
        /\ N!Closed(row, attempt).rev = row.rev + 1
    BY <1>3 DEF DispatchRows, N!Closed
  <1> QED
    BY <1>2, <1>4

(* one dispatch's row replaced *)
LEMMA RowReplaced ==
  ASSUME NEW T \in BridgeTables, NEW r \in Runs, NEW n \in DOMAIN T.dispatch[r],
         NEW row \in DispatchRows
  PROVE  /\ [T EXCEPT !.dispatch[r][n] = row] \in BridgeTables
         /\ [T EXCEPT !.dispatch[r][n] = row].session = T.session
         /\ [T EXCEPT !.dispatch[r][n] = row].stage = T.stage
         /\ [T EXCEPT !.dispatch[r][n] = row].question = T.question
         /\ [T EXCEPT !.dispatch[r][n] = row].run = T.run
         /\ \A q \in Runs : q # r =>
              [T EXCEPT !.dispatch[r][n] = row].dispatch[q] = T.dispatch[q]
         /\ Len([T EXCEPT !.dispatch[r][n] = row].dispatch[r]) = Len(T.dispatch[r])
         /\ \A m \in 1..Len(T.dispatch[r]) :
              [T EXCEPT !.dispatch[r][n] = row].dispatch[r][m] =
                IF m = n THEN row ELSE T.dispatch[r][m]
  <1> DEFINE D == [T.dispatch[r] EXCEPT ![n] = row]
             U == [T EXCEPT !.dispatch[r] = D]
  <1>1. T.dispatch[r] \in Seq(DispatchRows)
    BY TablesTyped
  <1>2. D \in Seq(DispatchRows) /\ Len(D) = Len(T.dispatch[r])
    BY <1>1, SequencePatched
  <1>3. \A m \in 1..Len(T.dispatch[r]) : D[m] = IF m = n THEN row ELSE T.dispatch[r][m]
    BY <1>1
  <1>4. [T EXCEPT !.dispatch[r][n] = row] = U
    OBVIOUS
  <1> HIDE DEF D
  <1>5. /\ U \in BridgeTables /\ U.session = T.session /\ U.stage = T.stage
        /\ U.question = T.question /\ U.run = T.run /\ U.dispatch[r] = D
        /\ \A q \in Runs : q # r => U.dispatch[q] = T.dispatch[q]
    BY <1>2 DEF BridgeTables
  <1> HIDE DEF U
  <1> QED
    BY <1>2, <1>3, <1>4, <1>5

(* a stage and its run set together *)
SetsStage(T, U, r, stage, run) ==
  /\ U \in BridgeTables
  /\ U.session = T.session /\ U.dispatch = T.dispatch /\ U.question = T.question
  /\ U.stage[r] = stage /\ U.run[r] = run
  /\ \A q \in Runs : q # r => U.stage[q] = T.stage[q] /\ U.run[q] = T.run[q]

LEMMA StageSet ==
  ASSUME NEW T \in BridgeTables, NEW r \in Runs, NEW stage \in StageRows, NEW run \in RunStates
  PROVE  SetsStage(T, [T EXCEPT !.stage[r] = stage, !.run[r] = run], r, stage, run)
  <1> DEFINE U == [T EXCEPT !.stage[r] = stage, !.run[r] = run]
  <1>1. /\ U.session = T.session /\ U.dispatch = T.dispatch /\ U.question = T.question
        /\ U.replayed = T.replayed
        /\ U.stage = [T.stage EXCEPT ![r] = stage] /\ U.run = [T.run EXCEPT ![r] = run]
    BY DEF BridgeTables
  <1>2. [T.stage EXCEPT ![r] = stage] \in [Runs -> StageRows]
        /\ [T.run EXCEPT ![r] = run] \in [Runs -> RunStates]
    BY DEF BridgeTables
  <1>3. U \in BridgeTables
    BY <1>2 DEF BridgeTables
  <1>4. /\ U.stage[r] = stage /\ U.run[r] = run
        /\ \A q \in Runs : q # r => U.stage[q] = T.stage[q] /\ U.run[q] = T.run[q]
    BY <1>1 DEF BridgeTables
  <1> HIDE DEF U
  <1>5. SetsStage(T, U, r, stage, run)
    BY <1>1, <1>3, <1>4 DEF SetsStage
  <1> QED
    BY <1>5 DEF U

LEMMA FirstAsked ==
  ASSUME NEW T \in BridgeTables, NEW d, d[1] \in Runs, N!QuestionsOf(T, d) # {}
  PROVE  N!Min(N!QuestionsOf(T, d)) \in DOMAIN T.question[d[1]]
  <1> DEFINE S == N!QuestionsOf(T, d)
  <1>1. S \in SUBSET Nat /\ S \subseteq DOMAIN T.question[d[1]]
    BY TablesTyped DEF N!QuestionsOf
  <1>2. S # {}
    OBVIOUS
  <1> HIDE DEF S
  <1>3. PICK x \in S : \A y \in S : x <= y
    BY <1>1, <1>2, LeastOf
  <1>4. N!Min(S) \in S
    BY <1>3, Zenon DEF N!Min
  <1> QED
    BY <1>1, <1>4 DEF S

LEMMA DispatchRow ==
  ASSUME NEW T \in BridgeTables, NEW d \in N!Dispatches(T)
  PROVE  /\ d[1] \in Runs /\ d[2] \in 1..MaxAttempts /\ d = <<d[1], d[2]>>
         /\ d[2] \in DOMAIN T.dispatch[d[1]] /\ d[2] \in 1..Len(T.dispatch[d[1]])
         /\ T.dispatch[d[1]][d[2]] \in DispatchRows
  <1>1. d[1] \in Runs /\ d[2] \in 1..MaxAttempts /\ d = <<d[1], d[2]>>
        /\ d[2] <= Len(T.dispatch[d[1]])
    BY DEF N!Dispatches
  <1>2. Len(T.dispatch[d[1]]) \in Nat /\ DOMAIN T.dispatch[d[1]] = 1..Len(T.dispatch[d[1]])
        /\ \A n \in DOMAIN T.dispatch[d[1]] : T.dispatch[d[1]][n] \in DispatchRows
    BY <1>1, TablesTyped
  <1>3. d[2] \in 1..Len(T.dispatch[d[1]])
    BY <1>1, <1>2, BridgeAssumption
  <1> QED
    BY <1>1, <1>2, <1>3

LEMMA LaterCompose ==
  ASSUME NEW T, NEW U, NEW W, Later(T, U), Later(U, W)
  PROVE  Later(T, W)
  BY DEF Later

(* a dispatch may be closed: nothing but its own row moves *)
ClosedAs(T, U, H) ==
  /\ U \in BridgeTables /\ Later(T, U) /\ \A r \in Runs : RunFits(U, H, r)
  /\ U.stage = T.stage /\ U.question = T.question /\ U.run = T.run

(* a dispatch closed: what the other run's rows need is that they are the same *)
LEMMA DispatchClosed ==
  ASSUME NEW T \in BridgeTables, NEW H \in Holds, \A r \in Runs : RunFits(T, H, r),
         NEW d \in N!Dispatches(T),
         NEW attempt \in {"running", "recovery_required", "cancelled", "failed", "succeeded"}
  PROVE  ClosedAs(T, [T EXCEPT !.dispatch[d[1]][d[2]] = N!Closed(@, attempt)], H)
  <1> DEFINE r == d[1]
             n == d[2]
             row == N!Closed(T.dispatch[r][n], attempt)
             U == [T EXCEPT !.dispatch[r][n] = row]
  <1>1. /\ r \in Runs /\ n \in DOMAIN T.dispatch[r] /\ n \in 1..Len(T.dispatch[r])
        /\ T.dispatch[r][n] \in DispatchRows
    BY DispatchRow
  <1>2. row \in DispatchRows /\ row.state = "abandoned" /\ row.rev = T.dispatch[r][n].rev + 1
    BY <1>1, RowMoved, Zenon
  <1>3. [T EXCEPT !.dispatch[d[1]][d[2]] = N!Closed(@, attempt)] = U
    OBVIOUS
  <1> HIDE DEF row, r, n
  <1>4. /\ U \in BridgeTables /\ U.stage = T.stage /\ U.question = T.question
        /\ U.run = T.run /\ Len(U.dispatch[r]) = Len(T.dispatch[r])
        /\ \A q \in Runs : q # r => U.dispatch[q] = T.dispatch[q]
        /\ \A m \in 1..Len(T.dispatch[r]) :
             U.dispatch[r][m] = IF m = n THEN row ELSE T.dispatch[r][m]
    BY <1>1, <1>2, RowReplaced
  <1> HIDE DEF U
  <1>5. Later(T, U)
    <2>1. SUFFICES ASSUME NEW q \in Runs
                   PROVE  /\ Len(U.dispatch[q]) = Len(T.dispatch[q])
                          /\ \A m \in 1..Len(T.dispatch[q]) :
                               \/ U.dispatch[q][m] = T.dispatch[q][m]
                               \/ U.dispatch[q][m].state = "abandoned"
      BY DEF Later
    <2>2. CASE q = r
      BY <1>2, <1>4, <2>2
    <2>3. CASE q # r
      BY <1>4, <2>3
    <2> QED
      BY <2>2, <2>3
  <1>6. RunFits(U, H, r)
    <2>1. RunFits(T, H, r) /\ RowsFit(T, H, r)
      BY <1>1 DEF RunFits
    <2>2. \A m \in 1..Len(T.dispatch[r]) :
            T.dispatch[r][m] \in DispatchRows /\ T.dispatch[r][m].rev \in Nat
      BY <1>1, TablesTyped DEF DispatchRows
    <2>3. \A m \in 1..Len(T.dispatch[r]) :
            H[<<r, m>>] <= T.dispatch[r][m].rev /\ H[<<r, m>>] \in Nat
      <3>1. Len(T.dispatch[r]) \in Nat /\ DOMAIN T.dispatch[r] = 1..Len(T.dispatch[r])
            /\ Len(T.dispatch[r]) <= MaxAttempts /\ MaxAttempts \in Nat
        BY <1>1, <2>1, TablesTyped, BridgeAssumption DEF RowsFit
      <3> QED
        BY <1>1, <2>1, <3>1 DEF RowsFit, Holds
    <2>4. ASSUME NEW m \in 1..Len(T.dispatch[r])
          PROVE  /\ U.dispatch[r][m].rev >= T.dispatch[r][m].rev
                 /\ H[<<r, m>>] <= U.dispatch[r][m].rev
                 /\ U.dispatch[r][m].state = "dispatched" => T.dispatch[r][m].state = "dispatched"
                 /\ U.dispatch[r][m].state \in N!Open =>
                      /\ T.dispatch[r][m].state \in N!Open
                      /\ H[<<r, m>>] < T.dispatch[r][m].rev => H[<<r, m>>] < U.dispatch[r][m].rev
      <3>1. CASE m = n
        <4>1. U.dispatch[r][m] = row /\ row.state = "abandoned"
              /\ row.rev = T.dispatch[r][m].rev + 1
          BY <1>2, <1>4, <3>1
        <4>2. T.dispatch[r][m].rev \in Nat /\ H[<<r, m>>] \in Nat
              /\ H[<<r, m>>] <= T.dispatch[r][m].rev
          BY <2>2, <2>3
        <4>3. row.state \notin N!Open /\ row.state # "dispatched"
          BY <4>1 DEF N!Open
        <4> QED
          BY <4>1, <4>2, <4>3
      <3>2. CASE m # n
        BY <1>4, <2>2, <2>3, <3>2
      <3> QED
        BY <3>1, <3>2
    <2>5. \A m \in 1..MaxAttempts : m > Len(T.dispatch[r]) => H[<<r, m>>] = 0
      BY <2>1 DEF RowsFit
    <2> QED
      BY <1>1, <1>4, <2>1, <2>4, <2>5, DispatchesMoved
  <1>7. \A q \in Runs : q # r => RunFits(U, H, q)
    BY <1>4, RunUntouched
  <1>8. ClosedAs(T, U, H)
    BY <1>4, <1>5, <1>6, <1>7 DEF ClosedAs
  <1> QED
    BY <1>3, <1>8

LEMMA Abandoned ==
  ASSUME NEW T \in BridgeTables, NEW H \in Holds, \A r \in Runs : RunOk(T, H, r),
         NEW d \in N!Dispatches(T)
  PROVE  /\ N!abandonDispatchAndRecover(T, d) \in BridgeTables
         /\ \A r \in Runs : RunOk(N!abandonDispatchAndRecover(T, d), H, r)
         /\ Later(T, N!abandonDispatchAndRecover(T, d))
  <1> DEFINE r == d[1]
             n == d[2]
             attempt == IF T.dispatch[r][n].attempt = "running" THEN "recovery_required"
                        ELSE T.dispatch[r][n].attempt
             closed == [T EXCEPT !.dispatch[r][n] = N!Closed(@, attempt)]
             withdrawn == IF N!QuestionsOf(T, d) = {} THEN closed
                          ELSE N!cancelNativeQuestion(closed, r, N!Min(N!QuestionsOf(T, d)))
             stage == [withdrawn.stage[r] EXCEPT !.state = "recovery_required"]
             U == N!abandonDispatchAndRecover(T, d)
  <1>1. /\ r \in Runs /\ n \in DOMAIN T.dispatch[r] /\ T.dispatch[r][n] \in DispatchRows
    BY DispatchRow
  <1>2. attempt \in {"running", "recovery_required", "cancelled", "failed", "succeeded"}
    BY <1>1 DEF DispatchRows
  <1>3. U = CASE T.dispatch[r][n].state \notin N!Open -> T
              [] T.dispatch[r][n].state \in N!Open /\ T.stage[r].state \in N!Open ->
                   [withdrawn EXCEPT !.stage[r] = stage, !.run[r] = "recovery_required"]
              [] OTHER -> withdrawn
    BY DEF N!abandonDispatchAndRecover
  <1>4. \A q \in Runs : RunFits(T, H, q) /\ WaitOk(T, q)
    BY DEF RunOk
  <1> HIDE DEF attempt, U
  <1>5. /\ closed \in BridgeTables /\ Later(T, closed)
        /\ \A q \in Runs : RunFits(closed, H, q)
        /\ closed.stage = T.stage /\ closed.question = T.question /\ closed.run = T.run
    <2>1. ClosedAs(T, closed, H)
      BY <1>2, <1>4, DispatchClosed, Zenon
    <2> HIDE DEF closed
    <2> QED
      BY <2>1, Zenon DEF ClosedAs
  <1> HIDE DEF closed
  <1>6. /\ withdrawn \in BridgeTables /\ Quieted(closed, withdrawn, r)
    <2>1. CASE N!QuestionsOf(T, d) = {}
      BY <1>5, <2>1 DEF Quieted
    <2>2. CASE N!QuestionsOf(T, d) # {}
      <3>1. N!Min(N!QuestionsOf(T, d)) \in DOMAIN closed.question[r]
        BY <1>1, <1>5, <2>2, FirstAsked
      <3> QED
        BY <1>1, <1>5, <2>2, <3>1, QuestionCancelled
    <2> QED
      BY <2>1, <2>2
  <1> HIDE DEF withdrawn
  <1>7. /\ withdrawn.stage = T.stage /\ withdrawn.run = T.run
        /\ withdrawn.dispatch = closed.dispatch
        /\ \A q \in Runs : q # r => withdrawn.question[q] = T.question[q]
        /\ withdrawn.session = closed.session
    BY <1>5, <1>6 DEF Quieted
  <1>8. \A q \in Runs : RunFits(withdrawn, H, q)
    <2>1. RunFits(withdrawn, H, r)
      BY <1>1, <1>5, <1>6, QuietedFits
    <2>2. \A q \in Runs : q # r => RunFits(withdrawn, H, q)
      BY <1>5, <1>6, <1>7, RunUntouched
    <2> QED
      BY <2>1, <2>2
  <1>9. \A q \in Runs : q # r => WaitOk(withdrawn, q)
    BY <1>4, <1>7 DEF WaitOk
  <1>10. Later(T, withdrawn)
    BY <1>5, <1>7 DEF Later
  <1>11. CASE T.dispatch[r][n].state \notin N!Open
    <2>1. U = T
      BY <1>3, <1>11
    <2> QED
      BY <2>1 DEF Later, U
  <1>12. CASE T.dispatch[r][n].state \in N!Open /\ T.stage[r].state \in N!Open
    <2>1. U = [withdrawn EXCEPT !.stage[r] = stage, !.run[r] = "recovery_required"]
      BY <1>3, <1>12
    <2>2. stage \in StageRows
      BY <1>1, <1>7, TablesTyped DEF StageRows
    <2> HIDE DEF stage
    <2>3. /\ U \in BridgeTables /\ U.dispatch = withdrawn.dispatch
          /\ U.question = withdrawn.question /\ U.run[r] = "recovery_required"
          /\ \A q \in Runs : q # r => U.stage[q] = withdrawn.stage[q]
                                      /\ U.run[q] = withdrawn.run[q]
      <3>1. "recovery_required" \in RunStates
        BY DEF RunStates
      <3>2. SetsStage(withdrawn, U, r, stage, "recovery_required")
        BY <1>1, <1>6, <2>1, <2>2, <3>1, StageSet
      <3> QED
        BY <3>2 DEF SetsStage
    <2>4. \A q \in Runs : RunFits(U, H, q)
      BY <1>6, <1>8, <2>3, RunUntouched
    <2>5. \A q \in Runs : WaitOk(U, q)
      BY <1>9, <2>3 DEF WaitOk
    <2>6. Later(T, U)
      BY <1>10, <2>3 DEF Later
    <2> QED
      BY <2>3, <2>4, <2>5, <2>6 DEF RunOk, U
  <1>13. CASE T.dispatch[r][n].state \in N!Open /\ T.stage[r].state \notin N!Open
    <2>1. U = withdrawn
      BY <1>3, <1>13
    <2>2. WaitOk(withdrawn, r)
      BY <1>1, <1>4, <1>7, <1>13 DEF WaitOk, N!Open
    <2> QED
      BY <1>6, <1>8, <1>9, <1>10, <2>1, <2>2 DEF RunOk, U
  <1> QED
    BY <1>11, <1>12, <1>13

(* the tables a sweep may leave *)
Swept(T, H) == {U \in BridgeTables : (\A r \in Runs : RunOk(U, H, r)) /\ Later(T, U)}

LEMMA DispatchesFinite ==
  ASSUME NEW S, S \subseteq Runs \X (1..MaxAttempts)
  PROVE  IsFiniteSet(S)
  <1>1. IsFiniteSet(Runs) /\ IsFiniteSet(1..MaxAttempts)
    BY BridgeAssumption, FS_Interval
  <1>2. IsFiniteSet(Runs \X (1..MaxAttempts))
    BY <1>1, FS_Product
  <1> QED
    BY <1>2, FS_Subset

LEMMA SameDispatches ==
  ASSUME NEW T, NEW U, Later(T, U)
  PROVE  N!Dispatches(U) = N!Dispatches(T)
  <1>1. \A d \in Runs \X (1..MaxAttempts) : Len(U.dispatch[d[1]]) = Len(T.dispatch[d[1]])
    BY DEF Later
  <1> QED
    BY <1>1 DEF N!Dispatches

LEMMA AbandonFold ==
  ASSUME NEW T \in BridgeTables, NEW H \in Holds, \A r \in Runs : RunOk(T, H, r),
         NEW S, S \subseteq N!Dispatches(T)
  PROVE  N!FoldSet(LAMBDA d, acc : N!abandonDispatchAndRecover(acc, d), T, S) \in Swept(T, H)
  <1> DEFINE V == Swept(T, H)
             pick(s) == CHOOSE x \in s : TRUE
             ch == [s \in SUBSET S |-> pick(s)]
             op == [p \in S \X V |-> N!abandonDispatchAndRecover(p[2], p[1])]
             Folds(g) == g = [s \in SUBSET S |->
               IF s = {} THEN T ELSE N!abandonDispatchAndRecover(g[s \ {pick(s)}], pick(s))]
  <1>1. IsFiniteSet(S)
    BY DispatchesFinite DEF N!Dispatches
  <1>2. T \in V
    BY DEF Swept, Later
  <1>3. ASSUME NEW d \in S, NEW U \in V
        PROVE  N!abandonDispatchAndRecover(U, d) \in V
    <2>1. U \in BridgeTables /\ (\A r \in Runs : RunOk(U, H, r)) /\ Later(T, U)
      BY <1>3 DEF Swept
    <2>2. d \in N!Dispatches(U)
      BY <1>3, <2>1, SameDispatches
    <2>3. /\ N!abandonDispatchAndRecover(U, d) \in BridgeTables
          /\ \A r \in Runs : RunOk(N!abandonDispatchAndRecover(U, d), H, r)
          /\ Later(U, N!abandonDispatchAndRecover(U, d))
      BY <2>1, <2>2, Abandoned
    <2> QED
      BY <2>1, <2>3, LaterCompose DEF Swept
  <1> HIDE DEF V
  <1>4. \A s \in SUBSET S : s # {} => pick(s) \in s
    OBVIOUS
  <1> HIDE DEF pick
  <1>5. Foldable(S, V, T, ch, op)
    <2>1. \A s \in SUBSET S : s # {} => ch[s] \in s
      BY <1>4
    <2>2. \A x \in S : \A v \in V : op[<<x, v>>] \in V
      BY <1>3
    <2> HIDE DEF ch, op
    <2> QED
      BY <1>1, <1>2, <2>1, <2>2 DEF Foldable
  <1>6. PICK g : Folded(g, S, V, T, ch, op)
    <2> HIDE DEF ch, op
    <2> QED
      BY <1>5, FoldExists, Zenon
  <1>7. Folds(g)
    <2>1. /\ g \in [SUBSET S -> V]
          /\ \A s \in SUBSET S : g[s] = IF s = {} THEN T ELSE op[<<ch[s], g[s \ {ch[s]}]>>]
      <3> HIDE DEF ch, op
      <3> QED
        BY <1>6 DEF Folded
    <2>2. ASSUME NEW s \in SUBSET S, s # {}
          PROVE  g[s] = N!abandonDispatchAndRecover(g[s \ {pick(s)}], pick(s))
      <3>1. ch[s] = pick(s) /\ pick(s) \in S
        BY <1>4, <2>2
      <3>2. g[s \ {ch[s]}] \in V
        BY <2>1
      <3>3. <<ch[s], g[s \ {ch[s]}]>> \in S \X V
        BY <3>1, <3>2
      <3> QED
        BY <2>1, <2>2, <3>1, <3>3
    <2>3. g = [s \in SUBSET S |-> g[s]]
      BY <2>1
    <2>4. g[{}] = T
      BY <2>1
    <2> QED
      BY <2>2, <2>3, <2>4
  <1> DEFINE h == CHOOSE iter : Folds(iter)
  <1>8. Folds(h)
    BY <1>7, Zenon
  <1>9. N!FoldSet(LAMBDA d, acc : N!abandonDispatchAndRecover(acc, d), T, S) = h[S]
    BY Zenon DEF N!FoldSet, N!MapThenFoldSet, pick
  <1> HIDE DEF h, op, ch
  <1>10. /\ h[{}] = T
         /\ \A s \in SUBSET S : s # {} =>
              h[s] = N!abandonDispatchAndRecover(h[s \ {pick(s)}], pick(s))
    BY <1>8
  <1> DEFINE Q == {s \in SUBSET S : h[s] \in V}
  <1>11. {} \in Q
    BY <1>2, <1>10
  <1>12. \A s \in SUBSET S : s # {} => \E x \in s : (s \ {x} \in Q) => (s \in Q)
    <2>1. SUFFICES ASSUME NEW s \in SUBSET S, s # {}
                   PROVE  \E x \in s : (s \ {x} \in Q) => (s \in Q)
      OBVIOUS
    <2>2. pick(s) \in s
      BY <1>4, <2>1
    <2>3. (s \ {pick(s)} \in Q) => (s \in Q)
      BY <1>3, <1>10, <2>1, <2>2
    <2> QED
      BY <2>2, <2>3
  <1>13. SUBSET S \subseteq Q
    <2> HIDE DEF Q, Folds
    <2> QED
      BY <1>1, <1>11, <1>12, SubsetsReached
  <1>14. S \in Q
    BY <1>13
  <1> QED
    BY <1>9, <1>14 DEF V

LEMMA Reaped ==
  ASSUME NEW T \in BridgeTables, NEW H \in Holds, \A r \in Runs : RunOk(T, H, r), NEW said
  PROVE  N!reapExpirations(T, said) \in Swept(T, H)
  <1> DEFINE swept == [s \in Sessions |->
            LET row == T.session[s]
            IN  CASE row.state \in N!Live /\ row.late /\ said = "alive" ->
                        [row EXCEPT !.state = "stalled"]
                  [] row.state \in N!Live /\ row.late /\ said # "alive" ->
                        [row EXCEPT !.state = "expired"]
                  [] OTHER -> row]
             marked == [T EXCEPT !.session = swept]
             lost == {d \in N!Dispatches(T) :
                    /\ T.dispatch[d[1]][d[2]].state \in N!Open
                    /\ swept[T.dispatch[d[1]][d[2]].session].state \notin N!Live}
  <1>1. swept \in [Sessions -> SessionRows]
    <2>1. \A s \in Sessions : T.session[s] \in SessionRows
      BY DEF BridgeTables
    <2> DEFINE next(row) ==
                 CASE row.state \in N!Live /\ row.late /\ said = "alive" ->
                        [row EXCEPT !.state = "stalled"]
                  [] row.state \in N!Live /\ row.late /\ said # "alive" ->
                        [row EXCEPT !.state = "expired"]
                  [] OTHER -> row
    <2>2. ASSUME NEW row \in SessionRows PROVE next(row) \in SessionRows
      <3>1. /\ [row EXCEPT !.state = "stalled"] \in SessionRows
            /\ [row EXCEPT !.state = "expired"] \in SessionRows
        BY DEF SessionRows
      <3>2. CASE row.state \in N!Live /\ row.late /\ said = "alive"
        BY <3>1, <3>2
      <3>3. CASE row.state \in N!Live /\ row.late /\ said # "alive"
        BY <3>1, <3>3
      <3>4. CASE ~ (row.state \in N!Live /\ row.late)
        BY <3>4
      <3> QED
        BY <3>2, <3>3, <3>4
    <2>3. swept = [s \in Sessions |-> next(T.session[s])]
      OBVIOUS
    <2> HIDE DEF next, swept
    <2> QED
      BY <2>1, <2>2, <2>3
  <1>2. N!reapExpirations(T, said) =
          IF lost = {} THEN marked
          ELSE N!FoldSet(LAMBDA d, acc : N!abandonDispatchAndRecover(acc, d), marked, lost)
    BY Zenon DEF N!reapExpirations
  <1> HIDE DEF swept
  <1>3. /\ marked \in BridgeTables /\ marked.stage = T.stage /\ marked.dispatch = T.dispatch
        /\ marked.question = T.question /\ marked.run = T.run
    BY <1>1 DEF BridgeTables
  <1>4. lost \subseteq N!Dispatches(T)
    OBVIOUS
  <1> HIDE DEF marked, lost
  <1>5. \A r \in Runs : RunOk(marked, H, r)
    BY <1>3, RunUntouched
  <1>6. Later(T, marked)
    BY <1>3 DEF Later
  <1>7. lost \subseteq N!Dispatches(marked)
    BY <1>4, <1>6, SameDispatches
  <1> DEFINE W == N!FoldSet(LAMBDA d, acc : N!abandonDispatchAndRecover(acc, d), marked, lost)
  <1>8. W \in Swept(marked, H)
    BY <1>3, <1>5, <1>7, AbandonFold
  <1> HIDE DEF W
  <1>9. W \in Swept(T, H)
    BY <1>6, <1>8, LaterCompose DEF Swept
  <1>10. marked \in Swept(T, H)
    BY <1>3, <1>5, <1>6 DEF Swept
  <1> QED
    BY <1>2, <1>9, <1>10 DEF W
-----------------------------------------------------------------------------
(* The native bridge: what one handler may change *)

(* no dispatch is lost, and none is submitted but by a submission *)
Steady(T, U) ==
  \A r \in Runs :
    /\ Len(U.dispatch[r]) >= Len(T.dispatch[r])
    /\ \A n \in 1..Len(T.dispatch[r]) :
         U.dispatch[r][n].state = "submitted" => T.dispatch[r][n].state = "submitted"

(* the tables a handler may leave *)
Leaves(T, U, G) == U \in BridgeTables /\ (\A r \in Runs : RunOk(U, G, r)) /\ Steady(T, U)

LEMMA LaterIsSteady ==
  ASSUME NEW T \in BridgeTables, NEW U, Later(T, U)
  PROVE  Steady(T, U)
  <1>1. \A r \in Runs : Len(T.dispatch[r]) \in Nat
    BY TablesTyped
  <1>2. SUFFICES ASSUME NEW r \in Runs
                 PROVE  /\ Len(U.dispatch[r]) >= Len(T.dispatch[r])
                        /\ \A n \in 1..Len(T.dispatch[r]) :
                             U.dispatch[r][n].state = "submitted"
                               => T.dispatch[r][n].state = "submitted"
    BY DEF Steady
  <1>3. Len(U.dispatch[r]) >= Len(T.dispatch[r])
    BY <1>1, <1>2 DEF Later
  <1>4. ASSUME NEW n \in 1..Len(T.dispatch[r]), U.dispatch[r][n].state = "submitted"
        PROVE  T.dispatch[r][n].state = "submitted"
    <2>1. U.dispatch[r][n] = T.dispatch[r][n] \/ U.dispatch[r][n].state = "abandoned"
      BY <1>2, <1>4 DEF Later
    <2> QED
      BY <1>4, <2>1
  <1> QED
    BY <1>3, <1>4

LEMMA SteadyAfter ==
  ASSUME NEW T \in BridgeTables, NEW U \in BridgeTables, NEW W \in BridgeTables,
         Later(T, U), Steady(U, W)
  PROVE  Steady(T, W)
  <1>1. \A r \in Runs : Len(T.dispatch[r]) \in Nat /\ Len(W.dispatch[r]) \in Nat
    BY TablesTyped
  <1>2. SUFFICES ASSUME NEW r \in Runs
                 PROVE  /\ Len(W.dispatch[r]) >= Len(T.dispatch[r])
                        /\ \A n \in 1..Len(T.dispatch[r]) :
                             W.dispatch[r][n].state = "submitted"
                               => T.dispatch[r][n].state = "submitted"
    BY DEF Steady
  <1>3. Len(U.dispatch[r]) = Len(T.dispatch[r])
    BY <1>2 DEF Later
  <1>4. Len(W.dispatch[r]) >= Len(T.dispatch[r])
    BY <1>1, <1>2, <1>3 DEF Steady
  <1>5. ASSUME NEW n \in 1..Len(T.dispatch[r]), W.dispatch[r][n].state = "submitted"
        PROVE  T.dispatch[r][n].state = "submitted"
    <2>1. U.dispatch[r][n].state = "submitted"
      BY <1>2, <1>3, <1>5 DEF Steady
    <2>2. U.dispatch[r][n] = T.dispatch[r][n] \/ U.dispatch[r][n].state = "abandoned"
      BY <1>2, <1>5 DEF Later
    <2> QED
      BY <2>1, <2>2
  <1> QED
    BY <1>4, <1>5

(* tables with the same dispatches, whose questions, stages and runs say as much *)
LEMMA SameRows ==
  ASSUME NEW T \in BridgeTables, NEW H \in Holds, \A r \in Runs : RunOk(T, H, r),
         NEW U \in BridgeTables, U.dispatch = T.dispatch, U.question = T.question,
         \A r \in Runs : WaitOk(U, r)
  PROVE  (\A r \in Runs : RunOk(U, H, r)) /\ Later(T, U)
  <1>1. \A r \in Runs : RunFits(T, H, r)
    BY DEF RunOk
  <1>2. \A r \in Runs : RunFits(U, H, r)
    BY <1>1, RunUntouched
  <1> QED
    BY <1>2 DEF RunOk, Later

(* a stage whose run does not wait for its user any more *)
LEMMA StageMoved ==
  ASSUME NEW T \in BridgeTables, NEW H \in Holds, \A r \in Runs : RunFits(T, H, r),
         NEW q \in Runs, \A r \in Runs : r # q => WaitOk(T, r),
         NEW stage \in StageRows, NEW run \in RunStates, run # "waiting_on_user"
  PROVE  /\ [T EXCEPT !.stage[q] = stage, !.run[q] = run] \in BridgeTables
         /\ \A r \in Runs : RunOk([T EXCEPT !.stage[q] = stage, !.run[q] = run], H, r)
         /\ Later(T, [T EXCEPT !.stage[q] = stage, !.run[q] = run])
         /\ [T EXCEPT !.stage[q] = stage, !.run[q] = run].dispatch = T.dispatch
         /\ [T EXCEPT !.stage[q] = stage, !.run[q] = run].run[q] = run
  <1> DEFINE U == [T EXCEPT !.stage[q] = stage, !.run[q] = run]
  <1>1. SetsStage(T, U, q, stage, run)
    BY StageSet
  <1> HIDE DEF U
  <1>2. U \in BridgeTables /\ U.dispatch = T.dispatch /\ U.question = T.question
        /\ U.run[q] = run
    BY <1>1 DEF SetsStage
  <1>3. \A r \in Runs : WaitOk(U, r)
    BY <1>1 DEF SetsStage, WaitOk
  <1>4. \A r \in Runs : RunFits(U, H, r)
    BY <1>2, RunUntouched
  <1> QED
    BY <1>2, <1>3, <1>4 DEF RunOk, Later, U

(* a dispatch closed and its stage back in line *)
LEMMA Redispatched ==
  ASSUME NEW T \in BridgeTables, NEW H \in Holds, \A r \in Runs : RunOk(T, H, r),
         NEW d \in N!Dispatches(T),
         NEW attempt \in {"running", "recovery_required", "cancelled", "failed", "succeeded"}
  PROVE  [T EXCEPT !.dispatch[d[1]][d[2]] = N!Closed(@, attempt),
                   !.stage[d[1]] = [state |-> "waiting_for_parent", attempt |-> 0],
                   !.run[d[1]] = "waiting_for_parent_session"] \in Swept(T, H)
  <1> DEFINE closed == [T EXCEPT !.dispatch[d[1]][d[2]] = N!Closed(@, attempt)]
             stage == [state |-> "waiting_for_parent", attempt |-> 0]
             U == [closed EXCEPT !.stage[d[1]] = stage,
                                 !.run[d[1]] = "waiting_for_parent_session"]
  <1>1. \A q \in Runs : RunFits(T, H, q) /\ WaitOk(T, q)
    BY DEF RunOk
  <1>2. /\ closed \in BridgeTables /\ Later(T, closed)
        /\ \A q \in Runs : RunFits(closed, H, q)
        /\ closed.stage = T.stage /\ closed.question = T.question /\ closed.run = T.run
    <2>1. ClosedAs(T, closed, H)
      BY <1>1, DispatchClosed, Zenon
    <2> HIDE DEF closed
    <2> QED
      BY <2>1, Zenon DEF ClosedAs
  <1>3. [T EXCEPT !.dispatch[d[1]][d[2]] = N!Closed(@, attempt),
                  !.stage[d[1]] = [state |-> "waiting_for_parent", attempt |-> 0],
                  !.run[d[1]] = "waiting_for_parent_session"] = U
    OBVIOUS
  <1> HIDE DEF closed
  <1>4. d[1] \in Runs /\ stage \in StageRows /\ "waiting_for_parent_session" \in RunStates
    BY DispatchRow DEF StageRows, RunStates
  <1> HIDE DEF stage
  <1>5. \A q \in Runs : WaitOk(closed, q)
    BY <1>1, <1>2 DEF WaitOk
  <1>6. /\ U \in BridgeTables /\ (\A r \in Runs : RunOk(U, H, r)) /\ Later(closed, U)
    BY <1>2, <1>4, <1>5, StageMoved
  <1> HIDE DEF U
  <1>7. Later(T, U)
    BY <1>2, <1>6, LaterCompose
  <1> QED
    BY <1>3, <1>6, <1>7 DEF Swept

LEMMA Released ==
  ASSUME NEW T \in BridgeTables, NEW H \in Holds, \A r \in Runs : RunOk(T, H, r),
         NEW d \in N!Dispatches(T), NEW notStarted
  PROVE  N!releaseDispatch(T, d, notStarted) \in Swept(T, H)
  <1> DEFINE free == T.dispatch[d[1]][d[2]].state \in N!Open /\ d \in notStarted
                     /\ N!QuestionsOf(T, d) = {}
             redone == [T EXCEPT !.dispatch[d[1]][d[2]] = N!Closed(@, "cancelled"),
                                 !.stage[d[1]] = [state |-> "waiting_for_parent", attempt |-> 0],
                                 !.run[d[1]] = "waiting_for_parent_session"]
  <1>1. T \in Swept(T, H)
    BY Zenon DEF Swept, Later
  <1>2. redone \in Swept(T, H)
    BY Redispatched, Zenon
  <1>3. N!abandonDispatchAndRecover(T, d) \in Swept(T, H)
    BY Abandoned DEF Swept
  <1>4. N!releaseDispatch(T, d, notStarted) =
          CASE T.dispatch[d[1]][d[2]].state \notin N!Open -> T
            [] free -> redone
            [] OTHER -> N!abandonDispatchAndRecover(T, d)
    BY DEF N!releaseDispatch
  <1>5. free => T.dispatch[d[1]][d[2]].state \in N!Open
    OBVIOUS
  <1> HIDE DEF free, redone
  <1>6. CASE T.dispatch[d[1]][d[2]].state \notin N!Open
    BY <1>1, <1>4, <1>5, <1>6
  <1>7. CASE free
    BY <1>2, <1>4, <1>5, <1>7
  <1>8. CASE T.dispatch[d[1]][d[2]].state \in N!Open /\ ~free
    BY <1>3, <1>4, <1>8
  <1> QED
    BY <1>6, <1>7, <1>8

(* what releasing the dispatches of S in turn leaves *)
Releases(W, T, S, notStarted) ==
  W = N!FoldSet(LAMBDA d, acc : N!releaseDispatch(acc, d, notStarted), T, S)

LEMMA ReleaseFold ==
  ASSUME NEW T \in BridgeTables, NEW H \in Holds, \A r \in Runs : RunOk(T, H, r),
         NEW S, S \subseteq N!Dispatches(T), NEW notStarted,
         NEW W, Releases(W, T, S, notStarted)
  PROVE  W \in Swept(T, H)
  <1> DEFINE V == Swept(T, H)
             pick(s) == CHOOSE x \in s : TRUE
             ch == [s \in SUBSET S |-> pick(s)]
             op == [p \in S \X V |-> N!releaseDispatch(p[2], p[1], notStarted)]
             Folds(g) == g = [s \in SUBSET S |->
               IF s = {} THEN T ELSE N!releaseDispatch(g[s \ {pick(s)}], pick(s), notStarted)]
  <1>1. IsFiniteSet(S)
    BY DispatchesFinite DEF N!Dispatches
  <1>2. T \in V
    BY DEF Swept, Later
  <1>3. ASSUME NEW d \in S, NEW U \in V
        PROVE  N!releaseDispatch(U, d, notStarted) \in V
    <2>1. U \in BridgeTables /\ (\A r \in Runs : RunOk(U, H, r)) /\ Later(T, U)
      BY <1>3 DEF Swept
    <2>2. d \in N!Dispatches(U)
      BY <1>3, <2>1, SameDispatches
    <2>3. N!releaseDispatch(U, d, notStarted) \in Swept(U, H)
      BY <2>1, <2>2, Released
    <2> QED
      BY <2>1, <2>3, LaterCompose DEF Swept
  <1> HIDE DEF V
  <1>4. \A s \in SUBSET S : s # {} => pick(s) \in s
    OBVIOUS
  <1> HIDE DEF pick
  <1>5. Foldable(S, V, T, ch, op)
    <2>1. \A s \in SUBSET S : s # {} => ch[s] \in s
      BY <1>4
    <2>2. \A x \in S : \A v \in V : op[<<x, v>>] \in V
      BY <1>3
    <2> HIDE DEF ch, op
    <2> QED
      BY <1>1, <1>2, <2>1, <2>2 DEF Foldable
  <1>6. PICK g : Folded(g, S, V, T, ch, op)
    <2> HIDE DEF ch, op
    <2> QED
      BY <1>5, FoldExists, Zenon
  <1>7. Folds(g)
    <2>1. /\ g \in [SUBSET S -> V]
          /\ \A s \in SUBSET S : g[s] = IF s = {} THEN T ELSE op[<<ch[s], g[s \ {ch[s]}]>>]
      <3> HIDE DEF ch, op
      <3> QED
        BY <1>6 DEF Folded
    <2>2. ASSUME NEW s \in SUBSET S, s # {}
          PROVE  g[s] = N!releaseDispatch(g[s \ {pick(s)}], pick(s), notStarted)
      <3>1. ch[s] = pick(s) /\ pick(s) \in S
        BY <1>4, <2>2
      <3>2. g[s \ {ch[s]}] \in V
        BY <2>1
      <3>3. <<ch[s], g[s \ {ch[s]}]>> \in S \X V
        BY <3>1, <3>2
      <3> QED
        BY <2>1, <2>2, <3>1, <3>3
    <2>3. g = [s \in SUBSET S |-> g[s]]
      BY <2>1
    <2>4. g[{}] = T
      BY <2>1
    <2> QED
      BY <2>2, <2>3, <2>4
  <1> DEFINE h == CHOOSE iter : Folds(iter)
  <1>8. Folds(h)
    BY <1>7, Zenon
  <1>9. W = h[S]
    BY Zenon DEF Releases, N!FoldSet, N!MapThenFoldSet, pick
  <1> HIDE DEF h, op, ch
  <1>10. /\ h[{}] = T
         /\ \A s \in SUBSET S : s # {} =>
              h[s] = N!releaseDispatch(h[s \ {pick(s)}], pick(s), notStarted)
    BY <1>8
  <1> DEFINE Q == {s \in SUBSET S : h[s] \in V}
  <1>11. {} \in Q
    BY <1>2, <1>10
  <1>12. \A s \in SUBSET S : s # {} => \E x \in s : (s \ {x} \in Q) => (s \in Q)
    <2>1. SUFFICES ASSUME NEW s \in SUBSET S, s # {}
                   PROVE  \E x \in s : (s \ {x} \in Q) => (s \in Q)
      OBVIOUS
    <2>2. pick(s) \in s
      BY <1>4, <2>1
    <2>3. (s \ {pick(s)} \in Q) => (s \in Q)
      BY <1>3, <1>10, <2>1, <2>2
    <2> QED
      BY <2>2, <2>3
  <1>13. SUBSET S \subseteq Q
    <2> HIDE DEF Q, Folds
    <2> QED
      BY <1>1, <1>11, <1>12, SubsetsReached
  <1>14. S \in Q
    BY <1>13
  <1> QED
    BY <1>9, <1>14 DEF V

-----------------------------------------------------------------------------
(* The native bridge: the inductive invariant *)

Polls == [todo : SUBSET (Runs \X (1..MaxAttempts)), done : SUBSET (Runs \X (1..MaxAttempts)),
          busy : BOOLEAN]

(* what the polls await is among the dispatches *)
PollsFit(S, T) ==
  /\ S \in [Sessions -> Polls]
  /\ \A s \in Sessions : S[s].todo \subseteq N!Dispatches(T) /\ S[s].done \subseteq N!Dispatches(T)

BridgeInv ==
  /\ tables \in BridgeTables /\ held \in Holds
  /\ \A r \in Runs : RunOk(tables, held, r)
  /\ PollsFit(serving, tables)
  /\ \A r \in Runs, n \in 1..MaxAttempts :
       pending = <<"complete", r, n>> => tables.run[r] = "succeeded"

(* the dispatches a poll knew are still there *)
LEMMA PollsStay ==
  ASSUME NEW T \in BridgeTables, NEW U \in BridgeTables,
         \A r \in Runs : Len(U.dispatch[r]) >= Len(T.dispatch[r]),
         NEW S, PollsFit(S, T)
  PROVE  PollsFit(S, U)
  <1>1. \A r \in Runs : Len(T.dispatch[r]) \in Nat /\ Len(U.dispatch[r]) \in Nat
    BY TablesTyped
  <1>2. N!Dispatches(T) \subseteq N!Dispatches(U)
    <2>1. SUFFICES ASSUME NEW d \in N!Dispatches(T) PROVE d \in N!Dispatches(U)
      OBVIOUS
    <2>2. d \in Runs \X (1..MaxAttempts) /\ d[2] <= Len(T.dispatch[d[1]])
      BY <2>1 DEF N!Dispatches
    <2>3. /\ Len(T.dispatch[d[1]]) \in Nat /\ Len(U.dispatch[d[1]]) \in Nat /\ d[2] \in Nat
          /\ Len(U.dispatch[d[1]]) >= Len(T.dispatch[d[1]])
      BY <1>1, <2>2, BridgeAssumption
    <2>4. d[2] <= Len(U.dispatch[d[1]])
      BY <2>2, <2>3
    <2> QED
      BY <2>2, <2>4 DEF N!Dispatches
  <1> QED
    BY <1>2 DEF PollsFit

LEMMA PollsKept ==
  ASSUME NEW T \in BridgeTables, NEW U \in BridgeTables, Steady(T, U),
         NEW S, PollsFit(S, T)
  PROVE  PollsFit(S, U)
  BY PollsStay DEF Steady

(* a handler that leaves the polls alone and has nothing to complete *)
LEMMA HandlerKeeps ==
  ASSUME BridgeInv, Leaves(tables, tables', held'), held' \in Holds, UNCHANGED serving,
         \A r \in Runs, n \in 1..MaxAttempts : pending' # <<"complete", r, n>>
  PROVE  BridgeInv'
  <1>1. PollsFit(serving', tables')
    BY PollsKept DEF BridgeInv, Leaves
  <1> QED
    BY <1>1 DEF BridgeInv, Leaves

LEMMA SweptLeaves ==
  ASSUME NEW T \in BridgeTables, NEW H, NEW U \in Swept(T, H)
  PROVE  Leaves(T, U, H)
  BY LaterIsSteady DEF Swept, Leaves

(* after a sweep *)
LEMMA LeavesAfter ==
  ASSUME NEW T \in BridgeTables, NEW H, NEW U \in Swept(T, H), NEW W, NEW G, Leaves(U, W, G)
  PROVE  Leaves(T, W, G)
  BY SteadyAfter DEF Swept, Leaves

LEMMA NothingPending ==
  ASSUME NEW r, NEW n
  PROVE  <<>> # <<"complete", r, n>>
  OBVIOUS

LEMMA SessionWritten ==
  ASSUME NEW T \in BridgeTables, NEW s \in Sessions, NEW row \in SessionRows
  PROVE  /\ [T EXCEPT !.session[s] = row] \in BridgeTables
         /\ [T EXCEPT !.session[s] = row].dispatch = T.dispatch
         /\ [T EXCEPT !.session[s] = row].question = T.question
         /\ [T EXCEPT !.session[s] = row].stage = T.stage
         /\ [T EXCEPT !.session[s] = row].run = T.run
  <1>1. [T.session EXCEPT ![s] = row] \in [Sessions -> SessionRows]
    BY DEF BridgeTables
  <1> QED
    BY <1>1 DEF BridgeTables

LEMMA TimerSweeps ==
  ASSUME BridgeInv, N!reapAllExpiredParentSessions
  PROVE  Leaves(tables, tables', held')
  <1>1. PICK said \in N!Heard : tables' = N!reapExpirations(tables, said)
    BY DEF N!reapAllExpiredParentSessions
  <1>2. tables' \in Swept(tables, held)
    BY <1>1, Reaped DEF BridgeInv
  <1>3. held' = held
    BY DEF N!reapAllExpiredParentSessions
  <1> QED
    BY <1>2, <1>3, SweptLeaves DEF BridgeInv

LEMMA LeaseEnds ==
  ASSUME BridgeInv, NEW s \in Sessions, N!LeaseRunsOut(s)
  PROVE  Leaves(tables, tables', held')
  <1> DEFINE row == [tables.session[s] EXCEPT !.late = TRUE]
  <1>1. tables \in BridgeTables /\ held \in Holds /\ \A r \in Runs : RunOk(tables, held, r)
    BY DEF BridgeInv
  <1>2. row \in SessionRows
    BY <1>1 DEF BridgeTables, SessionRows
  <1>3. tables' = [tables EXCEPT !.session[s] = row] /\ held' = held
    BY DEF N!LeaseRunsOut
  <1> HIDE DEF row
  <1>4. /\ tables' \in BridgeTables /\ tables'.dispatch = tables.dispatch
        /\ tables'.question = tables.question /\ tables'.stage = tables.stage
        /\ tables'.run = tables.run
    BY <1>1, <1>2, <1>3, SessionWritten
  <1>5. \A r \in Runs : WaitOk(tables', r)
    BY <1>1, <1>4 DEF WaitOk, RunOk
  <1> QED
    BY <1>1, <1>3, <1>4, <1>5, SameRows, LaterIsSteady DEF Leaves

LEMMA RunCreated ==
  ASSUME BridgeInv, NEW r \in Runs, N!createNativeStage(r)
  PROVE  Leaves(tables, tables', held')
  <1>1. tables \in BridgeTables /\ held \in Holds /\ \A q \in Runs : RunOk(tables, held, q)
    BY DEF BridgeInv
  <1>2. tables' = [tables EXCEPT !.run[r] = "created"] /\ held' = held
    BY DEF N!createNativeStage
  <1>3. [tables.run EXCEPT ![r] = "created"] \in [Runs -> RunStates]
    BY <1>1 DEF BridgeTables, RunStates
  <1>4. /\ tables' \in BridgeTables /\ tables'.dispatch = tables.dispatch
        /\ tables'.question = tables.question /\ tables'.stage = tables.stage
        /\ tables'.run = [tables.run EXCEPT ![r] = "created"]
    BY <1>1, <1>2, <1>3 DEF BridgeTables
  <1>5. \A q \in Runs : tables'.run[q] = IF q = r THEN "created" ELSE tables.run[q]
    BY <1>1, <1>4 DEF BridgeTables
  <1>6. \A q \in Runs : WaitOk(tables', q)
    BY <1>1, <1>4, <1>5 DEF WaitOk, RunOk
  <1>7. (\A q \in Runs : RunOk(tables', held, q)) /\ Later(tables, tables')
    BY <1>1, <1>4, <1>6, SameRows
  <1>8. Steady(tables, tables')
    BY <1>1, <1>7, LaterIsSteady
  <1> QED
    BY <1>2, <1>4, <1>7, <1>8 DEF Leaves

LEMMA StageInserted ==
  ASSUME BridgeInv, NEW r \in Runs, N!InsertStage(r)
  PROVE  Leaves(tables, tables', held')
  <1> DEFINE stage == [tables.stage[r] EXCEPT !.state = "waiting_for_parent"]
  <1>1. tables \in BridgeTables /\ held \in Holds /\ \A q \in Runs : RunOk(tables, held, q)
    BY DEF BridgeInv
  <1>2. \A q \in Runs : RunFits(tables, held, q) /\ WaitOk(tables, q)
    BY <1>1 DEF RunOk
  <1>3. stage \in StageRows /\ "waiting_for_parent_session" \in RunStates
    BY <1>1, TablesTyped DEF StageRows, RunStates
  <1>4. tables' = [tables EXCEPT !.stage[r] = stage, !.run[r] = "waiting_for_parent_session"]
        /\ held' = held
    BY DEF N!InsertStage
  <1> HIDE DEF stage
  <1>5. tables' \in Swept(tables, held)
    BY <1>1, <1>2, <1>3, <1>4, StageMoved DEF Swept
  <1> QED
    BY <1>1, <1>4, <1>5, SweptLeaves

LEMMA StageResumed ==
  ASSUME BridgeInv, NEW r \in Runs, N!resumeNativeStage(r)
  PROVE  Leaves(tables, tables', held')
  <1> DEFINE stage == [state |-> "waiting_for_parent", attempt |-> 0]
  <1>1. tables \in BridgeTables /\ held \in Holds /\ \A q \in Runs : RunOk(tables, held, q)
    BY DEF BridgeInv
  <1>2. \A q \in Runs : RunFits(tables, held, q) /\ WaitOk(tables, q)
    BY <1>1 DEF RunOk
  <1>3. stage \in StageRows /\ "waiting_for_parent_session" \in RunStates
    BY DEF StageRows, RunStates
  <1>4. tables' = [tables EXCEPT !.stage[r] = stage, !.run[r] = "waiting_for_parent_session"]
        /\ held' = held
    BY DEF N!resumeNativeStage
  <1> HIDE DEF stage
  <1>5. tables' \in Swept(tables, held)
    BY <1>1, <1>2, <1>3, <1>4, StageMoved DEF Swept
  <1> QED
    BY <1>1, <1>4, <1>5, SweptLeaves

LEMMA WorkspaceFailed ==
  ASSUME BridgeInv, NEW s \in Sessions, NEW d, N!recordNativeAttemptWorkspaceFailure(s, d)
  PROVE  Leaves(tables, tables', held')
  <1>1. tables \in BridgeTables /\ held \in Holds /\ \A q \in Runs : RunOk(tables, held, q)
    BY DEF BridgeInv
  <1>2. d \in N!Dispatches(tables)
    BY Zenon DEF BridgeInv, PollsFit, N!recordNativeAttemptWorkspaceFailure
  <1>3. tables' \in Swept(tables, held)
    BY <1>1, <1>2, Redispatched, Zenon DEF N!recordNativeAttemptWorkspaceFailure
  <1>4. held' = held
    BY DEF N!recordNativeAttemptWorkspaceFailure
  <1> QED
    BY <1>1, <1>3, <1>4, SweptLeaves

LEMMA SequenceMapped ==
  ASSUME NEW X, NEW q \in Seq(X), NEW p, p = [n \in DOMAIN q |-> p[n]],
         \A n \in DOMAIN q : p[n] \in X
  PROVE  p \in Seq(X) /\ Len(p) = Len(q)
  <1>1. DOMAIN q = 1..Len(q) /\ Len(q) \in Nat
    OBVIOUS
  <1>2. p \in [1..Len(q) -> X]
    BY <1>1
  <1> QED
    BY <1>1, <1>2

LEMMA RowTaken ==
  ASSUME NEW row \in DispatchRows, NEW s \in Sessions
  PROVE  /\ [N!Moved(row, row.state) EXCEPT !.session = s] \in DispatchRows
         /\ [N!Moved(row, row.state) EXCEPT !.session = s].state = row.state
         /\ [N!Moved(row, row.state) EXCEPT !.session = s].rev = row.rev + 1
  <1> DEFINE moved == N!Moved(row, row.state)
  <1>1. row.state \in {"dispatched", "waiting_on_user", "abandoned", "submitted", "revoked"}
    BY DEF DispatchRows
  <1>2. moved \in DispatchRows /\ moved.state = row.state /\ moved.rev = row.rev + 1
    BY <1>1, RowMoved
  <1> HIDE DEF moved
  <1>3. /\ [moved EXCEPT !.session = s] \in DispatchRows
        /\ [moved EXCEPT !.session = s].state = row.state
        /\ [moved EXCEPT !.session = s].rev = row.rev + 1
    BY <1>2 DEF DispatchRows
  <1> QED
    BY <1>3 DEF moved

(* the dispatches a fresh session takes over, each told to its parent *)
TakenOver(T, U, H, G, s, taken) ==
  /\ U.question = T.question /\ U.stage = T.stage /\ U.run = T.run /\ G \in Holds
  /\ \A r \in Runs :
       /\ Len(U.dispatch[r]) = Len(T.dispatch[r])
       /\ \A n \in 1..Len(T.dispatch[r]) : U.dispatch[r][n] =
            IF <<r, n>> \in taken
            THEN [N!Moved(T.dispatch[r][n], T.dispatch[r][n].state) EXCEPT !.session = s]
            ELSE T.dispatch[r][n]
  /\ \A d \in Runs \X (1..MaxAttempts) : G[d] = IF d \in taken THEN H[d] + 1 ELSE H[d]

LEMMA TakingKeeps ==
  ASSUME NEW T \in BridgeTables, NEW H \in Holds, \A r \in Runs : RunOk(T, H, r),
         NEW U \in BridgeTables, NEW G, NEW s \in Sessions,
         NEW taken \in SUBSET N!Dispatches(T), TakenOver(T, U, H, G, s, taken)
  PROVE  Leaves(T, U, G)
  <1>1. SUFFICES ASSUME NEW r \in Runs
                 PROVE  /\ RunOk(U, G, r)
                        /\ Len(U.dispatch[r]) >= Len(T.dispatch[r])
                        /\ \A n \in 1..Len(T.dispatch[r]) :
                             U.dispatch[r][n].state = "submitted"
                               => T.dispatch[r][n].state = "submitted"
    BY DEF Leaves, Steady
  <1>2. /\ Len(T.dispatch[r]) \in Nat /\ DOMAIN T.dispatch[r] = 1..Len(T.dispatch[r])
        /\ \A n \in 1..Len(T.dispatch[r]) : T.dispatch[r][n] \in DispatchRows
        /\ MaxAttempts \in Nat
    BY TablesTyped, BridgeAssumption
  <1>3. RunFits(T, H, r) /\ RowsFit(T, H, r) /\ WaitOk(T, r)
    BY DEF RunOk, RunFits
  <1>4. Len(T.dispatch[r]) <= MaxAttempts
    BY <1>3 DEF RowsFit
  <1>5. ASSUME NEW n \in 1..Len(T.dispatch[r])
        PROVE  /\ <<r, n>> \in Runs \X (1..MaxAttempts)
               /\ H[<<r, n>>] \in Nat /\ T.dispatch[r][n].rev \in Nat
               /\ H[<<r, n>>] <= T.dispatch[r][n].rev
    BY <1>2, <1>3, <1>4 DEF RowsFit, Holds, DispatchRows
  <1>6. ASSUME NEW n \in 1..Len(T.dispatch[r])
        PROVE  /\ U.dispatch[r][n].state = T.dispatch[r][n].state
               /\ \/ U.dispatch[r][n].rev = T.dispatch[r][n].rev + 1
                     /\ G[<<r, n>>] = H[<<r, n>>] + 1
                  \/ U.dispatch[r][n].rev = T.dispatch[r][n].rev
                     /\ G[<<r, n>>] = H[<<r, n>>]
    <2>1. CASE <<r, n>> \in taken
      <3> DEFINE row == [N!Moved(T.dispatch[r][n], T.dispatch[r][n].state) EXCEPT !.session = s]
      <3>1. row.state = T.dispatch[r][n].state /\ row.rev = T.dispatch[r][n].rev + 1
        BY <1>2, RowTaken
      <3>2. U.dispatch[r][n] = row
        BY <2>1 DEF TakenOver
      <3>3. G[<<r, n>>] = H[<<r, n>>] + 1
        BY <1>5, <2>1 DEF TakenOver
      <3> HIDE DEF row
      <3> QED
        BY <3>1, <3>2, <3>3
    <2>2. CASE <<r, n>> \notin taken
      BY <1>5, <2>2 DEF TakenOver
    <2> QED
      BY <2>1, <2>2
  <1>7. ASSUME NEW n \in 1..Len(T.dispatch[r])
        PROVE  /\ U.dispatch[r][n].rev >= T.dispatch[r][n].rev
               /\ G[<<r, n>>] <= U.dispatch[r][n].rev
               /\ U.dispatch[r][n].state = "dispatched" => T.dispatch[r][n].state = "dispatched"
               /\ U.dispatch[r][n].state \in N!Open =>
                    /\ T.dispatch[r][n].state \in N!Open
                    /\ H[<<r, n>>] < T.dispatch[r][n].rev => G[<<r, n>>] < U.dispatch[r][n].rev
    <2> DEFINE old == T.dispatch[r][n].rev
               new == U.dispatch[r][n].rev
               was == H[<<r, n>>]
               is == G[<<r, n>>]
    <2>1. old \in Nat /\ was \in Nat /\ was <= old
      BY <1>5
    <2>2. (new = old + 1 /\ is = was + 1) \/ (new = old /\ is = was)
      BY <1>6
    <2>3. U.dispatch[r][n].state = T.dispatch[r][n].state
      BY <1>6
    <2> HIDE DEF old, new, was, is
    <2>4. new >= old /\ is <= new /\ (was < old => is < new)
      BY <2>1, <2>2
    <2> QED
      BY <2>3, <2>4 DEF old, new, was, is
  <1>8. ASSUME NEW n \in 1..MaxAttempts, n > Len(T.dispatch[r])
        PROVE  G[<<r, n>>] = 0
    <2>1. <<r, n>> \notin N!Dispatches(T)
      BY <1>2, <1>8 DEF N!Dispatches
    <2> QED
      BY <1>3, <1>8, <2>1 DEF TakenOver, RowsFit
  <1>9. RunFits(U, G, r)
    <2>1. /\ Len(U.dispatch[r]) = Len(T.dispatch[r]) /\ U.question[r] = T.question[r]
          /\ G \in Holds
      BY DEF TakenOver
    <2> QED
      BY <1>3, <1>7, <1>8, <2>1, DispatchesMoved
  <1>10. WaitOk(U, r)
    BY <1>3 DEF WaitOk, TakenOver
  <1>11. Len(U.dispatch[r]) = Len(T.dispatch[r])
    BY DEF TakenOver
  <1>12. Len(U.dispatch[r]) >= Len(T.dispatch[r])
    BY <1>2, <1>11
  <1>13. \A n \in 1..Len(T.dispatch[r]) :
           U.dispatch[r][n].state = "submitted" => T.dispatch[r][n].state = "submitted"
    BY <1>6
  <1> QED
    BY <1>9, <1>10, <1>12, <1>13 DEF RunOk

LEMMA SessionAttached ==
  ASSUME BridgeInv, NEW s \in Sessions, NEW previous,
         NEW resumed \in SUBSET N!Dispatches(tables),
         N!attachParentSession(s, previous, resumed)
  PROVE  Leaves(tables, tables', held') /\ held' \in Holds
  <1>1. tables \in BridgeTables /\ held \in Holds /\ \A r \in Runs : RunOk(tables, held, r)
    BY Zenon DEF BridgeInv
  <1> DEFINE T(said) == N!reapExpirations(tables, said)
             minted(said) == [T(said) EXCEPT !.session[s] = [state |-> "attached", late |-> FALSE]]
             took(said) == {d \in resumed : /\ T(said).dispatch[d[1]][d[2]].session \in previous
                                            /\ T(said).dispatch[d[1]][d[2]].state \in N!Open}
             sessions(M) == [p \in Sessions |-> IF p \in previous
                               THEN [M.session[p] EXCEPT !.state = "superseded"] ELSE M.session[p]]
             row(M, taken, r, n) ==
               IF <<r, n>> \in taken
               THEN [N!Moved(M.dispatch[r][n], M.dispatch[r][n].state) EXCEPT !.session = s]
               ELSE M.dispatch[r][n]
             rows(M, taken) ==
               [r \in Runs |-> [n \in DOMAIN M.dispatch[r] |-> row(M, taken, r, n)]]
  <1>2. PICK said \in N!Heard :
          /\ tables' = [minted(said) EXCEPT !.session = sessions(minted(said)),
                                            !.dispatch = rows(minted(said), took(said))]
          /\ held' = [d \in DOMAIN held |-> IF d \in took(said) THEN held[d] + 1 ELSE held[d]]
    BY Zenon DEF N!attachParentSession
  <1> DEFINE S == T(said)
             M == minted(said)
             taken == took(said)
  <1>3. S \in Swept(tables, held)
    BY <1>1, Reaped
  <1>4. S \in BridgeTables /\ (\A r \in Runs : RunOk(S, held, r)) /\ Later(tables, S)
    BY <1>3 DEF Swept
  <1>5. taken \in SUBSET N!Dispatches(S)
    <2>1. N!Dispatches(S) = N!Dispatches(tables)
      BY <1>4, SameDispatches
    <2> QED
      BY <2>1
  <1> HIDE DEF S, taken
  <1>6. /\ M \in BridgeTables /\ M.dispatch = S.dispatch /\ M.question = S.question
        /\ M.stage = S.stage /\ M.run = S.run
    <2>1. [state |-> "attached", late |-> FALSE] \in SessionRows
      BY DEF SessionRows
    <2>2. M = [S EXCEPT !.session[s] = [state |-> "attached", late |-> FALSE]]
      BY DEF S
    <2> HIDE DEF M
    <2> QED
      BY <1>4, <2>1, <2>2, SessionWritten
  <1>7. /\ tables' = [M EXCEPT !.session = sessions(M), !.dispatch = rows(M, taken)]
        /\ held' = [d \in DOMAIN held |-> IF d \in taken THEN held[d] + 1 ELSE held[d]]
    BY <1>2 DEF S, taken
  <1> HIDE DEF M, T, minted, took
  <1>8. sessions(M) \in [Sessions -> SessionRows]
    <2>1. \A p \in Sessions : M.session[p] \in SessionRows
      BY <1>6 DEF BridgeTables
    <2>2. \A e \in SessionRows : [e EXCEPT !.state = "superseded"] \in SessionRows
      BY DEF SessionRows
    <2> QED
      BY <2>1, <2>2
  <1>9. \A r \in Runs : /\ rows(M, taken)[r] \in Seq(DispatchRows)
                        /\ Len(rows(M, taken)[r]) = Len(M.dispatch[r])
    <2>1. SUFFICES ASSUME NEW r \in Runs
                   PROVE  /\ rows(M, taken)[r] \in Seq(DispatchRows)
                          /\ Len(rows(M, taken)[r]) = Len(M.dispatch[r])
      OBVIOUS
    <2> DEFINE p == [n \in DOMAIN M.dispatch[r] |-> row(M, taken, r, n)]
    <2>2. M.dispatch[r] \in Seq(DispatchRows)
          /\ \A n \in DOMAIN M.dispatch[r] : M.dispatch[r][n] \in DispatchRows
      BY <1>6, TablesTyped
    <2>3. \A n \in DOMAIN M.dispatch[r] : row(M, taken, r, n) \in DispatchRows
      BY <2>2, RowTaken
    <2>4. rows(M, taken)[r] = p
      OBVIOUS
    <2> HIDE DEF row, rows
    <2>5. p = [n \in DOMAIN M.dispatch[r] |-> p[n]]
          /\ \A n \in DOMAIN M.dispatch[r] : p[n] \in DispatchRows
      BY <2>3
    <2> HIDE DEF p
    <2>6. p \in Seq(DispatchRows) /\ Len(p) = Len(M.dispatch[r])
      BY <2>2, <2>5, SequenceMapped
    <2> QED
      BY <2>4, <2>6
  <1>10. \A r \in Runs : \A n \in 1..Len(M.dispatch[r]) :
           rows(M, taken)[r][n] = row(M, taken, r, n)
    <2>1. \A r \in Runs : DOMAIN M.dispatch[r] = 1..Len(M.dispatch[r])
      BY <1>6, TablesTyped
    <2> HIDE DEF row
    <2> QED
      BY <2>1
  <1>11. rows(M, taken) \in [Runs -> Seq(DispatchRows)]
    <2> HIDE DEF row
    <2> QED
      BY <1>9, Zenon
  <1> DEFINE SS == sessions(M)
             DD == rows(M, taken)
  <1>12. /\ tables' \in BridgeTables /\ tables'.dispatch = DD /\ tables'.question = M.question
         /\ tables'.stage = M.stage /\ tables'.run = M.run
    <2> HIDE DEF SS, DD
    <2> QED
      BY <1>6, <1>7, <1>8, <1>11, Zenon DEF BridgeTables, SS, DD
  <1>13. held' \in Holds
         /\ \A d \in Runs \X (1..MaxAttempts) :
              held'[d] = IF d \in taken THEN held[d] + 1 ELSE held[d]
    <2> HIDE DEF sessions, rows
    <2> QED
      BY <1>1, <1>7 DEF Holds
  <1>14. TakenOver(S, tables', held, held', s, taken)
    <2>1. \A r \in Runs :
            /\ Len(tables'.dispatch[r]) = Len(S.dispatch[r])
            /\ \A n \in 1..Len(S.dispatch[r]) : tables'.dispatch[r][n] = row(S, taken, r, n)
      BY <1>6, <1>9, <1>10, <1>12
    <2> HIDE DEF rows, sessions
    <2> QED
      BY <1>6, <1>12, <1>13, <2>1, Zenon DEF TakenOver
  <1>15. Leaves(S, tables', held')
    <2> HIDE DEF rows, sessions, row, DD
    <2> QED
      BY <1>1, <1>4, <1>5, <1>12, <1>14, TakingKeeps
  <1> HIDE DEF rows, sessions, row, DD
  <1> QED
    BY <1>1, <1>3, <1>13, <1>15, LeavesAfter

LEMMA SessionDetached ==
  ASSUME BridgeInv, NEW s \in Sessions, NEW listed \in SUBSET N!Dispatches(tables),
         NEW notStarted, N!detachParentSession(s, listed, notStarted)
  PROVE  Leaves(tables, tables', held')
  <1>1. tables \in BridgeTables /\ held \in Holds /\ \A r \in Runs : RunOk(tables, held, r)
    BY DEF BridgeInv
  <1> DEFINE T(said) == N!reapExpirations(tables, said)
             own(said) == {d \in listed : T(said).dispatch[d[1]][d[2]].session = s}
             released(said) == N!FoldSet(LAMBDA d, acc : N!releaseDispatch(acc, d, notStarted),
                                         T(said), own(said))
  <1>2. PICK said \in N!Heard :
          tables' = [released(said) EXCEPT !.session[s] = [@ EXCEPT !.state = "detached"]]
    BY Zenon DEF N!detachParentSession
  <1> DEFINE S == T(said)
             W == N!FoldSet(LAMBDA d, acc : N!releaseDispatch(acc, d, notStarted), S, own(said))
             row == [W.session[s] EXCEPT !.state = "detached"]
  <1>3. S \in Swept(tables, held)
    BY <1>1, Reaped
  <1>4. S \in BridgeTables /\ (\A r \in Runs : RunOk(S, held, r)) /\ Later(tables, S)
    BY <1>3 DEF Swept
  <1>5. own(said) \subseteq N!Dispatches(S)
    <2>1. N!Dispatches(S) = N!Dispatches(tables)
      BY <1>4, SameDispatches, Zenon
    <2> QED
      BY <2>1
  <1>6. tables' = [W EXCEPT !.session[s] = row]
    BY <1>2, Zenon
  <1> HIDE DEF own, released, S
  <1>7. Releases(W, S, own(said), notStarted)
    BY Zenon DEF Releases
  <1>8. W \in Swept(S, held)
    <2> HIDE DEF W
    <2> QED
      BY <1>1, <1>4, <1>5, <1>7, ReleaseFold
  <1> HIDE DEF W
  <1>9. W \in BridgeTables /\ (\A r \in Runs : RunOk(W, held, r)) /\ Later(S, W)
    BY <1>8 DEF Swept
  <1>10. row \in SessionRows
    BY <1>9 DEF BridgeTables, SessionRows
  <1> HIDE DEF row
  <1>11. /\ tables' \in BridgeTables /\ tables'.dispatch = W.dispatch
         /\ tables'.question = W.question /\ tables'.stage = W.stage /\ tables'.run = W.run
    BY <1>6, <1>9, <1>10, SessionWritten
  <1>12. \A r \in Runs : WaitOk(tables', r)
    BY <1>9, <1>11 DEF WaitOk, RunOk
  <1>13. (\A r \in Runs : RunOk(tables', held, r)) /\ Later(W, tables')
    BY <1>1, <1>9, <1>11, <1>12, SameRows
  <1>14. Later(tables, tables')
    BY <1>4, <1>9, <1>13, LaterCompose, Zenon
  <1>15. held' = held
    BY Zenon DEF N!detachParentSession
  <1> QED
    BY <1>1, <1>11, <1>13, <1>14, <1>15, LaterIsSteady DEF Leaves

(* the tables after a claim: the next attempt of each claimed stage *)
Claims(T, U, s, claimed) ==
  /\ U \in BridgeTables /\ U.question = T.question
  /\ \A r \in claimed :
       /\ U.run[r] = "running"
       /\ U.dispatch[r] = Append(T.dispatch[r],
            [session |-> s, state |-> "dispatched", rev |-> 1, outcome |-> "none",
             attempt |-> "running", workspace |-> FALSE])
  /\ \A r \in Runs \ claimed :
       U.run[r] = T.run[r] /\ U.stage[r] = T.stage[r] /\ U.dispatch[r] = T.dispatch[r]

LEMMA ClaimWritten ==
  ASSUME NEW T \in BridgeTables, NEW s \in Sessions, NEW claimed \in SUBSET Runs
  PROVE  Claims(T, N!claim(T, s, claimed), s, claimed)
  <1> DEFINE row == [session |-> s, state |-> "dispatched", rev |-> 1, outcome |-> "none",
                     attempt |-> "running", workspace |-> FALSE]
             stages == [r \in Runs |-> IF r \in claimed
                THEN [state |-> "dispatched", attempt |-> Len(T.dispatch[r]) + 1] ELSE T.stage[r]]
             rows == [r \in Runs |-> IF r \in claimed THEN Append(T.dispatch[r], row)
                                                       ELSE T.dispatch[r]]
             runs == [r \in Runs |-> IF r \in claimed THEN "running" ELSE T.run[r]]
             U == N!claim(T, s, claimed)
  <1>1. U = [T EXCEPT !.stage = stages, !.dispatch = rows, !.run = runs]
    BY DEF N!claim
  <1>2. row \in DispatchRows
    BY DEF DispatchRows
  <1>3. \A r \in Runs : /\ T.dispatch[r] \in Seq(DispatchRows) /\ Len(T.dispatch[r]) \in Nat
                        /\ T.stage[r] \in StageRows /\ T.run[r] \in RunStates
    BY TablesTyped
  <1>4. stages \in [Runs -> StageRows]
    <2>1. \A k \in Nat : [state |-> "dispatched", attempt |-> k + 1] \in StageRows
      BY DEF StageRows
    <2> QED
      BY <1>3, <2>1
  <1>5. rows \in [Runs -> Seq(DispatchRows)]
    <2> HIDE DEF row
    <2>1. \A r \in Runs : Append(T.dispatch[r], row) \in Seq(DispatchRows)
      BY <1>2, <1>3
    <2> QED
      BY <1>3, <2>1
  <1>6. runs \in [Runs -> RunStates]
    <2>1. "running" \in RunStates
      BY DEF RunStates
    <2> QED
      BY <1>3, <2>1
  <1>7. \A r \in claimed : runs[r] = "running" /\ rows[r] = Append(T.dispatch[r], row)
    <2> HIDE DEF row
    <2> QED
      OBVIOUS
  <1>8. \A r \in Runs \ claimed :
          runs[r] = T.run[r] /\ stages[r] = T.stage[r] /\ rows[r] = T.dispatch[r]
    <2> HIDE DEF row
    <2> QED
      OBVIOUS
  <1> HIDE DEF stages, rows, runs, U
  <1>9. /\ U \in BridgeTables /\ U.question = T.question /\ U.stage = stages
        /\ U.dispatch = rows /\ U.run = runs
    BY <1>1, <1>4, <1>5, <1>6 DEF BridgeTables
  <1>10. Claims(T, U, s, claimed)
    BY <1>7, <1>8, <1>9 DEF Claims
  <1> QED
    BY <1>10 DEF U

(* a new attempt nobody was told of *)
LEMMA DispatchAppended ==
  ASSUME NEW T \in BridgeTables, NEW U \in BridgeTables, NEW H \in Holds, NEW r \in Runs,
         RunFits(T, H, r), Len(T.dispatch[r]) < MaxAttempts, U.question[r] = T.question[r],
         NEW row \in DispatchRows, row.rev = 1, U.dispatch[r] = Append(T.dispatch[r], row)
  PROVE  /\ RunFits(U, H, r) /\ Len(U.dispatch[r]) = Len(T.dispatch[r]) + 1
         /\ \A n \in 1..Len(T.dispatch[r]) : U.dispatch[r][n] = T.dispatch[r][n]
  <1>1. RowsFit(T, H, r) /\ AskedOnce(T, r) /\ AnswerFences(T, H, r)
    BY DEF RunFits
  <1>2. /\ T.dispatch[r] \in Seq(DispatchRows)
        /\ Len(T.dispatch[r]) \in Nat /\ DOMAIN T.dispatch[r] = 1..Len(T.dispatch[r])
        /\ Len(U.dispatch[r]) \in Nat /\ DOMAIN U.dispatch[r] = 1..Len(U.dispatch[r])
        /\ MaxAttempts \in Nat
    BY TablesTyped, BridgeAssumption
  <1>3. /\ Len(U.dispatch[r]) = Len(T.dispatch[r]) + 1
        /\ \A n \in 1..Len(T.dispatch[r]) : U.dispatch[r][n] = T.dispatch[r][n]
        /\ U.dispatch[r][Len(T.dispatch[r]) + 1] = row
    BY <1>2
  <1>4. ASSUME NEW i \in DOMAIN U.question[r]
        PROVE  /\ i \in DOMAIN T.question[r] /\ U.question[r][i] = T.question[r][i]
               /\ T.question[r][i].dispatch \in DOMAIN T.dispatch[r]
               /\ T.question[r][i].dispatch \in DOMAIN U.dispatch[r]
               /\ U.dispatch[r][T.question[r][i].dispatch] = T.dispatch[r][T.question[r][i].dispatch]
               /\ T.dispatch[r][T.question[r][i].dispatch].rev > 1
    <2>1. i \in DOMAIN T.question[r] /\ U.question[r][i] = T.question[r][i]
      BY Zenon
    <2>2. T.question[r][i].dispatch \in DOMAIN T.dispatch[r]
          /\ T.dispatch[r][T.question[r][i].dispatch].rev > 1
      BY <1>1, <2>1 DEF RowsFit
    <2> DEFINE n == T.question[r][i].dispatch
    <2> HIDE DEF n
    <2>3. n \in DOMAIN T.dispatch[r] => n \in DOMAIN U.dispatch[r]
                                        /\ U.dispatch[r][n] = T.dispatch[r][n]
      BY <1>2, <1>3
    <2> QED
      BY <2>1, <2>2, <2>3 DEF n
  <1>5. RowsFit(U, H, r)
    <2>1. Len(U.dispatch[r]) <= MaxAttempts /\ Len(U.question[r]) <= MaxQuestions
      BY <1>1, <1>2, <1>3 DEF RowsFit
    <2>2. ASSUME NEW n \in DOMAIN U.dispatch[r]
          PROVE  U.dispatch[r][n].rev > 0 /\ H[<<r, n>>] <= U.dispatch[r][n].rev
      <3>1. CASE n \in 1..Len(T.dispatch[r])
        BY <1>1, <1>2, <1>3, <3>1 DEF RowsFit
      <3>2. CASE n = Len(T.dispatch[r]) + 1
        <4>1. n \in 1..MaxAttempts /\ n > Len(T.dispatch[r])
          BY <1>2, <3>2
        <4>2. H[<<r, n>>] = 0
          BY <1>1, <4>1 DEF RowsFit
        <4> QED
          BY <1>3, <3>2, <4>2
      <3> QED
        BY <1>2, <1>3, <3>1, <3>2
    <2>3. \A n \in 1..MaxAttempts : n > Len(U.dispatch[r]) => H[<<r, n>>] = 0
      <3>1. SUFFICES ASSUME NEW n \in 1..MaxAttempts, n > Len(U.dispatch[r])
                     PROVE  H[<<r, n>>] = 0
        OBVIOUS
      <3>2. n > Len(T.dispatch[r])
        BY <1>2, <1>3, <3>1
      <3> QED
        BY <1>1, <3>2 DEF RowsFit
    <2>4. \A i \in DOMAIN U.question[r] :
            /\ U.question[r][i].dispatch \in DOMAIN U.dispatch[r]
            /\ U.dispatch[r][U.question[r][i].dispatch].rev > 1
      BY <1>4, Zenon
    <2> QED
      BY <2>1, <2>2, <2>3, <2>4 DEF RowsFit
  <1>6. AskedOnce(U, r)
    BY <1>1, <1>4 DEF AskedOnce
  <1>7. AnswerFences(U, H, r)
    BY <1>1, <1>4, Zenon DEF AnswerFences
  <1> QED
    BY <1>3, <1>5, <1>6, <1>7 DEF RunFits

(* no stage that is claimed has used up its attempts *)
HasRoom(T, claimed) == \A r \in claimed : Len(T.dispatch[r]) < MaxAttempts

(* one more dispatch for each claimed stage, the others as they were *)
OneMore(T, U, claimed) ==
  /\ \A r \in claimed : Len(U.dispatch[r]) = Len(T.dispatch[r]) + 1
  /\ \A r \in Runs : \A n \in 1..Len(T.dispatch[r]) :
       U.dispatch[r][n] = T.dispatch[r][n]

LEMMA ClaimKeeps ==
  ASSUME NEW T \in BridgeTables, NEW H \in Holds, \A r \in Runs : RunOk(T, H, r),
         NEW s \in Sessions, NEW claimed \in SUBSET Runs,
         HasRoom(T, claimed), NEW U, Claims(T, U, s, claimed)
  PROVE  Leaves(T, U, H) /\ U.question = T.question /\ OneMore(T, U, claimed)
  <1> DEFINE row == [session |-> s, state |-> "dispatched", rev |-> 1, outcome |-> "none",
                     attempt |-> "running", workspace |-> FALSE]
  <1>1. row \in DispatchRows /\ row.rev = 1
    BY DEF DispatchRows
  <1>2. \A r \in claimed : U.dispatch[r] = Append(T.dispatch[r], row) /\ U.run[r] = "running"
    BY DEF Claims
  <1> HIDE DEF row
  <1>3. U \in BridgeTables /\ U.question = T.question
    BY DEF Claims
  <1>4. \A r \in Runs : RunFits(T, H, r) /\ WaitOk(T, r) /\ Len(T.dispatch[r]) \in Nat
    BY TablesTyped DEF RunOk
  <1>5. ASSUME NEW r \in claimed
        PROVE  /\ RunOk(U, H, r) /\ Len(U.dispatch[r]) = Len(T.dispatch[r]) + 1
               /\ \A n \in 1..Len(T.dispatch[r]) : U.dispatch[r][n] = T.dispatch[r][n]
    <2>1. /\ RunFits(U, H, r) /\ Len(U.dispatch[r]) = Len(T.dispatch[r]) + 1
          /\ \A n \in 1..Len(T.dispatch[r]) : U.dispatch[r][n] = T.dispatch[r][n]
      BY <1>1, <1>2, <1>3, <1>4, DispatchAppended DEF HasRoom
    <2>2. WaitOk(U, r)
      BY <1>2 DEF WaitOk
    <2> QED
      BY <2>1, <2>2 DEF RunOk
  <1>6. ASSUME NEW r \in Runs \ claimed
        PROVE  RunOk(U, H, r) /\ U.dispatch[r] = T.dispatch[r]
    <2>1. U.dispatch[r] = T.dispatch[r] /\ U.stage[r] = T.stage[r] /\ U.run[r] = T.run[r]
      BY DEF Claims
    <2> QED
      BY <1>3, <2>1, RunUntouched
  <1>7. \A r \in Runs : /\ Len(U.dispatch[r]) >= Len(T.dispatch[r])
                        /\ \A n \in 1..Len(T.dispatch[r]) :
                             U.dispatch[r][n] = T.dispatch[r][n]
    BY <1>4, <1>5, <1>6
  <1>8. Steady(T, U)
    BY <1>7 DEF Steady
  <1>9. Leaves(T, U, H)
    BY <1>3, <1>5, <1>6, <1>8 DEF Leaves
  <1> QED
    BY <1>3, <1>5, <1>7, <1>9 DEF OneMore

(* the answers in due are handed over *)
HandsOver(T, U, due) ==
  /\ U \in BridgeTables
  /\ U.dispatch = T.dispatch /\ U.stage = T.stage /\ U.run = T.run
  /\ \A r \in Runs :
       /\ Len(U.question[r]) = Len(T.question[r])
       /\ \A i \in 1..Len(T.question[r]) : U.question[r][i] =
            IF <<r, i>> \in due THEN [T.question[r][i] EXCEPT !.delivery = "delivered"]
                                ELSE T.question[r][i]

LEMMA DeliveryWritten ==
  ASSUME NEW T \in BridgeTables, NEW due
  PROVE  HandsOver(T, N!deliver(T, due), due)
  <1> DEFINE asked(r, i) == IF <<r, i>> \in due
                            THEN [T.question[r][i] EXCEPT !.delivery = "delivered"]
                            ELSE T.question[r][i]
             entry(r, i) == IF <<r, i>> \in due THEN N!Replay(T.replayed[r][i], "delivered")
                                                ELSE T.replayed[r][i]
             questions == [r \in Runs |-> [i \in DOMAIN T.question[r] |-> asked(r, i)]]
             journal == [r \in Runs |-> [i \in DOMAIN T.replayed[r] |-> entry(r, i)]]
             U == N!deliver(T, due)
  <1>1. U = [T EXCEPT !.question = questions, !.replayed = journal]
    BY DEF N!deliver
  <1>2. ASSUME NEW r \in Runs
        PROVE  /\ questions[r] \in Seq(QuestionRows) /\ journal[r] \in Seq(Events)
               /\ Len(questions[r]) = Len(T.question[r])
               /\ \A i \in 1..Len(T.question[r]) : questions[r][i] = asked(r, i)
    <2>1. /\ T.question[r] \in Seq(QuestionRows) /\ T.replayed[r] \in Seq(Events)
          /\ DOMAIN T.question[r] = 1..Len(T.question[r])
          /\ \A i \in DOMAIN T.question[r] : T.question[r][i] \in QuestionRows
      BY TablesTyped
    <2>2. \A i \in DOMAIN T.replayed[r] : T.replayed[r][i] \in Events
      BY <2>1
    <2> DEFINE q == [i \in DOMAIN T.question[r] |-> asked(r, i)]
               j == [i \in DOMAIN T.replayed[r] |-> entry(r, i)]
    <2>3. \A i \in DOMAIN T.question[r] : asked(r, i) \in QuestionRows
      <3>1. \A e \in QuestionRows : [e EXCEPT !.delivery = "delivered"] \in QuestionRows
        BY DEF QuestionRows
      <3> QED
        BY <2>1, <3>1
    <2>4. \A i \in DOMAIN T.replayed[r] : entry(r, i) \in Events
      BY <2>2, Replayed
    <2>5. questions[r] = q /\ journal[r] = j
      OBVIOUS
    <2> HIDE DEF asked, entry
    <2>6. q = [i \in DOMAIN T.question[r] |-> q[i]] /\ j = [i \in DOMAIN T.replayed[r] |-> j[i]]
          /\ (\A i \in DOMAIN T.question[r] : q[i] = asked(r, i))
          /\ (\A i \in DOMAIN T.replayed[r] : j[i] = entry(r, i))
      OBVIOUS
    <2> HIDE DEF q, j, questions, journal
    <2>7. q \in Seq(QuestionRows) /\ Len(q) = Len(T.question[r])
      <3>1. \A i \in DOMAIN T.question[r] : q[i] \in QuestionRows
        BY <2>3, <2>6
      <3>2. T.question[r] \in Seq(QuestionRows) /\ q = [i \in DOMAIN T.question[r] |-> q[i]]
        BY <2>1, <2>6
      <3> QED
        BY <3>1, <3>2, SequenceMapped
    <2>8. j \in Seq(Events)
      BY <2>1, <2>4, <2>6, SequenceMapped
    <2> QED
      BY <2>1, <2>5, <2>6, <2>7, <2>8
  <1>3. questions \in [Runs -> Seq(QuestionRows)] /\ journal \in [Runs -> Seq(Events)]
    <2> HIDE DEF asked, entry
    <2> QED
      BY <1>2
  <1> HIDE DEF questions, journal, U
  <1>4. /\ U \in BridgeTables /\ U.dispatch = T.dispatch /\ U.stage = T.stage /\ U.run = T.run
        /\ U.question = questions
    BY <1>1, <1>3 DEF BridgeTables
  <1>5. HandsOver(T, U, due)
    BY <1>2, <1>4 DEF HandsOver
  <1> QED
    BY <1>5 DEF U

(* the dispatches whose answers are handed over, and what their parents hold then *)
OwedBy(S, due) == {<<q[1], S.question[q[1]][q[2]].dispatch>> : q \in due}
HeldAfter(S, H, owed) ==
  [d \in DOMAIN H |-> IF d \in owed THEN S.dispatch[d[1]][d[2]].rev ELSE H[d]]

LEMMA DeliveryKeeps ==
  ASSUME NEW S \in BridgeTables, NEW T \in BridgeTables, NEW H \in Holds,
         \A r \in Runs : RunOk(S, H, r), \A r \in Runs : RunOk(T, H, r),
         T.question = S.question,
         \A r \in Runs : \A n \in 1..Len(S.dispatch[r]) : T.dispatch[r][n] = S.dispatch[r][n],
         NEW s, NEW due, due = N!dueResumes(S, s),
         NEW owed, owed = OwedBy(S, due), NEW G, G = HeldAfter(S, H, owed),
         NEW U, HandsOver(T, U, due)
  PROVE  Leaves(T, U, G) /\ G \in Holds /\ U.dispatch = T.dispatch
  <1>1. /\ U \in BridgeTables
        /\ U.dispatch = T.dispatch /\ U.stage = T.stage /\ U.run = T.run
    BY DEF HandsOver
  <1>2. MaxAttempts \in Nat /\ MaxQuestions \in Nat
    BY BridgeAssumption
  <1>3. ASSUME NEW r \in Runs
        PROVE  /\ RowsFit(S, H, r) /\ RowsFit(T, H, r) /\ AskedOnce(T, r)
               /\ AnswerFences(T, H, r) /\ WaitOk(T, r)
               /\ Len(S.dispatch[r]) \in Nat /\ DOMAIN S.dispatch[r] = 1..Len(S.dispatch[r])
               /\ Len(T.dispatch[r]) \in Nat /\ DOMAIN T.dispatch[r] = 1..Len(T.dispatch[r])
               /\ Len(S.question[r]) \in Nat /\ DOMAIN S.question[r] = 1..Len(S.question[r])
               /\ Len(S.question[r]) <= MaxQuestions /\ Len(S.dispatch[r]) <= MaxAttempts
               /\ \A n \in DOMAIN S.dispatch[r] : S.dispatch[r][n].rev \in Nat
               /\ \A i \in DOMAIN S.question[r] : S.question[r][i] \in QuestionRows
               /\ DOMAIN U.question[r] = DOMAIN S.question[r]
    <2>1. RowsFit(S, H, r) /\ RowsFit(T, H, r) /\ AskedOnce(T, r)
          /\ AnswerFences(T, H, r) /\ WaitOk(T, r)
      BY DEF RunOk, RunFits
    <2>2. /\ Len(S.dispatch[r]) \in Nat /\ DOMAIN S.dispatch[r] = 1..Len(S.dispatch[r])
          /\ Len(T.dispatch[r]) \in Nat /\ DOMAIN T.dispatch[r] = 1..Len(T.dispatch[r])
          /\ Len(S.question[r]) \in Nat /\ DOMAIN S.question[r] = 1..Len(S.question[r])
      BY TablesTyped
    <2>3. /\ \A n \in DOMAIN S.dispatch[r] : S.dispatch[r][n].rev \in Nat
          /\ \A i \in DOMAIN S.question[r] : S.question[r][i] \in QuestionRows
      BY TablesTyped, Zenon DEF DispatchRows
    <2>4. Len(S.question[r]) <= MaxQuestions /\ Len(S.dispatch[r]) <= MaxAttempts
      BY <2>1 DEF RowsFit
    <2>5. DOMAIN U.question[r] = 1..Len(U.question[r])
          /\ Len(U.question[r]) = Len(T.question[r])
      BY <1>1, TablesTyped, Zenon DEF HandsOver
    <2> QED
      BY <2>1, <2>2, <2>3, <2>4, <2>5
  <1>4. \A q \in due : /\ q[1] \in Runs /\ q[2] \in 1..Len(S.question[q[1]])
                       /\ S.question[q[1]][q[2]].state = "answered"
                       /\ S.dispatch[q[1]][S.question[q[1]][q[2]].dispatch].session = s
    <2>1. SUFFICES ASSUME NEW q \in due
                   PROVE  /\ q[1] \in Runs /\ q[2] \in 1..Len(S.question[q[1]])
                          /\ S.question[q[1]][q[2]].state = "answered"
                          /\ S.dispatch[q[1]][S.question[q[1]][q[2]].dispatch].session = s
      OBVIOUS
    <2>2. /\ q \in Runs \X (1..MaxQuestions) /\ q[2] <= Len(S.question[q[1]])
          /\ S.question[q[1]][q[2]].state = "answered"
          /\ S.dispatch[q[1]][S.question[q[1]][q[2]].dispatch].session = s
      BY <2>1, Zenon DEF N!dueResumes
    <2>3. q[1] \in Runs /\ q[2] \in 1..MaxQuestions /\ Len(S.question[q[1]]) \in Nat
      BY <1>3, <2>2, Zenon
    <2> QED
      BY <1>2, <2>2, <2>3
  <1>5. \A r \in Runs : \A i \in DOMAIN S.question[r] :
          (/\ S.question[r][i].state = "answered" /\ S.question[r][i].delivery = "pending"
           /\ S.dispatch[r][S.question[r][i].dispatch].session = s) => <<r, i>> \in due
    <2>1. SUFFICES ASSUME NEW r \in Runs, NEW i \in DOMAIN S.question[r],
                          S.question[r][i].state = "answered",
                          S.question[r][i].delivery = "pending",
                          S.dispatch[r][S.question[r][i].dispatch].session = s
                   PROVE  <<r, i>> \in due
      OBVIOUS
    <2>2. i \in 1..MaxQuestions /\ i <= Len(S.question[r])
      BY <1>2, <1>3
    <2> QED
      BY <2>1, <2>2, Zenon DEF N!dueResumes
  <1>6. \A r \in Runs : \A n : <<r, n>> \in owed =>
          n \in 1..Len(S.dispatch[r]) /\ S.dispatch[r][n].session = s
    <2>1. SUFFICES ASSUME NEW r \in Runs, NEW n, <<r, n>> \in owed
                   PROVE  n \in 1..Len(S.dispatch[r]) /\ S.dispatch[r][n].session = s
      OBVIOUS
    <2>2. PICK q \in due : <<r, n>> = <<q[1], S.question[q[1]][q[2]].dispatch>>
      BY <2>1, Zenon DEF OwedBy
    <2>3. q[1] = r /\ n = S.question[r][q[2]].dispatch /\ q[2] \in DOMAIN S.question[r]
          /\ S.dispatch[r][n].session = s
      BY <1>3, <1>4, <2>2, Zenon
    <2>4. n \in DOMAIN S.dispatch[r]
      BY <1>3, <2>3 DEF RowsFit
    <2> QED
      BY <1>3, <2>3, <2>4
  <1>7. G \in Holds
    <2>1. DOMAIN H = Runs \X (1..MaxAttempts)
      BY DEF Holds
    <2>2. ASSUME NEW d \in Runs \X (1..MaxAttempts)
          PROVE  (IF d \in owed THEN S.dispatch[d[1]][d[2]].rev ELSE H[d]) \in Nat
      <3>1. d[1] \in Runs /\ d = <<d[1], d[2]>> /\ H[d] \in Nat
        BY DEF Holds
      <3>2. CASE d \in owed
        <4>1. d[2] \in DOMAIN S.dispatch[d[1]]
          BY <1>3, <1>6, <3>1, <3>2
        <4> QED
          BY <1>3, <3>1, <3>2, <4>1
      <3>3. CASE d \notin owed
        BY <3>1, <3>3
      <3> QED
        BY <3>2, <3>3
    <2> QED
      BY <2>1, <2>2 DEF Holds, HeldAfter
  <1>8. \A r \in Runs, n \in 1..MaxAttempts :
          G[<<r, n>>] = IF <<r, n>> \in owed THEN S.dispatch[r][n].rev ELSE H[<<r, n>>]
    BY DEF Holds, HeldAfter
  <1>9. ASSUME NEW r \in Runs, NEW i \in DOMAIN S.question[r]
        PROVE  /\ U.question[r][i].dispatch = S.question[r][i].dispatch
               /\ U.question[r][i].state = S.question[r][i].state
               /\ <<r, i>> \in due => U.question[r][i].delivery = "delivered"
               /\ <<r, i>> \notin due => U.question[r][i] = S.question[r][i]
               /\ S.question[r][i].dispatch \in 1..Len(S.dispatch[r])
    <2>1. S.question[r][i] \in QuestionRows /\ i \in 1..Len(T.question[r])
      BY <1>3
    <2>2. U.question[r][i] =
            IF <<r, i>> \in due THEN [S.question[r][i] EXCEPT !.delivery = "delivered"]
                                ELSE S.question[r][i]
      BY <2>1 DEF HandsOver
    <2>3. \A e \in QuestionRows :
            /\ [e EXCEPT !.delivery = "delivered"].dispatch = e.dispatch
            /\ [e EXCEPT !.delivery = "delivered"].state = e.state
            /\ [e EXCEPT !.delivery = "delivered"].delivery = "delivered"
      BY Zenon DEF QuestionRows
    <2>4. S.question[r][i].dispatch \in 1..Len(S.dispatch[r])
      BY <1>3 DEF RowsFit
    <2> QED
      BY <2>1, <2>2, <2>3, <2>4
  <1>10. ASSUME NEW r \in Runs PROVE RowsFit(U, G, r)
    <2>1. Len(U.dispatch[r]) <= MaxAttempts /\ Len(U.question[r]) <= MaxQuestions
      BY <1>1, <1>3 DEF RowsFit, HandsOver
    <2>2. ASSUME NEW n \in DOMAIN U.dispatch[r]
          PROVE  U.dispatch[r][n].rev > 0 /\ G[<<r, n>>] <= U.dispatch[r][n].rev
      <3>1. /\ n \in DOMAIN T.dispatch[r] /\ T.dispatch[r][n].rev > 0
            /\ H[<<r, n>>] <= T.dispatch[r][n].rev
        BY <1>1, <1>3, Zenon DEF RowsFit
      <3>2. n \in 1..MaxAttempts
        BY <1>2, <1>3, <3>1 DEF RowsFit
      <3>3. CASE <<r, n>> \in owed
        <4>1. n \in 1..Len(S.dispatch[r])
          BY <1>6, <3>3
        <4>2. G[<<r, n>>] = T.dispatch[r][n].rev /\ T.dispatch[r][n].rev \in Nat
          BY <1>3, <1>8, <3>2, <3>3, <4>1
        <4> QED
          BY <1>1, <3>1, <4>2
      <3>4. CASE <<r, n>> \notin owed
        BY <1>1, <1>8, <3>1, <3>2, <3>4
      <3> QED
        BY <3>3, <3>4, Zenon
    <2>3. ASSUME NEW n \in 1..MaxAttempts, n > Len(U.dispatch[r])
          PROVE  G[<<r, n>>] = 0
      <3>1. H[<<r, n>>] = 0
        BY <1>1, <1>3, <2>3 DEF RowsFit
      <3>2. <<r, n>> \notin owed
        <4>1. SUFFICES ASSUME <<r, n>> \in owed PROVE FALSE
          BY Zenon
        <4>2. S.dispatch[r][n].rev > 0 /\ n \in 1..Len(S.dispatch[r])
          BY <1>3, <1>6, <4>1 DEF RowsFit
        <4>3. PICK q \in due : <<r, n>> = <<q[1], S.question[q[1]][q[2]].dispatch>>
          BY <4>1, Zenon DEF OwedBy
        <4>4. q[1] = r /\ q[2] \in DOMAIN T.question[r] /\ n = T.question[r][q[2]].dispatch
          BY <1>3, <1>4, <4>3, Zenon
        <4>5. n \in DOMAIN T.dispatch[r]
          BY <1>3, <4>4 DEF RowsFit
        <4> QED
          BY <1>1, <1>3, <2>3, <4>5
      <3> QED
        BY <1>8, <3>1, <3>2, Zenon
    <2>4. ASSUME NEW i \in DOMAIN U.question[r]
          PROVE  /\ U.question[r][i].dispatch \in DOMAIN U.dispatch[r]
                 /\ U.dispatch[r][U.question[r][i].dispatch].rev > 1
      <3>1. i \in DOMAIN S.question[r] /\ i \in DOMAIN T.question[r]
        BY <1>3, <2>4, Zenon
      <3>2. /\ S.question[r][i].dispatch \in DOMAIN T.dispatch[r]
            /\ T.dispatch[r][S.question[r][i].dispatch].rev > 1
        <4>1. RowsFit(T, H, r)
          BY <1>3
        <4> QED
          BY <3>1, <4>1 DEF RowsFit
      <3>3. U.question[r][i].dispatch = S.question[r][i].dispatch
        BY <1>9, <3>1
      <3> QED
        BY <1>1, <3>2, <3>3
    <2> QED
      BY <2>1, <2>2, <2>3, <2>4, Zenon DEF RowsFit
  <1>11. ASSUME NEW r \in Runs PROVE AskedOnce(U, r)
    <2>1. AskedOnce(T, r) /\ DOMAIN U.question[r] = DOMAIN S.question[r]
      BY <1>3
    <2>2. \A i \in DOMAIN S.question[r] :
            /\ U.question[r][i].dispatch = S.question[r][i].dispatch
            /\ U.question[r][i].state = S.question[r][i].state
      BY <1>9
    <2> QED
      BY <1>1, <2>1, <2>2 DEF AskedOnce
  <1>12. ASSUME NEW r \in Runs PROVE AnswerFences(U, G, r)
    <2>1. SUFFICES ASSUME NEW i \in DOMAIN U.question[r],
                          U.question[r][i].state = "answered",
                          U.question[r][i].delivery = "pending",
                          U.dispatch[r][U.question[r][i].dispatch].state \in N!Open
                   PROVE  G[<<r, U.question[r][i].dispatch>>]
                            < U.dispatch[r][U.question[r][i].dispatch].rev
      BY DEF AnswerFences
    <2> DEFINE n == S.question[r][i].dispatch
    <2>2. i \in DOMAIN S.question[r] /\ <<r, i>> \notin due
      BY <1>3, <1>9, <2>1
    <2>3. U.question[r][i] = S.question[r][i] /\ n \in 1..Len(S.dispatch[r])
      BY <1>9, <2>2, Zenon
    <2>4. S.dispatch[r][n].session # s
      BY <1>5, <2>1, <2>2, <2>3
    <2>5. <<r, n>> \notin owed
      BY <1>6, <2>4
    <2>6. n \in 1..MaxAttempts
      BY <1>2, <1>3, <2>3
    <2>7. G[<<r, n>>] = H[<<r, n>>]
      BY <1>8, <2>5, <2>6, Zenon
    <2>8. H[<<r, n>>] < T.dispatch[r][n].rev
      <3>1. AnswerFences(T, H, r) /\ i \in DOMAIN T.question[r]
        BY <1>3, <2>2
      <3>2. /\ T.question[r][i].state = "answered" /\ T.question[r][i].delivery = "pending"
            /\ T.dispatch[r][T.question[r][i].dispatch].state \in N!Open
            /\ T.question[r][i].dispatch = n
        BY <1>1, <2>1, <2>3
      <3> HIDE DEF n
      <3> QED
        BY <3>1, <3>2 DEF AnswerFences
    <2> QED
      BY <1>1, <2>3, <2>7, <2>8
  <1>13. ASSUME NEW r \in Runs PROVE WaitOk(U, r)
    <2>1. WaitOk(T, r) /\ DOMAIN U.question[r] = DOMAIN S.question[r]
      BY <1>3
    <2>2. \A i \in DOMAIN S.question[r] : U.question[r][i].state = S.question[r][i].state
      BY <1>9
    <2> QED
      BY <1>1, <2>1, <2>2 DEF WaitOk
  <1>14. Steady(T, U)
    <2>1. \A r \in Runs : Len(U.dispatch[r]) >= Len(T.dispatch[r])
      BY <1>1, <1>3
    <2> QED
      BY <1>1, <2>1 DEF Steady
  <1> QED
    BY <1>1, <1>7, <1>10, <1>11, <1>12, <1>13, <1>14 DEF Leaves, RunOk, RunFits

LEMMA PollKeeps ==
  ASSUME BridgeInv, NEW s \in Sessions, NEW claimed \in SUBSET Runs,
         N!pollNativeBridge(s, claimed)
  PROVE  Leaves(tables, tables', held') /\ held' \in Holds /\ PollsFit(serving', tables')
  <1>1. /\ tables \in BridgeTables /\ held \in Holds /\ \A r \in Runs : RunOk(tables, held, r)
        /\ PollsFit(serving, tables)
    BY DEF BridgeInv
  <1> DEFINE T(said) == N!reapExpirations(tables, said)
             renewed(said) == [T(said) EXCEPT !.session[s] = [state |-> "attached", late |-> FALSE]]
             due(said) == N!dueResumes(T(said), s)
             owed(said) == {<<q[1], T(said).question[q[1]][q[2]].dispatch>> : q \in due(said)}
             poll(said) == [todo |-> {<<r, Len(T(said).dispatch[r]) + 1>> : r \in claimed},
                            done |-> {}, busy |-> claimed # {}]
  <1>2. PICK said \in N!Heard :
          /\ \A r \in claimed : Len(T(said).dispatch[r]) < MaxAttempts
          /\ tables' = N!deliver(N!claim(renewed(said), s, claimed), due(said))
          /\ serving' = [serving EXCEPT ![s] = poll(said)]
          /\ held' = [d \in DOMAIN held |->
                IF d \in owed(said) THEN T(said).dispatch[d[1]][d[2]].rev ELSE held[d]]
    BY DEF N!pollNativeBridge
  <1> DEFINE S == T(said)
             M == renewed(said)
             K == N!claim(M, s, claimed)
  <1>3. S \in Swept(tables, held)
    BY <1>1, Reaped
  <1>4. S \in BridgeTables /\ (\A r \in Runs : RunOk(S, held, r)) /\ Later(tables, S)
    BY <1>3 DEF Swept
  <1> HIDE DEF S
  <1>5. /\ M \in BridgeTables /\ M.dispatch = S.dispatch /\ M.question = S.question
        /\ M.stage = S.stage /\ M.run = S.run
    <2>1. [state |-> "attached", late |-> FALSE] \in SessionRows
      BY DEF SessionRows
    <2>2. M = [S EXCEPT !.session[s] = [state |-> "attached", late |-> FALSE]]
      BY DEF S
    <2> HIDE DEF M
    <2> QED
      BY <1>4, <2>1, <2>2, SessionWritten
  <1> DEFINE D == due(said)
             O == owed(said)
             P1 == poll(said)
  <1>6. /\ D = N!dueResumes(S, s)
        /\ O = OwedBy(S, D)
        /\ P1 = [todo |-> {<<r, Len(S.dispatch[r]) + 1>> : r \in claimed},
                 done |-> {}, busy |-> claimed # {}]
        /\ held' = HeldAfter(S, held, O)
        /\ \A r \in claimed : Len(S.dispatch[r]) < MaxAttempts
        /\ serving' = [serving EXCEPT ![s] = P1]
    BY <1>2 DEF S, OwedBy, HeldAfter
  <1>7. tables' = N!deliver(K, D)
    BY <1>2
  <1> HIDE DEF M, D, O, P1, T, renewed, due, owed, poll
  <1>8. \A r \in Runs : RunOk(M, held, r)
    <2>1. \A r \in Runs : WaitOk(M, r)
      BY <1>4, <1>5 DEF RunOk, WaitOk
    <2> QED
      BY <1>1, <1>4, <1>5, <2>1, SameRows
  <1>9. Claims(M, K, s, claimed)
    BY <1>5, ClaimWritten
  <1> HIDE DEF K
  <1>10. /\ Leaves(M, K, held) /\ K.question = M.question
         /\ \A r \in claimed : Len(K.dispatch[r]) = Len(M.dispatch[r]) + 1
         /\ \A r \in Runs : \A n \in 1..Len(M.dispatch[r]) :
              K.dispatch[r][n] = M.dispatch[r][n]
    <2>1. HasRoom(M, claimed)
      BY <1>5, <1>6 DEF HasRoom
    <2>2. Leaves(M, K, held) /\ K.question = M.question /\ OneMore(M, K, claimed)
      BY <1>1, <1>5, <1>8, <1>9, <2>1, ClaimKeeps
    <2> QED
      BY <2>2 DEF OneMore
  <1>11. K \in BridgeTables /\ (\A r \in Runs : RunOk(K, held, r)) /\ Steady(M, K)
    BY <1>10 DEF Leaves
  <1>12. HandsOver(K, tables', D)
    BY <1>7, <1>11, DeliveryWritten
  <1>13. Leaves(K, tables', held') /\ held' \in Holds /\ tables'.dispatch = K.dispatch
    <2>1. K.question = S.question
      BY <1>5, <1>10
    <2>2. \A r \in Runs : \A n \in 1..Len(S.dispatch[r]) : K.dispatch[r][n] = S.dispatch[r][n]
      BY <1>5, <1>10
    <2> QED
      BY <1>1, <1>4, <1>6, <1>11, <1>12, <2>1, <2>2, DeliveryKeeps
  <1>14. tables' \in BridgeTables /\ (\A r \in Runs : RunOk(tables', held', r))
    BY <1>13 DEF Leaves
  <1>15. Steady(S, tables')
    BY <1>5, <1>11, <1>13 DEF Steady
  <1>16. Leaves(tables, tables', held')
    BY <1>1, <1>4, <1>14, <1>15, SteadyAfter DEF Leaves
  <1>17. PollsFit(serving', tables')
    <2>1. PollsFit(serving, tables')
      BY <1>1, <1>14, <1>16, PollsKept DEF Leaves
    <2>2. P1.todo \subseteq N!Dispatches(tables')
      <3>1. SUFFICES ASSUME NEW r \in claimed
                     PROVE  <<r, Len(S.dispatch[r]) + 1>> \in N!Dispatches(tables')
        BY <1>6
      <3>2. /\ Len(S.dispatch[r]) \in Nat /\ Len(S.dispatch[r]) < MaxAttempts
            /\ Len(tables'.dispatch[r]) = Len(S.dispatch[r]) + 1 /\ MaxAttempts \in Nat
        BY <1>4, <1>5, <1>6, <1>10, <1>13, TablesTyped, BridgeAssumption
      <3>3. Len(S.dispatch[r]) + 1 \in 1..MaxAttempts
            /\ Len(S.dispatch[r]) + 1 <= Len(tables'.dispatch[r])
        BY <3>2
      <3> QED
        BY <3>3 DEF N!Dispatches
    <2>3. P1.done = {} /\ P1 = [todo |-> P1.todo, done |-> P1.done, busy |-> P1.busy]
          /\ P1.busy \in BOOLEAN
      BY <1>6
    <2>4. P1 \in Polls
      <3>1. N!Dispatches(tables') \subseteq Runs \X (1..MaxAttempts)
        BY DEF N!Dispatches
      <3> QED
        BY <2>2, <2>3, <3>1 DEF Polls
    <2> QED
      BY <1>6, <2>1, <2>2, <2>3, <2>4 DEF PollsFit
  <1> QED
    BY <1>13, <1>16, <1>17

(* one dispatch's row replaced *)
RowIs(T, U, d, row) ==
  /\ U \in BridgeTables /\ U.session = T.session /\ U.stage = T.stage
  /\ U.question = T.question /\ U.run = T.run
  /\ \A q \in Runs : q # d[1] => U.dispatch[q] = T.dispatch[q]
  /\ Len(U.dispatch[d[1]]) = Len(T.dispatch[d[1]])
  /\ \A m \in 1..Len(T.dispatch[d[1]]) :
       U.dispatch[d[1]][m] = IF m = d[2] THEN row ELSE T.dispatch[d[1]][m]

LEMMA RowChanged ==
  ASSUME NEW T \in BridgeTables, NEW H \in Holds, \A r \in Runs : RunFits(T, H, r),
         NEW d \in N!Dispatches(T), NEW row \in DispatchRows,
         row.rev >= T.dispatch[d[1]][d[2]].rev,
         row.state = T.dispatch[d[1]][d[2]].state \/ row.state \notin N!Open,
         NEW U, U = [T EXCEPT !.dispatch[d[1]][d[2]] = row]
  PROVE  RowIs(T, U, d, row) /\ \A r \in Runs : RunFits(U, H, r)
  <1> DEFINE r == d[1]
             n == d[2]
  <1>1. /\ r \in Runs /\ n \in DOMAIN T.dispatch[r] /\ n \in 1..Len(T.dispatch[r])
    BY DispatchRow
  <1>2. RowIs(T, U, d, row)
    BY <1>1, RowReplaced DEF RowIs
  <1>3. /\ U \in BridgeTables /\ U.question = T.question
        /\ \A q \in Runs : q # r => U.dispatch[q] = T.dispatch[q]
        /\ Len(U.dispatch[r]) = Len(T.dispatch[r])
        /\ \A m \in 1..Len(T.dispatch[r]) :
             U.dispatch[r][m] = IF m = n THEN row ELSE T.dispatch[r][m]
    BY <1>2 DEF RowIs
  <1>4. row.rev >= T.dispatch[r][n].rev
        /\ (row.state = T.dispatch[r][n].state \/ row.state \notin N!Open)
    OBVIOUS
  <1> HIDE DEF r, n
  <1>5. RunFits(T, H, r) /\ RowsFit(T, H, r)
    BY <1>1, Zenon DEF RunFits
  <1>6. /\ Len(T.dispatch[r]) \in Nat /\ DOMAIN T.dispatch[r] = 1..Len(T.dispatch[r])
        /\ Len(T.dispatch[r]) <= MaxAttempts /\ MaxAttempts \in Nat
        /\ \A m \in 1..Len(T.dispatch[r]) : T.dispatch[r][m].rev \in Nat
        /\ row.rev \in Nat
    BY <1>1, <1>5, TablesTyped, BridgeAssumption DEF RowsFit, DispatchRows
  <1>7. ASSUME NEW m \in 1..Len(T.dispatch[r])
        PROVE  H[<<r, m>>] <= T.dispatch[r][m].rev /\ H[<<r, m>>] \in Nat
    <2>1. m \in 1..MaxAttempts /\ m \in DOMAIN T.dispatch[r]
      BY <1>6
    <2> QED
      BY <1>1, <1>5, <2>1 DEF RowsFit, Holds
  <1>8. ASSUME NEW m \in 1..Len(T.dispatch[r])
        PROVE  /\ U.dispatch[r][m].rev >= T.dispatch[r][m].rev
               /\ H[<<r, m>>] <= U.dispatch[r][m].rev
               /\ U.dispatch[r][m].state = "dispatched" => T.dispatch[r][m].state = "dispatched"
               /\ U.dispatch[r][m].state \in N!Open =>
                    /\ T.dispatch[r][m].state \in N!Open
                    /\ H[<<r, m>>] < T.dispatch[r][m].rev => H[<<r, m>>] < U.dispatch[r][m].rev
    <2>1. CASE m = n
      <3>1. U.dispatch[r][m] = row
        BY <1>3, <2>1
      <3>2. /\ row.rev >= T.dispatch[r][m].rev /\ row.rev \in Nat
            /\ T.dispatch[r][m].rev \in Nat /\ H[<<r, m>>] \in Nat
            /\ H[<<r, m>>] <= T.dispatch[r][m].rev
        BY <1>4, <1>6, <1>7, <2>1
      <3>3. /\ H[<<r, m>>] <= row.rev
            /\ H[<<r, m>>] < T.dispatch[r][m].rev => H[<<r, m>>] < row.rev
        BY <3>2
      <3>4. row.state = T.dispatch[r][m].state
            \/ (row.state \notin N!Open /\ row.state # "dispatched")
        BY <1>4, <2>1 DEF N!Open
      <3> QED
        BY <3>1, <3>2, <3>3, <3>4
    <2>2. CASE m # n
      <3>1. U.dispatch[r][m] = T.dispatch[r][m]
        BY <1>3, <2>2
      <3> QED
        BY <1>6, <1>7, <3>1
    <2> QED
      BY <2>1, <2>2
  <1>9. \A m \in 1..MaxAttempts : m > Len(T.dispatch[r]) => H[<<r, m>>] = 0
    BY <1>5, Zenon DEF RowsFit
  <1>10. RunFits(U, H, r)
    <2>1. U \in BridgeTables /\ Len(U.dispatch[r]) = Len(T.dispatch[r])
          /\ U.question[r] = T.question[r]
      BY <1>3
    <2> QED
      BY <1>1, <1>5, <1>8, <1>9, <2>1, DispatchesMoved, Zenon
  <1>11. \A q \in Runs : q # r => RunFits(U, H, q)
    BY <1>3, RunUntouched
  <1> QED
    BY <1>2, <1>10, <1>11

(* the rest of a run's rows say as much of the user it waits for *)
LEMMA RowKeeps ==
  ASSUME NEW T \in BridgeTables, NEW H \in Holds, \A r \in Runs : RunOk(T, H, r),
         NEW U, NEW d, NEW row, RowIs(T, U, d, row), \A r \in Runs : RunFits(U, H, r)
  PROVE  \A r \in Runs : RunOk(U, H, r) /\ Len(U.dispatch[r]) = Len(T.dispatch[r])
  <1>1. \A r \in Runs : WaitOk(U, r)
    BY DEF RowIs, RunOk, WaitOk
  <1>2. \A r \in Runs : Len(U.dispatch[r]) = Len(T.dispatch[r])
    BY DEF RowIs
  <1> QED
    BY <1>1, <1>2 DEF RunOk

(* a row that was not submitted now *)
LEMMA RowIsSteady ==
  ASSUME NEW T \in BridgeTables, NEW U, NEW d \in N!Dispatches(T), NEW row, RowIs(T, U, d, row),
         row.state = "submitted" => T.dispatch[d[1]][d[2]].state = "submitted"
  PROVE  Steady(T, U)
  <1>1. SUFFICES ASSUME NEW r \in Runs
                 PROVE  /\ Len(U.dispatch[r]) >= Len(T.dispatch[r])
                        /\ \A n \in 1..Len(T.dispatch[r]) :
                             U.dispatch[r][n].state = "submitted"
                               => T.dispatch[r][n].state = "submitted"
    BY DEF Steady
  <1>2. Len(T.dispatch[r]) \in Nat
    BY TablesTyped
  <1>3. CASE r = d[1]
    <2>1. /\ Len(U.dispatch[r]) = Len(T.dispatch[r])
          /\ \A n \in 1..Len(T.dispatch[r]) :
               U.dispatch[r][n] = IF n = d[2] THEN row ELSE T.dispatch[r][n]
      BY <1>3 DEF RowIs
    <2>2. row.state = "submitted" => T.dispatch[r][d[2]].state = "submitted"
      BY <1>3
    <2>3. ASSUME NEW n \in 1..Len(T.dispatch[r]), U.dispatch[r][n].state = "submitted"
          PROVE  T.dispatch[r][n].state = "submitted"
      <3>1. CASE n = d[2]
        BY <2>1, <2>2, <2>3, <3>1
      <3>2. CASE n # d[2]
        BY <2>1, <2>3, <3>2
      <3> QED
        BY <3>1, <3>2
    <2>4. Len(U.dispatch[r]) >= Len(T.dispatch[r])
      BY <1>2, <2>1
    <2> QED
      BY <2>3, <2>4
  <1>4. CASE r # d[1]
    BY <1>2, <1>4 DEF RowIs
  <1> QED
    BY <1>3, <1>4

LEMMA WorkspaceAssigned ==
  ASSUME BridgeInv, NEW s \in Sessions, NEW d, N!assignNativeAttemptWorkspace(s, d)
  PROVE  Leaves(tables, tables', held')
  <1> DEFINE row == [tables.dispatch[d[1]][d[2]] EXCEPT !.workspace = TRUE]
  <1>1. tables \in BridgeTables /\ held \in Holds /\ \A q \in Runs : RunOk(tables, held, q)
    BY DEF BridgeInv
  <1>2. d \in N!Dispatches(tables) /\ held' = held
    BY DEF BridgeInv, PollsFit, N!assignNativeAttemptWorkspace
  <1>3. tables.dispatch[d[1]][d[2]] \in DispatchRows
    BY <1>1, <1>2, DispatchRow
  <1>4. /\ row \in DispatchRows /\ row.state = tables.dispatch[d[1]][d[2]].state
        /\ row.rev = tables.dispatch[d[1]][d[2]].rev /\ row.rev \in Nat
    BY <1>3 DEF DispatchRows
  <1>5. tables' = [tables EXCEPT !.dispatch[d[1]][d[2]] = row]
    BY DEF N!assignNativeAttemptWorkspace
  <1> HIDE DEF row
  <1>6. \A q \in Runs : RunFits(tables, held, q)
    BY <1>1 DEF RunOk
  <1>7. row.rev >= tables.dispatch[d[1]][d[2]].rev
    BY <1>4
  <1>8. RowIs(tables, tables', d, row) /\ \A r \in Runs : RunFits(tables', held, r)
    BY <1>1, <1>2, <1>4, <1>5, <1>6, <1>7, RowChanged
  <1>9. \A r \in Runs : RunOk(tables', held, r)
    BY <1>1, <1>8, RowKeeps
  <1>10. Steady(tables, tables')
    BY <1>1, <1>2, <1>4, <1>8, RowIsSteady
  <1> QED
    BY <1>2, <1>8, <1>9, <1>10 DEF Leaves, RowIs

LEMMA ArtifactFinalized ==
  ASSUME BridgeInv, NEW d \in N!Dispatches(tables), N!finalizeStageArtifact(d)
  PROVE  /\ Leaves(tables, tables', held') /\ tables'.run[d[1]] = "succeeded"
         /\ held' \in Holds
  <1>1. tables \in BridgeTables /\ held \in Holds /\ \A q \in Runs : RunOk(tables, held, q)
    BY DEF BridgeInv
  <1>2. tables' = [tables EXCEPT !.run[d[1]] = "succeeded"] /\ held' = held /\ d[1] \in Runs
    BY <1>1, DispatchRow DEF N!finalizeStageArtifact
  <1>3. [tables.run EXCEPT ![d[1]] = "succeeded"] \in [Runs -> RunStates]
    BY <1>1, <1>2 DEF BridgeTables, RunStates
  <1>4. /\ tables' \in BridgeTables /\ tables'.dispatch = tables.dispatch
        /\ tables'.question = tables.question /\ tables'.stage = tables.stage
        /\ tables'.run = [tables.run EXCEPT ![d[1]] = "succeeded"]
    BY <1>1, <1>2, <1>3 DEF BridgeTables
  <1>5. \A q \in Runs : tables'.run[q] = IF q = d[1] THEN "succeeded" ELSE tables.run[q]
    BY <1>1, <1>4 DEF BridgeTables
  <1>6. \A q \in Runs : WaitOk(tables', q)
    BY <1>1, <1>4, <1>5 DEF WaitOk, RunOk
  <1>7. (\A q \in Runs : RunOk(tables', held, q)) /\ Later(tables, tables')
    BY <1>1, <1>4, <1>6, SameRows
  <1>8. Steady(tables, tables')
    BY <1>1, <1>7, LaterIsSteady
  <1> QED
    BY <1>1, <1>2, <1>4, <1>5, <1>7, <1>8 DEF Leaves

AttemptStates == {"running", "recovery_required", "cancelled", "failed", "succeeded"}

LEMMA AttemptWritten ==
  ASSUME NEW T \in BridgeTables, NEW d \in N!Dispatches(T),
         NEW attempt \in AttemptStates,
         NEW row, row = [T.dispatch[d[1]][d[2]] EXCEPT !.attempt = attempt]
  PROVE  /\ row \in DispatchRows /\ row.state = T.dispatch[d[1]][d[2]].state
         /\ row.rev = T.dispatch[d[1]][d[2]].rev /\ row.rev >= T.dispatch[d[1]][d[2]].rev
  <1>1. T.dispatch[d[1]][d[2]] \in DispatchRows
    BY DispatchRow, Zenon
  <1>2. /\ row \in DispatchRows /\ row.state = T.dispatch[d[1]][d[2]].state
        /\ row.rev = T.dispatch[d[1]][d[2]].rev /\ row.rev \in Nat
    BY <1>1 DEF DispatchRows, AttemptStates
  <1> QED
    BY <1>2

(* a stage is over and its run has an end *)
StageEnded(T, d, attempt, run) ==
  [T EXCEPT !.dispatch[d[1]][d[2]] = [@ EXCEPT !.attempt = attempt],
            !.stage[d[1]] = [state |-> "settled", attempt |-> 0],
            !.run[d[1]] = run]

(* the two transactions that settle a stage whose dispatch was submitted *)
LEMMA StageSettled ==
  ASSUME NEW T \in BridgeTables, NEW H \in Holds, \A r \in Runs : RunOk(T, H, r),
         NEW d \in N!Dispatches(T),
         NEW attempt \in AttemptStates,
         NEW run \in RunStates, run # "waiting_on_user"
  PROVE  Leaves(T, StageEnded(T, d, attempt, run), H)
  <1> DEFINE row == [T.dispatch[d[1]][d[2]] EXCEPT !.attempt = attempt]
             W == [T EXCEPT !.dispatch[d[1]][d[2]] = row]
             stage == [state |-> "settled", attempt |-> 0]
             U == [W EXCEPT !.stage[d[1]] = stage, !.run[d[1]] = run]
  <1>1. StageEnded(T, d, attempt, run) = U
    BY DEF StageEnded
  <1>2. d[1] \in Runs /\ stage \in StageRows
    BY DispatchRow DEF StageRows
  <1>3. /\ row \in DispatchRows /\ row.state = T.dispatch[d[1]][d[2]].state
        /\ row.rev >= T.dispatch[d[1]][d[2]].rev
    <2>1. row = [T.dispatch[d[1]][d[2]] EXCEPT !.attempt = attempt]
      OBVIOUS
    <2> HIDE DEF row
    <2> QED
      BY <2>1, AttemptWritten
  <1> HIDE DEF row, stage
  <1>4. \A q \in Runs : RunFits(T, H, q)
    BY Zenon DEF RunOk
  <1>5. RowIs(T, W, d, row) /\ \A r \in Runs : RunFits(W, H, r)
    BY <1>3, <1>4, RowChanged
  <1> HIDE DEF W
  <1>6. \A r \in Runs : RunFits(W, H, r)
    BY <1>5
  <1>7. \A r \in Runs : RunOk(W, H, r)
    BY <1>5, RowKeeps, Zenon
  <1>8. Steady(T, W) /\ W \in BridgeTables
    BY <1>3, <1>5, RowIsSteady DEF RowIs
  <1>9. \A q \in Runs : WaitOk(W, q)
    BY <1>7 DEF RunOk
  <1>10. /\ U \in BridgeTables /\ (\A r \in Runs : RunOk(U, H, r))
         /\ U.dispatch = W.dispatch
    <2>1. \A r \in Runs : r # d[1] => WaitOk(W, r)
      BY <1>9
    <2>2. U \in BridgeTables
      BY <1>2, <1>6, <1>8, <2>1, StageMoved
    <2>3. \A r \in Runs : RunOk(U, H, r)
      BY <1>2, <1>6, <1>8, <2>1, StageMoved
    <2>4. U.dispatch = W.dispatch
      BY <1>8 DEF BridgeTables
    <2> QED
      BY <2>2, <2>3, <2>4
  <1> HIDE DEF U
  <1>11. Steady(T, U)
    BY <1>8, <1>10, Zenon DEF Steady
  <1> QED
    BY <1>1, <1>10, <1>11 DEF Leaves

LEMMA ArtifactFailed ==
  ASSUME BridgeInv, NEW d \in N!Dispatches(tables), N!downgradeNativeAttemptToFailed(d)
  PROVE  Leaves(tables, tables', held')
  <1>1. /\ "failed" \in RunStates /\ "failed" \in AttemptStates /\ held' = held
        /\ "failed" # "waiting_on_user"
        /\ tables \in BridgeTables /\ held \in Holds /\ \A q \in Runs : RunOk(tables, held, q)
    BY DEF RunStates, AttemptStates, N!downgradeNativeAttemptToFailed, BridgeInv
  <1>2. tables' = StageEnded(tables, d, "failed", "failed")
    BY DEF N!downgradeNativeAttemptToFailed, StageEnded
  <1> QED
    BY <1>1, <1>2, StageSettled, Zenon

LEMMA OutcomeCompleted ==
  ASSUME BridgeInv, NEW d \in N!Dispatches(tables), N!completeNativeAttemptArtifactOutcome(d)
  PROVE  Leaves(tables, tables', held')
  <1>1. /\ "succeeded" \in RunStates /\ "succeeded" \in AttemptStates /\ held' = held
        /\ "succeeded" # "waiting_on_user"
        /\ tables \in BridgeTables /\ held \in Holds /\ \A q \in Runs : RunOk(tables, held, q)
    BY DEF RunStates, AttemptStates, N!completeNativeAttemptArtifactOutcome, BridgeInv
  <1>2. tables' = [tables EXCEPT !.dispatch[d[1]][d[2]] = [@ EXCEPT !.attempt = "succeeded"],
                                 !.stage[d[1]] = [state |-> "settled", attempt |-> 0]]
    BY DEF N!completeNativeAttemptArtifactOutcome
  <1>3. tables.run[d[1]] = "succeeded" /\ d[1] \in Runs
    BY <1>1, DispatchRow DEF N!completeNativeAttemptArtifactOutcome, BridgeInv
  <1>4. tables' = [tables EXCEPT !.dispatch[d[1]][d[2]] = [@ EXCEPT !.attempt = "succeeded"],
                                 !.stage[d[1]] = [state |-> "settled", attempt |-> 0],
                                 !.run[d[1]] = "succeeded"]
    <2>1. [tables.run EXCEPT ![d[1]] = "succeeded"] = tables.run
      BY <1>1, <1>3 DEF BridgeTables
    <2> QED
      BY <1>1, <1>2, <2>1 DEF BridgeTables
  <1>5. tables' = StageEnded(tables, d, "succeeded", "succeeded")
    BY <1>4, Zenon DEF StageEnded
  <1> QED
    BY <1>1, <1>5, StageSettled, Zenon

LEMMA PollAnswered ==
  ASSUME BridgeInv, NEW s \in Sessions, NEW lost \in BOOLEAN, N!PollReturns(s, lost)
  PROVE  Leaves(tables, tables', held') /\ held' \in Holds /\ PollsFit(serving', tables')
  <1>1. /\ tables \in BridgeTables /\ held \in Holds /\ \A q \in Runs : RunOk(tables, held, q)
        /\ PollsFit(serving, tables)
    BY DEF BridgeInv
  <1>2. /\ tables' = tables /\ serving' = [serving EXCEPT ![s] = N!NoPoll]
        /\ held' = [d \in DOMAIN held |->
              IF d \in serving[s].done /\ ~lost THEN 1 ELSE held[d]]
    BY DEF N!PollReturns
  <1>3. /\ held' \in Holds
        /\ \A d \in Runs \X (1..MaxAttempts) :
             held'[d] = IF d \in serving[s].done /\ ~lost THEN 1 ELSE held[d]
    BY <1>1, <1>2 DEF Holds
  <1>4. ASSUME NEW r \in Runs PROVE RunOk(tables, held', r)
    <2>1. /\ RowsFit(tables, held, r) /\ AskedOnce(tables, r)
          /\ AnswerFences(tables, held, r) /\ WaitOk(tables, r)
      BY <1>1 DEF RunOk, RunFits
    <2>2. /\ Len(tables.dispatch[r]) \in Nat /\ Len(tables.dispatch[r]) <= MaxAttempts
          /\ DOMAIN tables.dispatch[r] = 1..Len(tables.dispatch[r]) /\ MaxAttempts \in Nat
          /\ \A n \in DOMAIN tables.dispatch[r] : tables.dispatch[r][n].rev \in Nat
      BY <1>1, <2>1, TablesTyped, BridgeAssumption DEF RowsFit, DispatchRows
    <2>3. \A n \in 1..MaxAttempts :
            \/ held'[<<r, n>>] = held[<<r, n>>]
            \/ held'[<<r, n>>] = 1 /\ n \in DOMAIN tables.dispatch[r]
      <3>1. SUFFICES ASSUME NEW n \in 1..MaxAttempts,
                            held'[<<r, n>>] # held[<<r, n>>]
                     PROVE  held'[<<r, n>>] = 1 /\ n \in DOMAIN tables.dispatch[r]
        OBVIOUS
      <3>2. <<r, n>> \in serving[s].done /\ held'[<<r, n>>] = 1
        BY <1>3, <3>1
      <3>3. <<r, n>> \in N!Dispatches(tables)
        BY <1>1, <3>2 DEF PollsFit
      <3>4. n <= Len(tables.dispatch[r])
        BY <3>3, Zenon DEF N!Dispatches
      <3> QED
        BY <2>2, <3>2, <3>4
    <2>4. RowsFit(tables, held', r)
      <3>1. \A n \in DOMAIN tables.dispatch[r] : held'[<<r, n>>] <= tables.dispatch[r][n].rev
        <4>1. SUFFICES ASSUME NEW n \in DOMAIN tables.dispatch[r]
                       PROVE  held'[<<r, n>>] <= tables.dispatch[r][n].rev
          OBVIOUS
        <4>2. /\ n \in 1..MaxAttempts /\ held[<<r, n>>] <= tables.dispatch[r][n].rev
              /\ tables.dispatch[r][n].rev > 0 /\ tables.dispatch[r][n].rev \in Nat
          BY <2>1, <2>2, <4>1 DEF RowsFit
        <4>3. CASE held'[<<r, n>>] = 1
          BY <4>2, <4>3
        <4>4. CASE held'[<<r, n>>] # 1
          BY <2>3, <4>2, <4>4
        <4> QED
          BY <4>3, <4>4
      <3>2. \A n \in 1..MaxAttempts : n > Len(tables.dispatch[r]) => held'[<<r, n>>] = 0
        <4>1. \A n \in 1..MaxAttempts : n > Len(tables.dispatch[r]) =>
                n \notin DOMAIN tables.dispatch[r]
          BY <2>2
        <4> QED
          BY <2>1, <2>3, <4>1 DEF RowsFit
      <3> QED
        BY <2>1, <3>1, <3>2 DEF RowsFit
    <2>5. AnswerFences(tables, held', r)
      <3>1. SUFFICES ASSUME NEW i \in DOMAIN tables.question[r],
                            tables.question[r][i].state = "answered",
                            tables.question[r][i].delivery = "pending",
                            tables.dispatch[r][tables.question[r][i].dispatch].state \in N!Open
                     PROVE  held'[<<r, tables.question[r][i].dispatch>>]
                              < tables.dispatch[r][tables.question[r][i].dispatch].rev
        BY Zenon DEF AnswerFences
      <3> DEFINE n == tables.question[r][i].dispatch
      <3>2. /\ n \in DOMAIN tables.dispatch[r] /\ tables.dispatch[r][n].rev > 1
            /\ held[<<r, n>>] < tables.dispatch[r][n].rev
        BY <2>1, <3>1, Zenon DEF RowsFit, AnswerFences
      <3>3. n \in 1..MaxAttempts
        BY <2>2, <3>2
      <3> HIDE DEF n
      <3>4. held'[<<r, n>>] = held[<<r, n>>] \/ held'[<<r, n>>] = 1
        BY <2>3, <3>3
      <3>5. held'[<<r, n>>] < tables.dispatch[r][n].rev
        BY <3>2, <3>4
      <3> QED
        BY <3>5 DEF n
    <2> QED
      BY <2>1, <2>4, <2>5 DEF RunOk, RunFits
  <1>5. Steady(tables, tables')
    BY <1>1, <1>2, TablesTyped DEF Steady
  <1>6. PollsFit(serving', tables')
    <2>1. N!NoPoll \in Polls /\ N!NoPoll.todo = {} /\ N!NoPoll.done = {}
      BY DEF Polls, N!NoPoll
    <2> QED
      BY <1>1, <1>2, <2>1 DEF PollsFit
  <1> QED
    BY <1>1, <1>2, <1>3, <1>4, <1>5, <1>6 DEF Leaves

(* nothing but the dispatch d was submitted, and that one at the revision its parent holds *)
SubmitsOnly(T, U, H, d) ==
  /\ T.dispatch[d[1]][d[2]].state \in N!Open => T.dispatch[d[1]][d[2]].rev = H[d]
  /\ \A r \in Runs :
       /\ Len(U.dispatch[r]) >= Len(T.dispatch[r])
       /\ \A n \in 1..Len(T.dispatch[r]) :
            U.dispatch[r][n].state = "submitted" =>
              T.dispatch[r][n].state = "submitted" \/ <<r, n>> = d

LEMMA RowSubmitted ==
  ASSUME NEW row \in DispatchRows, NEW outcome \in N!SettledRun
  PROVE  /\ [N!Moved(row, "submitted") EXCEPT !.outcome = outcome] \in DispatchRows
         /\ [N!Moved(row, "submitted") EXCEPT !.outcome = outcome].state = "submitted"
         /\ [N!Moved(row, "submitted") EXCEPT !.outcome = outcome].rev = row.rev + 1
  <1> DEFINE moved == N!Moved(row, "submitted")
  <1>1. /\ moved \in DispatchRows /\ moved.state = "submitted" /\ moved.rev = row.rev + 1
    BY RowMoved
  <1> HIDE DEF moved
  <1>2. /\ [moved EXCEPT !.outcome = outcome] \in DispatchRows
        /\ [moved EXCEPT !.outcome = outcome].state = "submitted"
        /\ [moved EXCEPT !.outcome = outcome].rev = row.rev + 1
    BY <1>1 DEF DispatchRows, N!SettledRun
  <1> QED
    BY <1>2 DEF moved

LEMMA Submission ==
  ASSUME BridgeInv, NEW d \in N!Dispatches(tables), NEW outcome \in N!SettledRun,
         N!settleNativeDispatch(d, outcome)
  PROVE  /\ tables' \in BridgeTables /\ (\A r \in Runs : RunOk(tables', held, r))
         /\ held' = held /\ SubmitsOnly(tables, tables', held, d)
  <1>1. tables \in BridgeTables /\ held \in Holds /\ \A q \in Runs : RunOk(tables, held, q)
    BY Zenon DEF BridgeInv
  <1> DEFINE T(said) == N!reapExpirations(tables, said)
             row(said) == [N!Moved(T(said).dispatch[d[1]][d[2]], "submitted")
                             EXCEPT !.outcome = outcome]
             submitted(said) == [T(said) EXCEPT !.dispatch[d[1]][d[2]] = row(said)]
             settled(W) == [W EXCEPT !.dispatch[d[1]][d[2]] = [@ EXCEPT !.attempt = outcome],
                                     !.stage[d[1]] = [state |-> "settled", attempt |-> 0],
                                     !.run[d[1]] = outcome]
  <1>2. PICK said \in N!Heard :
          /\ N!validateDispatchFence(T(said), d)
          /\ tables' = IF outcome = "succeeded" THEN submitted(said) ELSE settled(submitted(said))
    BY Zenon DEF N!settleNativeDispatch
  <1>3. held' = held
    BY DEF N!settleNativeDispatch
  <1> DEFINE S == T(said)
             W == submitted(said)
             wrote == row(said)
  <1>4. S \in Swept(tables, held)
    BY <1>1, Reaped
  <1>5. S \in BridgeTables /\ (\A r \in Runs : RunOk(S, held, r)) /\ Later(tables, S)
    BY <1>4 DEF Swept
  <1>6. d \in N!Dispatches(S)
    BY <1>5, SameDispatches, Zenon
  <1>7. /\ W = [S EXCEPT !.dispatch[d[1]][d[2]] = wrote]
        /\ wrote = [N!Moved(S.dispatch[d[1]][d[2]], "submitted") EXCEPT !.outcome = outcome]
        /\ S.dispatch[d[1]][d[2]].state \in N!Open /\ S.dispatch[d[1]][d[2]].rev = held[d]
    BY <1>2 DEF N!validateDispatchFence
  <1> HIDE DEF S, W, wrote, T, row, submitted
  <1>8. /\ d[1] \in Runs /\ d[2] \in 1..Len(S.dispatch[d[1]])
        /\ S.dispatch[d[1]][d[2]] \in DispatchRows /\ d = <<d[1], d[2]>>
    BY <1>5, <1>6, DispatchRow
  <1>9. wrote \in DispatchRows /\ wrote.state = "submitted"
        /\ wrote.rev = S.dispatch[d[1]][d[2]].rev + 1
    BY <1>7, <1>8, RowSubmitted
  <1>10. wrote.rev >= S.dispatch[d[1]][d[2]].rev /\ wrote.state \notin N!Open
    BY <1>8, <1>9 DEF DispatchRows, N!Open
  <1>11. \A q \in Runs : RunFits(S, held, q)
    BY <1>5 DEF RunOk
  <1>12. RowIs(S, W, d, wrote) /\ \A r \in Runs : RunFits(W, held, r)
    BY <1>1, <1>5, <1>6, <1>7, <1>9, <1>10, <1>11, RowChanged, Zenon
  <1>13. (\A r \in Runs : RunOk(W, held, r)) /\ W \in BridgeTables
    <2>1. \A r \in Runs : RunFits(W, held, r)
      BY <1>12
    <2>2. \A r \in Runs : RunOk(W, held, r)
      BY <1>1, <1>5, <1>12, <2>1, RowKeeps
    <2> QED
      BY <1>12, <2>2 DEF RowIs
  <1>14. SubmitsOnly(tables, W, held, d)
    <2>1. \A r \in Runs : /\ Len(S.dispatch[r]) = Len(tables.dispatch[r])
                          /\ Len(W.dispatch[r]) = Len(S.dispatch[r])
                          /\ Len(tables.dispatch[r]) \in Nat
      BY <1>1, <1>5, <1>12, TablesTyped DEF Later, RowIs
    <2>2. ASSUME NEW r \in Runs, NEW n \in 1..Len(tables.dispatch[r]),
                 W.dispatch[r][n].state = "submitted"
          PROVE  tables.dispatch[r][n].state = "submitted" \/ <<r, n>> = d
      <3>1. SUFFICES ASSUME <<r, n>> # d PROVE tables.dispatch[r][n].state = "submitted"
        OBVIOUS
      <3>2. r # d[1] \/ n # d[2]
        BY <1>8, <3>1
      <3>3. W.dispatch[r][n] = S.dispatch[r][n]
        BY <1>12, <2>1, <3>2 DEF RowIs
      <3>4. S.dispatch[r][n] = tables.dispatch[r][n] \/ S.dispatch[r][n].state = "abandoned"
        BY <1>5 DEF Later
      <3> QED
        BY <2>2, <3>3, <3>4
    <2>3. tables.dispatch[d[1]][d[2]].rev = held[d]
      <3>1. \/ S.dispatch[d[1]][d[2]] = tables.dispatch[d[1]][d[2]]
            \/ S.dispatch[d[1]][d[2]].state = "abandoned"
        BY <1>5, <1>8, <2>1 DEF Later
      <3> QED
        BY <1>7, <3>1 DEF N!Open
    <2>4. \A r \in Runs : Len(W.dispatch[r]) >= Len(tables.dispatch[r])
      BY <2>1
    <2> QED
      BY <2>2, <2>3, <2>4 DEF SubmitsOnly
  <1>15. CASE outcome = "succeeded"
    BY <1>2, <1>3, <1>13, <1>14, <1>15 DEF W
  <1>16. CASE outcome # "succeeded"
    <2>1. tables' = StageEnded(W, d, outcome, outcome)
      BY <1>2, <1>16, Zenon DEF W, StageEnded
    <2>2. d \in N!Dispatches(W)
      <3>1. Len(W.dispatch[d[1]]) = Len(S.dispatch[d[1]])
        BY <1>12 DEF RowIs
      <3> QED
        BY <1>6, <3>1 DEF N!Dispatches
    <2>3. outcome \in RunStates /\ outcome \in AttemptStates /\ outcome # "waiting_on_user"
      BY DEF RunStates, AttemptStates, N!SettledRun
    <2>4. Leaves(W, tables', held)
      BY <1>1, <1>13, <2>1, <2>2, <2>3, StageSettled, Zenon
    <2>5. tables' \in BridgeTables /\ (\A r \in Runs : RunOk(tables', held, r))
          /\ Steady(W, tables')
      BY <2>4 DEF Leaves
    <2>6. SubmitsOnly(tables, tables', held, d)
      <3>1. \A r \in Runs : /\ Len(tables.dispatch[r]) \in Nat /\ Len(W.dispatch[r]) \in Nat
                            /\ Len(tables'.dispatch[r]) \in Nat
        BY <1>1, <1>13, <2>5, TablesTyped
      <3>2. ASSUME NEW r \in Runs
            PROVE  /\ Len(tables'.dispatch[r]) >= Len(tables.dispatch[r])
                   /\ Len(W.dispatch[r]) >= Len(tables.dispatch[r])
        BY <1>14, <2>5, <3>1 DEF SubmitsOnly, Steady
      <3>3. ASSUME NEW r \in Runs, NEW n \in 1..Len(tables.dispatch[r]),
                   tables'.dispatch[r][n].state = "submitted"
            PROVE  tables.dispatch[r][n].state = "submitted" \/ <<r, n>> = d
        <4>1. n \in 1..Len(W.dispatch[r])
          BY <3>1, <3>2
        <4>2. W.dispatch[r][n].state = "submitted"
          BY <2>5, <3>3, <4>1 DEF Steady
        <4> QED
          BY <1>14, <4>2 DEF SubmitsOnly
      <3> QED
        BY <1>14, <3>2, <3>3 DEF SubmitsOnly
    <2> QED
      BY <1>3, <2>5, <2>6
  <1> QED
    BY <1>15, <1>16

(* what one run is left with when its question, its dispatches, its stage and its run are written *)
RunWritten(T, U, r, Q, D, stage, run) ==
  /\ U \in BridgeTables /\ U.question[r] = Q /\ U.dispatch[r] = D
  /\ U.stage[r] = stage /\ U.run[r] = run
  /\ \A q \in Runs : q # r =>
       /\ U.question[q] = T.question[q] /\ U.dispatch[q] = T.dispatch[q]
       /\ U.stage[q] = T.stage[q] /\ U.run[q] = T.run[q]

LEMMA RunRewritten ==
  ASSUME NEW T \in BridgeTables, NEW r \in Runs, NEW Q \in Seq(QuestionRows),
         NEW D \in Seq(DispatchRows), NEW stage \in StageRows, NEW run \in RunStates
  PROVE  RunWritten(T, [T EXCEPT !.question[r] = Q, !.dispatch[r] = D,
                                 !.stage[r] = stage, !.run[r] = run], r, Q, D, stage, run)
  <1> DEFINE U == [T EXCEPT !.question[r] = Q, !.dispatch[r] = D,
                            !.stage[r] = stage, !.run[r] = run]
  <1>1. /\ U.session = T.session /\ U.replayed = T.replayed
        /\ U.question = [T.question EXCEPT ![r] = Q] /\ U.dispatch = [T.dispatch EXCEPT ![r] = D]
        /\ U.stage = [T.stage EXCEPT ![r] = stage] /\ U.run = [T.run EXCEPT ![r] = run]
    BY DEF BridgeTables
  <1>2. /\ [T.question EXCEPT ![r] = Q] \in [Runs -> Seq(QuestionRows)]
        /\ [T.dispatch EXCEPT ![r] = D] \in [Runs -> Seq(DispatchRows)]
        /\ [T.stage EXCEPT ![r] = stage] \in [Runs -> StageRows]
        /\ [T.run EXCEPT ![r] = run] \in [Runs -> RunStates]
    BY DEF BridgeTables
  <1>3. U \in BridgeTables
    BY <1>2 DEF BridgeTables
  <1>4. /\ U.question[r] = Q /\ U.dispatch[r] = D /\ U.stage[r] = stage /\ U.run[r] = run
        /\ \A q \in Runs : q # r =>
             /\ U.question[q] = T.question[q] /\ U.dispatch[q] = T.dispatch[q]
             /\ U.stage[q] = T.stage[q] /\ U.run[q] = T.run[q]
    BY <1>1 DEF BridgeTables
  <1> HIDE DEF U
  <1>5. RunWritten(T, U, r, Q, D, stage, run)
    BY <1>3, <1>4 DEF RunWritten
  <1> QED
    BY <1>5 DEF U

(* a question is raised by the parent that holds its dispatch *)
Raises(T, U, H, G, r, n) ==
  /\ \E new \in QuestionRows : /\ new.dispatch = n /\ new.state = "pending"
                               /\ U.question[r] = Append(T.question[r], new)
  /\ Len(U.dispatch[r]) = Len(T.dispatch[r])
  /\ \A m \in 1..Len(T.dispatch[r]) : U.dispatch[r][m] =
       IF m = n THEN N!Moved(T.dispatch[r][n], "waiting_on_user") ELSE T.dispatch[r][m]
  /\ \A m \in 1..MaxAttempts : G[<<r, m>>] = IF m = n THEN H[<<r, m>>] + 1 ELSE H[<<r, m>>]

LEMMA RaisingFits ==
  ASSUME NEW T \in BridgeTables, NEW U \in BridgeTables, NEW r \in Runs,
         NEW H \in Holds, NEW G \in Holds, RunFits(T, H, r), NEW n \in DOMAIN T.dispatch[r],
         T.dispatch[r][n].state = "dispatched", T.dispatch[r][n].rev = H[<<r, n>>],
         Len(T.question[r]) + 1 <= MaxQuestions, Raises(T, U, H, G, r, n)
  PROVE  RunFits(U, G, r) /\ \E i \in DOMAIN U.question[r] : U.question[r][i].state = "pending"
  <1>1. RowsFit(T, H, r) /\ AskedOnce(T, r) /\ AnswerFences(T, H, r)
    BY DEF RunFits
  <1>2. /\ Len(T.dispatch[r]) \in Nat /\ DOMAIN T.dispatch[r] = 1..Len(T.dispatch[r])
        /\ T.question[r] \in Seq(QuestionRows)
        /\ Len(T.question[r]) \in Nat /\ DOMAIN T.question[r] = 1..Len(T.question[r])
        /\ DOMAIN U.dispatch[r] = 1..Len(U.dispatch[r])
        /\ \A m \in DOMAIN T.dispatch[r] : T.dispatch[r][m] \in DispatchRows
        /\ MaxAttempts \in Nat /\ MaxQuestions \in Nat
    BY TablesTyped, BridgeAssumption
  <1>3. PICK new \in QuestionRows : /\ new.dispatch = n /\ new.state = "pending"
                                    /\ U.question[r] = Append(T.question[r], new)
    BY DEF Raises
  <1>4. /\ Len(U.question[r]) = Len(T.question[r]) + 1
        /\ DOMAIN U.question[r] = 1..(Len(T.question[r]) + 1)
        /\ \A i \in 1..Len(T.question[r]) : U.question[r][i] = T.question[r][i]
        /\ U.question[r][Len(T.question[r]) + 1] = new
    BY <1>2, <1>3
  <1> DEFINE last == Len(T.question[r])
  <1>5. ASSUME NEW i \in DOMAIN U.question[r]
         PROVE  i \in 1..Len(T.question[r]) \/ i = Len(T.question[r]) + 1
    <2>1. last \in Nat /\ i \in 1..(last + 1)
      BY <1>2, <1>4
    <2> HIDE DEF last
    <2>2. i \in 1..last \/ i = last + 1
      BY <2>1
    <2> QED
      BY <2>2 DEF last
  <1> DEFINE row == N!Moved(T.dispatch[r][n], "waiting_on_user")
  <1>6. row.state = "waiting_on_user" /\ row.rev = T.dispatch[r][n].rev + 1
    BY <1>2, RowMoved
  <1>7. /\ DOMAIN U.dispatch[r] = DOMAIN T.dispatch[r] /\ Len(U.dispatch[r]) = Len(T.dispatch[r])
        /\ \A m \in DOMAIN T.dispatch[r] :
             U.dispatch[r][m] = IF m = n THEN row ELSE T.dispatch[r][m]
        /\ \A m \in 1..MaxAttempts :
             G[<<r, m>>] = IF m = n THEN H[<<r, m>>] + 1 ELSE H[<<r, m>>]
    BY <1>2 DEF Raises
  <1> HIDE DEF row
  <1>8. ASSUME NEW i \in 1..Len(T.question[r])
        PROVE  /\ i \in DOMAIN T.question[r]
               /\ T.question[r][i].dispatch \in DOMAIN T.dispatch[r]
               /\ T.question[r][i].dispatch \in 1..MaxAttempts
               /\ T.dispatch[r][T.question[r][i].dispatch].rev > 1
    <2>1. /\ i \in DOMAIN T.question[r] /\ T.question[r][i].dispatch \in DOMAIN T.dispatch[r]
          /\ T.dispatch[r][T.question[r][i].dispatch].rev > 1
      BY <1>1, <1>2 DEF RowsFit
    <2>2. DOMAIN T.dispatch[r] \subseteq 1..MaxAttempts
      BY <1>1, <1>2 DEF RowsFit
    <2> QED
      BY <2>1, <2>2, Zenon
  <1>9. \A m \in DOMAIN T.dispatch[r] :
          /\ m \in 1..MaxAttempts /\ T.dispatch[r][m].rev \in Nat /\ H[<<r, m>>] \in Nat
          /\ T.dispatch[r][m].rev > 0 /\ H[<<r, m>>] <= T.dispatch[r][m].rev
    BY <1>1, <1>2 DEF RowsFit, DispatchRows, Holds
  <1>10. RowsFit(U, G, r)
    <2>1. Len(U.dispatch[r]) <= MaxAttempts /\ Len(U.question[r]) <= MaxQuestions
      BY <1>1, <1>4, <1>7 DEF RowsFit
    <2>2. ASSUME NEW m \in DOMAIN U.dispatch[r]
          PROVE  U.dispatch[r][m].rev > 0 /\ G[<<r, m>>] <= U.dispatch[r][m].rev
      <3>1. CASE m = n
        BY <1>6, <1>7, <1>9, <3>1
      <3>2. CASE m # n
        BY <1>7, <1>9, <3>2
      <3> QED
        BY <3>1, <3>2
    <2>3. ASSUME NEW m \in 1..MaxAttempts, m > Len(U.dispatch[r])
          PROVE  G[<<r, m>>] = 0
      <3>1. m # n
        BY <1>2, <1>7, <2>3
      <3> QED
        BY <1>1, <1>7, <2>3, <3>1 DEF RowsFit
    <2>4. ASSUME NEW i \in DOMAIN U.question[r]
          PROVE  /\ U.question[r][i].dispatch \in DOMAIN U.dispatch[r]
                 /\ U.dispatch[r][U.question[r][i].dispatch].rev > 1
      <3>1. CASE i \in 1..Len(T.question[r])
        <4> DEFINE m == T.question[r][i].dispatch
        <4>1. m \in DOMAIN T.dispatch[r] /\ T.dispatch[r][m].rev > 1
              /\ U.question[r][i].dispatch = m
          BY <1>4, <1>8, <3>1
        <4>2. U.dispatch[r][m].rev > 1
          <5> HIDE DEF m
          <5>1. CASE m = n
            BY <1>6, <1>7, <1>9, <4>1, <5>1
          <5>2. CASE m # n
            BY <1>7, <4>1, <5>2
          <5> QED
            BY <5>1, <5>2
        <4> QED
          BY <1>7, <4>1, <4>2, Zenon
      <3>2. CASE i = Len(T.question[r]) + 1
        <4>1. U.question[r][i].dispatch = n
          BY <1>3, <1>4, <3>2
        <4>2. U.dispatch[r][n] = row /\ n \in DOMAIN U.dispatch[r]
          BY <1>7
        <4>3. row.rev > 1
          BY <1>6, <1>9
        <4> QED
          BY <4>1, <4>2, <4>3
      <3> QED
        BY <1>5, <3>1, <3>2, Zenon
    <2> QED
      BY <2>1, <2>2, <2>3, <2>4, Zenon DEF RowsFit
  <1>11. \A i \in 1..Len(T.question[r]) :
           T.question[r][i].state = "pending" => T.question[r][i].dispatch # n
    BY <1>1, <1>2 DEF AskedOnce
  <1>12. AskedOnce(U, r)
    <2>1. SUFFICES ASSUME NEW i \in DOMAIN U.question[r], U.question[r][i].state = "pending"
                   PROVE  /\ U.dispatch[r][U.question[r][i].dispatch].state # "dispatched"
                          /\ \A j \in DOMAIN U.question[r] :
                               U.question[r][j].state = "pending"
                                 /\ U.question[r][j].dispatch = U.question[r][i].dispatch => i = j
      BY Zenon DEF AskedOnce
    <2>2. CASE i \in 1..Len(T.question[r])
      <3>1. /\ U.question[r][i] = T.question[r][i] /\ T.question[r][i].dispatch # n
            /\ T.question[r][i].dispatch \in DOMAIN T.dispatch[r]
        BY <1>4, <1>8, <1>11, <2>1, <2>2
      <3>2. U.dispatch[r][T.question[r][i].dispatch] = T.dispatch[r][T.question[r][i].dispatch]
        BY <1>7, <3>1, Zenon
      <3>3. T.dispatch[r][T.question[r][i].dispatch].state # "dispatched"
        BY <1>1, <1>2, <2>1, <2>2, <3>1, Zenon DEF AskedOnce
      <3>4. ASSUME NEW j \in DOMAIN U.question[r], U.question[r][j].state = "pending",
                   U.question[r][j].dispatch = U.question[r][i].dispatch
            PROVE  i = j
        <4>1. j # Len(T.question[r]) + 1
          BY <1>3, <1>4, <3>1, <3>4
        <4>2. j \in 1..Len(T.question[r]) /\ U.question[r][j] = T.question[r][j]
          BY <1>4, <1>5, <3>4, <4>1
        <4> QED
          BY <1>1, <1>2, <2>1, <2>2, <3>1, <3>4, <4>2 DEF AskedOnce
      <3> QED
        BY <3>1, <3>2, <3>3, <3>4, Zenon
    <2>3. CASE i = Len(T.question[r]) + 1
      <3>1. U.question[r][i].dispatch = n
        BY <1>3, <1>4, <2>3
      <3>2. U.dispatch[r][n].state # "dispatched"
        BY <1>6, <1>7
      <3>3. ASSUME NEW j \in DOMAIN U.question[r], U.question[r][j].state = "pending",
                   U.question[r][j].dispatch = n, i # j
            PROVE  FALSE
        <4>1. j \in 1..Len(T.question[r]) /\ U.question[r][j] = T.question[r][j]
          BY <1>4, <1>5, <2>3, <3>3
        <4> QED
          BY <1>11, <3>3, <4>1
      <3> QED
        BY <3>1, <3>2, <3>3
    <2> QED
      BY <1>5, <2>1, <2>2, <2>3
  <1>13. AnswerFences(U, G, r)
    <2>1. SUFFICES ASSUME NEW i \in DOMAIN U.question[r],
                          U.question[r][i].state = "answered",
                          U.question[r][i].delivery = "pending",
                          U.dispatch[r][U.question[r][i].dispatch].state \in N!Open
                   PROVE  G[<<r, U.question[r][i].dispatch>>]
                            < U.dispatch[r][U.question[r][i].dispatch].rev
      BY DEF AnswerFences
    <2>2. i \in 1..Len(T.question[r]) /\ U.question[r][i] = T.question[r][i]
      <3>1. i # Len(T.question[r]) + 1
        BY <1>3, <1>4, <2>1
      <3> QED
        BY <1>4, <1>5, <2>1, <3>1, Zenon
    <2> DEFINE m == T.question[r][i].dispatch
    <2>3. m \in DOMAIN T.dispatch[r] /\ m \in 1..MaxAttempts /\ i \in DOMAIN T.question[r]
      BY <1>8, <2>2, Zenon
    <2>4. T.dispatch[r][m].state \in N!Open => H[<<r, m>>] < T.dispatch[r][m].rev
      BY <1>1, <2>1, <2>2, <2>3, Zenon DEF AnswerFences
    <2>5. U.question[r][i].dispatch = m /\ U.dispatch[r][m].state \in N!Open
      BY <2>1, <2>2
    <2> HIDE DEF m
    <2>6. m # n
      <3>1. T.dispatch[r][n].state \in N!Open /\ H[<<r, n>>] \in Nat
        BY <1>9 DEF N!Open
      <3> QED
        BY <2>4, <3>1
    <2>7. U.dispatch[r][m] = T.dispatch[r][m] /\ G[<<r, m>>] = H[<<r, m>>]
      BY <1>7, <2>3, <2>6
    <2> QED
      BY <2>4, <2>5, <2>7
  <1>14. \E i \in DOMAIN U.question[r] : U.question[r][i].state = "pending"
    <2>1. Len(T.question[r]) + 1 \in DOMAIN U.question[r]
      BY <1>2, <1>4
    <2> QED
      BY <1>3, <1>4, <2>1
  <1> QED
    BY <1>10, <1>12, <1>13, <1>14 DEF RunFits

LEMMA QuestionRaised ==
  ASSUME BridgeInv, NEW d \in N!Dispatches(tables), N!raiseNativeQuestion(d)
  PROVE  Leaves(tables, tables', held') /\ held' \in Holds
  <1>1. tables \in BridgeTables /\ held \in Holds /\ \A q \in Runs : RunOk(tables, held, q)
    BY DEF BridgeInv
  <1> DEFINE r == d[1]
             n == d[2]
             new == [dispatch |-> n, state |-> "pending", delivery |-> "not_applicable"]
             T(said) == N!reapExpirations(tables, said)
             J(said) == N!appendNativeEvent(T(said), r, Len(T(said).question[r]) + 1, "raised")
  <1>2. PICK said \in N!Heard :
          /\ N!validateDispatchFence(T(said), d)
          /\ T(said).dispatch[r][n].state = "dispatched"
          /\ Len(T(said).question[r]) + 1 <= MaxQuestions
          /\ tables' = [J(said) EXCEPT
                !.question[r] = Append(@, new),
                !.dispatch[r][n] = N!Moved(@, "waiting_on_user"),
                !.stage[r] = [@ EXCEPT !.state = "waiting_on_user"],
                !.run[r] = "waiting_on_user"]
          /\ held' = [held EXCEPT ![d] = @ + 1]
    BY Zenon DEF N!raiseNativeQuestion
  <1> DEFINE S == T(said)
             journaled == J(said)
  <1>3. S \in Swept(tables, held)
    BY <1>1, Reaped
  <1>4. S \in BridgeTables /\ (\A q \in Runs : RunOk(S, held, q)) /\ Later(tables, S)
    BY <1>3 DEF Swept
  <1>5. d \in N!Dispatches(S)
    BY <1>4, SameDispatches
  <1>6. /\ S.dispatch[r][n].state = "dispatched" /\ S.dispatch[r][n].rev = held[d]
        /\ Len(S.question[r]) + 1 <= MaxQuestions
        /\ journaled = N!appendNativeEvent(S, r, Len(S.question[r]) + 1, "raised")
        /\ tables' = [journaled EXCEPT
                !.question[r] = Append(@, new),
                !.dispatch[r][n] = N!Moved(@, "waiting_on_user"),
                !.stage[r] = [@ EXCEPT !.state = "waiting_on_user"],
                !.run[r] = "waiting_on_user"]
    BY <1>2, Zenon DEF N!validateDispatchFence
  <1> HIDE DEF S, journaled, T, J
  <1>7. /\ r \in Runs /\ n \in 1..MaxAttempts /\ d = <<r, n>>
        /\ n \in DOMAIN S.dispatch[r] /\ S.dispatch[r][n] \in DispatchRows
    BY <1>4, <1>5, DispatchRow
  <1>8. /\ journaled \in BridgeTables /\ journaled.stage = S.stage
        /\ journaled.dispatch = S.dispatch /\ journaled.question = S.question
        /\ journaled.run = S.run
    <2>1. Len(S.question[r]) + 1 \in Nat \ {0}
      BY <1>4, <1>7, TablesTyped
    <2> QED
      BY <1>4, <1>6, <1>7, <2>1, Journaled
  <1>9. /\ S.dispatch[r] \in Seq(DispatchRows) /\ S.question[r] \in Seq(QuestionRows)
        /\ Len(S.dispatch[r]) \in Nat /\ DOMAIN S.dispatch[r] = 1..Len(S.dispatch[r])
        /\ S.stage[r] \in StageRows
    BY <1>4, <1>7, TablesTyped
  <1> DEFINE moved == N!Moved(S.dispatch[r][n], "waiting_on_user")
             Q == Append(S.question[r], new)
             D == [S.dispatch[r] EXCEPT ![n] = moved]
             stage == [S.stage[r] EXCEPT !.state = "waiting_on_user"]
  <1>10. moved \in DispatchRows /\ moved.state = "waiting_on_user"
    BY <1>7, RowMoved
  <1>11. new \in QuestionRows /\ new.dispatch = n /\ new.state = "pending"
    BY <1>7 DEF QuestionRows
  <1>12. stage \in StageRows /\ stage.state = "waiting_on_user"
    BY <1>9, Zenon DEF StageRows
  <1>13. tables' = [journaled EXCEPT !.question[r] = Q, !.dispatch[r] = D,
                                     !.stage[r] = stage, !.run[r] = "waiting_on_user"]
    BY <1>6, <1>7, <1>8, Zenon DEF BridgeTables
  <1> HIDE DEF moved, stage, new
  <1>14. Q \in Seq(QuestionRows) /\ D \in Seq(DispatchRows) /\ Len(D) = Len(S.dispatch[r])
    BY <1>7, <1>9, <1>10, <1>11, SequencePatched
  <1>15. \A m \in 1..Len(S.dispatch[r]) : D[m] = IF m = n THEN moved ELSE S.dispatch[r][m]
    BY <1>9
  <1> HIDE DEF D, Q
  <1>16. RunWritten(journaled, tables', r, Q, D, stage, "waiting_on_user")
    <2>1. "waiting_on_user" \in RunStates
      BY DEF RunStates
    <2> QED
      BY <1>7, <1>8, <1>12, <1>13, <1>14, <2>1, RunRewritten
  <1>17. /\ tables' \in BridgeTables /\ tables'.question[r] = Q /\ tables'.dispatch[r] = D
         /\ tables'.stage[r] = stage
    BY <1>16 DEF RunWritten
  <1>18. \A q \in Runs : q # r =>
           /\ tables'.question[q] = S.question[q] /\ tables'.dispatch[q] = S.dispatch[q]
           /\ tables'.stage[q] = S.stage[q] /\ tables'.run[q] = S.run[q]
    BY <1>8, <1>16 DEF RunWritten
  <1>19. held' \in Holds
         /\ \A e \in Runs \X (1..MaxAttempts) : held'[e] = IF e = d THEN held[d] + 1 ELSE held[e]
    BY <1>1, <1>2, <1>7 DEF Holds
  <1>20. \A q \in Runs : q # r => RunOk(tables', held', q)
    <2>1. SUFFICES ASSUME NEW q \in Runs, q # r PROVE RunOk(tables', held', q)
      OBVIOUS
    <2>2. \A m \in 1..MaxAttempts : held'[<<q, m>>] = held[<<q, m>>]
      BY <1>7, <1>19, <2>1
    <2> QED
      BY <1>4, <1>17, <1>18, <2>1, <2>2, RunUntouched
  <1>21. Raises(S, tables', held, held', r, n)
    <2>1. \A m \in 1..MaxAttempts :
            held'[<<r, m>>] = IF m = n THEN held[<<r, m>>] + 1 ELSE held[<<r, m>>]
      BY <1>7, <1>19
    <2>2. \E x \in QuestionRows : /\ x.dispatch = n /\ x.state = "pending"
                                  /\ tables'.question[r] = Append(S.question[r], x)
      BY <1>11, <1>17 DEF Q
    <2>3. /\ Len(tables'.dispatch[r]) = Len(S.dispatch[r])
          /\ \A m \in 1..Len(S.dispatch[r]) : tables'.dispatch[r][m] =
               IF m = n THEN N!Moved(S.dispatch[r][n], "waiting_on_user")
                        ELSE S.dispatch[r][m]
      BY <1>14, <1>15, <1>17 DEF moved
    <2> QED
      BY <2>1, <2>2, <2>3 DEF Raises
  <1>22. /\ RunFits(tables', held', r)
         /\ \E i \in DOMAIN tables'.question[r] : tables'.question[r][i].state = "pending"
    <2>1. RunFits(S, held, r) /\ S.dispatch[r][n].rev = held[<<r, n>>]
      BY <1>4, <1>6, <1>7, Zenon DEF RunOk
    <2>2. /\ RunFits(tables', held', r)
          /\ \E i \in DOMAIN tables'.question[r] : tables'.question[r][i].state = "pending"
      <3>1. tables' \in BridgeTables /\ held' \in Holds
        BY <1>17, <1>19
      <3>2. /\ S \in BridgeTables /\ held \in Holds /\ r \in Runs /\ n \in DOMAIN S.dispatch[r]
            /\ S.dispatch[r][n].state = "dispatched" /\ Len(S.question[r]) + 1 <= MaxQuestions
        BY <1>1, <1>4, <1>6, <1>7
      <3> HIDE DEF n, r
      <3> QED
        BY <1>21, <2>1, <3>1, <3>2, RaisingFits, Zenon
    <2> QED
      BY <2>2
  <1>23. RunOk(tables', held', r)
    BY <1>12, <1>17, <1>22 DEF RunOk, WaitOk
  <1>24. Steady(S, tables')
    <2>1. ASSUME NEW q \in Runs
          PROVE  /\ Len(tables'.dispatch[q]) >= Len(S.dispatch[q])
                 /\ \A m \in 1..Len(S.dispatch[q]) :
                      tables'.dispatch[q][m].state = "submitted"
                        => S.dispatch[q][m].state = "submitted"
      <3>1. CASE q = r
        <4>1. Len(tables'.dispatch[r]) = Len(S.dispatch[r])
              /\ \A m \in 1..Len(S.dispatch[r]) :
                   tables'.dispatch[r][m] = IF m = n THEN moved ELSE S.dispatch[r][m]
          BY <1>14, <1>15, <1>17
        <4>2. Len(tables'.dispatch[q]) >= Len(S.dispatch[q])
          BY <1>9, <3>1, <4>1
        <4>3. \A m \in 1..Len(S.dispatch[q]) :
                tables'.dispatch[q][m].state = "submitted" => S.dispatch[q][m].state = "submitted"
          BY <1>10, <3>1, <4>1
        <4> QED
          BY <4>2, <4>3
      <3>2. CASE q # r
        <4>1. tables'.dispatch[q] = S.dispatch[q] /\ Len(S.dispatch[q]) \in Nat
          BY <1>4, <1>18, <3>2, TablesTyped
        <4> QED
          BY <4>1
      <3> QED
        BY <3>1, <3>2
    <2> QED
      BY <2>1 DEF Steady
  <1>25. \A q \in Runs : RunOk(tables', held', q)
    BY <1>20, <1>23
  <1>26. Leaves(S, tables', held')
    BY <1>17, <1>24, <1>25 DEF Leaves
  <1> QED
    BY <1>1, <1>3, <1>19, <1>26, LeavesAfter

(* the user answers: the dispatch that waits is reopened at its next revision *)
Answers(T, U, r, i, n) ==
  /\ Len(U.question[r]) = Len(T.question[r])
  /\ U.question[r][i].dispatch = n /\ U.question[r][i].state = "answered"
  /\ \A j \in 1..Len(T.question[r]) : j # i => U.question[r][j] = T.question[r][j]
  /\ Len(U.dispatch[r]) = Len(T.dispatch[r])
  /\ \A m \in 1..Len(T.dispatch[r]) : U.dispatch[r][m] =
       IF m = n /\ T.dispatch[r][n].state = "waiting_on_user"
       THEN N!Moved(T.dispatch[r][n], "dispatched") ELSE T.dispatch[r][m]

LEMMA AnsweringFits ==
  ASSUME NEW T \in BridgeTables, NEW U \in BridgeTables, NEW r \in Runs,
         NEW H \in Holds, RunFits(T, H, r), NEW i \in DOMAIN T.question[r],
         T.question[r][i].state = "pending",
         Answers(T, U, r, i, T.question[r][i].dispatch)
  PROVE  RunFits(U, H, r)
  <1> DEFINE n == T.question[r][i].dispatch
             row == N!Moved(T.dispatch[r][n], "dispatched")
  <1>1. RowsFit(T, H, r) /\ AskedOnce(T, r) /\ AnswerFences(T, H, r)
    BY DEF RunFits
  <1>2. /\ Len(T.dispatch[r]) \in Nat /\ DOMAIN T.dispatch[r] = 1..Len(T.dispatch[r])
        /\ Len(T.question[r]) \in Nat /\ DOMAIN T.question[r] = 1..Len(T.question[r])
        /\ DOMAIN U.dispatch[r] = 1..Len(U.dispatch[r])
        /\ DOMAIN U.question[r] = 1..Len(U.question[r])
        /\ \A m \in DOMAIN T.dispatch[r] : T.dispatch[r][m] \in DispatchRows
        /\ MaxAttempts \in Nat
    BY TablesTyped, BridgeAssumption, Zenon
  <1>3. \A j \in DOMAIN T.question[r] :
          /\ T.question[r][j].dispatch \in DOMAIN T.dispatch[r]
          /\ T.dispatch[r][T.question[r][j].dispatch].rev > 1
    BY <1>1, Zenon DEF RowsFit
  <1>4. \A m \in DOMAIN T.dispatch[r] :
          /\ m \in 1..MaxAttempts /\ T.dispatch[r][m].rev \in Nat /\ H[<<r, m>>] \in Nat
          /\ T.dispatch[r][m].rev > 0 /\ H[<<r, m>>] <= T.dispatch[r][m].rev
    BY <1>1, <1>2 DEF RowsFit, DispatchRows, Holds
  <1>5. n \in DOMAIN T.dispatch[r] /\ T.dispatch[r][n].state # "dispatched"
    BY <1>1, <1>3, Zenon DEF AskedOnce
  <1>6. row.state = "dispatched" /\ row.rev = T.dispatch[r][n].rev + 1
    BY <1>2, <1>5, RowMoved
  <1>7. /\ DOMAIN U.dispatch[r] = DOMAIN T.dispatch[r] /\ Len(U.dispatch[r]) = Len(T.dispatch[r])
        /\ \A m \in DOMAIN T.dispatch[r] : U.dispatch[r][m] =
             IF m = n /\ T.dispatch[r][n].state = "waiting_on_user"
             THEN row ELSE T.dispatch[r][m]
    BY <1>2 DEF Answers
  <1>8. /\ DOMAIN U.question[r] = DOMAIN T.question[r] /\ Len(U.question[r]) = Len(T.question[r])
        /\ U.question[r][i].dispatch = n /\ U.question[r][i].state = "answered"
        /\ \A j \in DOMAIN T.question[r] : j # i => U.question[r][j] = T.question[r][j]
    BY <1>2 DEF Answers
  <1> HIDE DEF n, row
  <1>9. \A m \in DOMAIN T.dispatch[r] :
          U.dispatch[r][m].rev \in Nat /\ U.dispatch[r][m].rev >= T.dispatch[r][m].rev
    <2>1. SUFFICES ASSUME NEW m \in DOMAIN T.dispatch[r]
                   PROVE  /\ U.dispatch[r][m].rev \in Nat
                          /\ U.dispatch[r][m].rev >= T.dispatch[r][m].rev
      OBVIOUS
    <2>2. CASE m = n /\ T.dispatch[r][n].state = "waiting_on_user"
      <3>1. U.dispatch[r][m].rev = T.dispatch[r][m].rev + 1 /\ T.dispatch[r][m].rev \in Nat
        BY <1>4, <1>6, <1>7, <2>2
      <3> QED
        BY <3>1
    <2>3. CASE ~(m = n /\ T.dispatch[r][n].state = "waiting_on_user")
      <3>1. U.dispatch[r][m].rev = T.dispatch[r][m].rev /\ T.dispatch[r][m].rev \in Nat
        BY <1>4, <1>7, <2>3
      <3> QED
        BY <3>1
    <2> QED
      BY <2>2, <2>3
  <1>10. \A j \in DOMAIN T.question[r] : U.question[r][j].dispatch = T.question[r][j].dispatch
    BY <1>8, Zenon DEF n
  <1>11. RowsFit(U, H, r)
    <2>1. Len(U.dispatch[r]) <= MaxAttempts /\ Len(U.question[r]) <= MaxQuestions
      BY <1>1, <1>7, <1>8 DEF RowsFit
    <2>2. \A m \in DOMAIN U.dispatch[r] :
            U.dispatch[r][m].rev > 0 /\ H[<<r, m>>] <= U.dispatch[r][m].rev
      BY <1>4, <1>7, <1>9
    <2>3. \A m \in 1..MaxAttempts : m > Len(U.dispatch[r]) => H[<<r, m>>] = 0
      BY <1>1, <1>7 DEF RowsFit
    <2>4. ASSUME NEW j \in DOMAIN U.question[r]
          PROVE  /\ U.question[r][j].dispatch \in DOMAIN U.dispatch[r]
                 /\ U.dispatch[r][U.question[r][j].dispatch].rev > 1
      <3> DEFINE m == T.question[r][j].dispatch
      <3>1. /\ m \in DOMAIN T.dispatch[r] /\ T.dispatch[r][m].rev > 1
            /\ U.question[r][j].dispatch = m
        BY <1>3, <1>8, <1>10
      <3> HIDE DEF m
      <3>2. U.dispatch[r][m].rev > 1
        <4>1. /\ T.dispatch[r][m].rev \in Nat /\ U.dispatch[r][m].rev \in Nat
              /\ U.dispatch[r][m].rev >= T.dispatch[r][m].rev
          BY <1>4, <1>9, <3>1
        <4> QED
          BY <3>1, <4>1
      <3> QED
        BY <1>7, <3>1, <3>2, Zenon
    <2> QED
      BY <2>1, <2>2, <2>3, <2>4, Zenon DEF RowsFit
  <1>12. AskedOnce(U, r)
    <2>1. SUFFICES ASSUME NEW j \in DOMAIN T.question[r], U.question[r][j].state = "pending"
                   PROVE  /\ U.dispatch[r][U.question[r][j].dispatch].state # "dispatched"
                          /\ \A k \in DOMAIN T.question[r] :
                               U.question[r][k].state = "pending"
                                 /\ U.question[r][k].dispatch = U.question[r][j].dispatch => j = k
      BY <1>8 DEF AskedOnce
    <2> DEFINE m == T.question[r][j].dispatch
    <2>2. j # i /\ T.question[r][j].state = "pending" /\ U.question[r][j].dispatch = m
      BY <1>8, <1>10, <2>1, Zenon
    <2>3. m \in DOMAIN T.dispatch[r] /\ T.dispatch[r][m].state # "dispatched" /\ m # n
      BY <1>1, <1>3, <2>2 DEF AskedOnce, n
    <2>4. \A k \in DOMAIN T.question[r] :
            T.question[r][k].state = "pending" /\ T.question[r][k].dispatch = m => j = k
      BY <1>1, <2>2 DEF AskedOnce
    <2>5. \A k \in DOMAIN T.question[r] :
            U.question[r][k].state = "pending" => /\ T.question[r][k].state = "pending"
                                                  /\ U.question[r][k] = T.question[r][k]
      BY <1>8
    <2> HIDE DEF m
    <2>6. U.dispatch[r][m].state # "dispatched"
      BY <1>7, <2>3, Zenon
    <2> QED
      BY <2>2, <2>4, <2>5, <2>6
  <1>13. AnswerFences(U, H, r)
    <2>1. SUFFICES ASSUME NEW j \in DOMAIN T.question[r],
                          U.question[r][j].state = "answered",
                          U.question[r][j].delivery = "pending",
                          U.dispatch[r][U.question[r][j].dispatch].state \in N!Open
                   PROVE  H[<<r, U.question[r][j].dispatch>>]
                            < U.dispatch[r][U.question[r][j].dispatch].rev
      BY <1>8 DEF AnswerFences
    <2> DEFINE m == T.question[r][j].dispatch
    <2>2. m \in DOMAIN T.dispatch[r] /\ U.question[r][j].dispatch = m
      BY <1>3, <1>10, Zenon
    <2>3. j # i /\ T.dispatch[r][m].state \in N!Open => H[<<r, m>>] < T.dispatch[r][m].rev
      BY <1>1, <1>8, <2>1 DEF AnswerFences
    <2>4. j = i => m = n
      BY DEF n
    <2> HIDE DEF m
    <2>5. U.dispatch[r][m].state \in N!Open
      BY <2>1, <2>2
    <2>6. CASE m = n /\ T.dispatch[r][n].state = "waiting_on_user"
      <3>1. U.dispatch[r][m] = row
        BY <1>7, <2>2, <2>6
      <3> QED
        BY <1>4, <1>6, <2>2, <2>6, <3>1
    <2>7. CASE ~(m = n /\ T.dispatch[r][n].state = "waiting_on_user")
      <3>1. U.dispatch[r][m] = T.dispatch[r][m]
        BY <1>7, <2>2, <2>7
      <3>2. j # i
        BY <1>5, <2>4, <2>5, <2>7, <3>1 DEF N!Open
      <3> QED
        BY <2>2, <2>3, <2>5, <3>1, <3>2
    <2> QED
      BY <2>6, <2>7, Zenon
  <1> QED
    BY <1>11, <1>12, <1>13 DEF RunFits

LEMMA QuestionAnswered ==
  ASSUME BridgeInv, NEW r \in Runs, NEW i \in DOMAIN tables.question[r],
         N!answerNativeQuestion(r, i)
  PROVE  Leaves(tables, tables', held')
  <1>1. tables \in BridgeTables /\ held \in Holds /\ \A q \in Runs : RunOk(tables, held, q)
    BY DEF BridgeInv
  <1> DEFINE n == tables.question[r][i].dispatch
             reopened == tables.dispatch[r][n].state = "waiting_on_user"
             journaled == N!appendNativeEvent(tables, r, i, "answered")
             new == [tables.question[r][i] EXCEPT !.state = "answered", !.delivery = "pending"]
             row == IF reopened THEN N!Moved(tables.dispatch[r][n], "dispatched")
                                ELSE tables.dispatch[r][n]
             stage == N!Reopened(tables.stage[r])
             Q == [tables.question[r] EXCEPT ![i] = new]
             D == [tables.dispatch[r] EXCEPT ![n] = row]
  <1>2. /\ tables.question[r][i].state = "pending" /\ held' = held
        /\ tables' = [journaled EXCEPT
              !.question[r][i] = [@ EXCEPT !.state = "answered", !.delivery = "pending"],
              !.dispatch[r][n] = IF reopened THEN N!Moved(@, "dispatched") ELSE @,
              !.stage[r] = N!Reopened(@),
              !.run[r] = "running"]
    BY DEF N!answerNativeQuestion
  <1>3. /\ tables.dispatch[r] \in Seq(DispatchRows) /\ tables.question[r] \in Seq(QuestionRows)
        /\ Len(tables.dispatch[r]) \in Nat /\ DOMAIN tables.dispatch[r] = 1..Len(tables.dispatch[r])
        /\ Len(tables.question[r]) \in Nat /\ DOMAIN tables.question[r] = 1..Len(tables.question[r])
        /\ tables.stage[r] \in StageRows /\ tables.question[r][i] \in QuestionRows
        /\ i \in Nat \ {0}
    BY <1>1, TablesTyped
  <1>4. RunFits(tables, held, r)
    BY <1>1, Zenon DEF RunOk
  <1>5. n \in DOMAIN tables.dispatch[r] /\ tables.dispatch[r][n] \in DispatchRows
    BY <1>3, <1>4 DEF RunFits, RowsFit
  <1>6. /\ journaled \in BridgeTables /\ journaled.stage = tables.stage
        /\ journaled.dispatch = tables.dispatch /\ journaled.question = tables.question
        /\ journaled.run = tables.run
    BY <1>1, <1>3, Journaled
  <1> HIDE DEF journaled, n
  <1>7. tables' = [journaled EXCEPT !.question[r] = Q, !.dispatch[r] = D,
                                    !.stage[r] = stage, !.run[r] = "running"]
    BY <1>2, <1>5, <1>6 DEF BridgeTables
  <1>8. new \in QuestionRows /\ new.dispatch = n /\ new.state = "answered"
    BY <1>3 DEF QuestionRows, n
  <1>9. row \in DispatchRows /\ (row.state = "submitted" => tables.dispatch[r][n].state = "submitted")
    BY <1>5, RowMoved
  <1>10. stage \in StageRows
    BY <1>3 DEF StageRows, N!Reopened
  <1>11. \A m \in 1..Len(tables.dispatch[r]) : D[m] =
           IF m = n /\ tables.dispatch[r][n].state = "waiting_on_user"
           THEN N!Moved(tables.dispatch[r][n], "dispatched") ELSE tables.dispatch[r][m]
    BY <1>3
  <1>12. \A m \in 1..Len(tables.dispatch[r]) : D[m] = IF m = n THEN row ELSE tables.dispatch[r][m]
    BY <1>3
  <1> HIDE DEF new, row, stage
  <1>13. /\ Q[i] = new
         /\ \A j \in 1..Len(tables.question[r]) : j # i => Q[j] = tables.question[r][j]
    BY <1>3
  <1>14. /\ Q \in Seq(QuestionRows) /\ Len(Q) = Len(tables.question[r])
         /\ D \in Seq(DispatchRows) /\ Len(D) = Len(tables.dispatch[r])
    BY <1>3, <1>5, <1>8, <1>9, SequencePatched
  <1> HIDE DEF D, Q
  <1>15. RunWritten(journaled, tables', r, Q, D, stage, "running")
    <2>1. "running" \in RunStates
      BY DEF RunStates
    <2> QED
      BY <1>6, <1>7, <1>10, <1>14, <2>1, RunRewritten
  <1>16. /\ tables' \in BridgeTables /\ tables'.question[r] = Q /\ tables'.dispatch[r] = D
         /\ tables'.run[r] = "running"
    BY <1>15 DEF RunWritten
  <1>17. \A q \in Runs : q # r =>
           /\ tables'.question[q] = tables.question[q] /\ tables'.dispatch[q] = tables.dispatch[q]
           /\ tables'.stage[q] = tables.stage[q] /\ tables'.run[q] = tables.run[q]
    BY <1>6, <1>15 DEF RunWritten
  <1>18. \A q \in Runs : q # r => RunOk(tables', held, q)
    BY <1>1, <1>16, <1>17, RunUntouched
  <1>19. Answers(tables, tables', r, i, n)
    BY <1>8, <1>11, <1>13, <1>14, <1>16 DEF Answers
  <1>20. RunFits(tables', held, r)
    BY <1>1, <1>2, <1>4, <1>16, <1>19, AnsweringFits, Zenon DEF n
  <1>21. RunOk(tables', held, r)
    BY <1>16, <1>20 DEF RunOk, WaitOk
  <1>22. Steady(tables, tables')
    <2>1. ASSUME NEW q \in Runs
          PROVE  /\ Len(tables'.dispatch[q]) = Len(tables.dispatch[q])
                 /\ \A m \in 1..Len(tables.dispatch[q]) :
                      tables'.dispatch[q][m].state = "submitted"
                        => tables.dispatch[q][m].state = "submitted"
      <3>1. CASE q = r
        BY <1>9, <1>12, <1>14, <1>16, <3>1
      <3>2. CASE q # r
        BY <1>17, <3>2
      <3> QED
        BY <3>1, <3>2
    <2>2. \A q \in Runs : Len(tables.dispatch[q]) \in Nat
      BY <1>1, TablesTyped
    <2> QED
      BY <2>1, <2>2 DEF Steady
  <1>23. \A q \in Runs : RunOk(tables', held', q)
    BY <1>2, <1>18, <1>21
  <1> QED
    BY <1>16, <1>22, <1>23 DEF Leaves

LEMMA QuietCompose ==
  ASSUME NEW r \in Runs, NEW T, NEW U, NEW W, Quieted(T, U, r), Quieted(U, W, r)
  PROVE  Quieted(T, W, r)
  <1>1. ASSUME NEW j \in 1..Len(T.question[r])
        PROVE  \/ W.question[r][j] = T.question[r][j]
               \/ /\ T.question[r][j].state = "pending"
                  /\ W.question[r][j] = [dispatch |-> T.question[r][j].dispatch,
                                         state |-> "cancelled", delivery |-> "not_applicable"]
    BY DEF Quieted
  <1> QED
    BY <1>1 DEF Quieted

(* what withdrawing the questions of S in turn leaves *)
Quiets(W, T, r, S) ==
  W = N!FoldSet(LAMBDA i, acc : N!cancelNativeQuestion(acc, r, i), T, S)

LEMMA QuietFold ==
  ASSUME NEW T \in BridgeTables, NEW r \in Runs, NEW S, S \subseteq DOMAIN T.question[r],
         NEW W, Quiets(W, T, r, S)
  PROVE  W \in BridgeTables /\ Quieted(T, W, r)
  <1> DEFINE V == {U \in BridgeTables : Quieted(T, U, r)}
             pick(s) == CHOOSE x \in s : TRUE
             ch == [s \in SUBSET S |-> pick(s)]
             op == [p \in S \X V |-> N!cancelNativeQuestion(p[2], r, p[1])]
             Folds(g) == g = [s \in SUBSET S |->
               IF s = {} THEN T ELSE N!cancelNativeQuestion(g[s \ {pick(s)}], r, pick(s))]
  <1>1. IsFiniteSet(S)
    <2>1. Len(T.question[r]) \in Nat /\ DOMAIN T.question[r] = 1..Len(T.question[r])
      BY TablesTyped
    <2>2. IsFiniteSet(1..Len(T.question[r]))
      BY <2>1, FS_Interval
    <2> QED
      BY <2>1, <2>2, FS_Subset
  <1>2. T \in V
    BY DEF Quieted
  <1>3. ASSUME NEW i \in S, NEW U \in V
        PROVE  N!cancelNativeQuestion(U, r, i) \in V
    <2>1. U \in BridgeTables /\ Quieted(T, U, r)
      BY <1>3
    <2>2. i \in DOMAIN U.question[r]
      BY <2>1, TablesTyped DEF Quieted
    <2>3. /\ N!cancelNativeQuestion(U, r, i) \in BridgeTables
          /\ Quieted(U, N!cancelNativeQuestion(U, r, i), r)
      BY <2>1, <2>2, QuestionCancelled
    <2>4. Quieted(T, N!cancelNativeQuestion(U, r, i), r)
      BY <2>1, <2>3, QuietCompose
    <2> QED
      BY <2>3, <2>4
  <1> HIDE DEF V
  <1>4. \A s \in SUBSET S : s # {} => pick(s) \in s
    OBVIOUS
  <1> HIDE DEF pick
  <1>5. Foldable(S, V, T, ch, op)
    <2>1. \A s \in SUBSET S : s # {} => ch[s] \in s
      BY <1>4
    <2>2. \A x \in S : \A v \in V : op[<<x, v>>] \in V
      BY <1>3
    <2> HIDE DEF ch, op
    <2> QED
      BY <1>1, <1>2, <2>1, <2>2 DEF Foldable
  <1>6. PICK g : Folded(g, S, V, T, ch, op)
    <2> HIDE DEF ch, op
    <2> QED
      BY <1>5, FoldExists, Zenon
  <1>7. Folds(g)
    <2>1. /\ g \in [SUBSET S -> V]
          /\ \A s \in SUBSET S : g[s] = IF s = {} THEN T ELSE op[<<ch[s], g[s \ {ch[s]}]>>]
      <3> HIDE DEF ch, op
      <3> QED
        BY <1>6 DEF Folded
    <2>2. ASSUME NEW s \in SUBSET S, s # {}
          PROVE  g[s] = N!cancelNativeQuestion(g[s \ {pick(s)}], r, pick(s))
      <3>1. ch[s] = pick(s) /\ pick(s) \in S
        BY <1>4, <2>2
      <3>2. g[s \ {ch[s]}] \in V
        BY <2>1
      <3>3. <<ch[s], g[s \ {ch[s]}]>> \in S \X V
        BY <3>1, <3>2
      <3> QED
        BY <2>1, <2>2, <3>1, <3>3
    <2>3. g = [s \in SUBSET S |-> g[s]]
      BY <2>1
    <2>4. g[{}] = T
      BY <2>1
    <2> QED
      BY <2>2, <2>3, <2>4
  <1> DEFINE h == CHOOSE iter : Folds(iter)
  <1>8. Folds(h)
    BY <1>7, Zenon
  <1>9. W = h[S]
    BY Zenon DEF Quiets, N!FoldSet, N!MapThenFoldSet, pick
  <1> HIDE DEF h, op, ch
  <1>10. /\ h[{}] = T
         /\ \A s \in SUBSET S : s # {} =>
              h[s] = N!cancelNativeQuestion(h[s \ {pick(s)}], r, pick(s))
    BY <1>8
  <1> DEFINE Q == {s \in SUBSET S : h[s] \in V}
  <1>11. {} \in Q
    BY <1>2, <1>10
  <1>12. \A s \in SUBSET S : s # {} => \E x \in s : (s \ {x} \in Q) => (s \in Q)
    <2>1. SUFFICES ASSUME NEW s \in SUBSET S, s # {}
                   PROVE  \E x \in s : (s \ {x} \in Q) => (s \in Q)
      OBVIOUS
    <2>2. pick(s) \in s
      BY <1>4, <2>1
    <2>3. (s \ {pick(s)} \in Q) => (s \in Q)
      BY <1>3, <1>10, <2>1, <2>2
    <2> QED
      BY <2>2, <2>3
  <1>13. SUBSET S \subseteq Q
    <2> HIDE DEF Q, Folds
    <2> QED
      BY <1>1, <1>11, <1>12, SubsetsReached
  <1>14. S \in Q
    BY <1>13
  <1> QED
    BY <1>9, <1>14 DEF V

(* a dispatch's row when its stage is cancelled: it is open no more *)
LEMMA RowRevoked ==
  ASSUME NEW row \in DispatchRows, NEW new,
         new = [IF row.state \in N!Open THEN N!Moved(row, "revoked") ELSE row
                  EXCEPT !.attempt = "cancelled"]
           \/ new = IF row.state \in N!Open THEN N!Moved(row, "revoked") ELSE row
  PROVE  /\ new \in DispatchRows /\ new.state \notin N!Open /\ new.rev >= row.rev
         /\ new.state = "submitted" => row.state = "submitted"
  <1> DEFINE old == IF row.state \in N!Open THEN N!Moved(row, "revoked") ELSE row
  <1>1. /\ old \in DispatchRows /\ old.state \notin N!Open /\ old.rev >= row.rev
        /\ old.state = "submitted" => row.state = "submitted"
    <2>1. /\ N!Moved(row, "revoked") \in DispatchRows
          /\ N!Moved(row, "revoked").state = "revoked"
          /\ N!Moved(row, "revoked").rev = row.rev + 1 /\ row.rev \in Nat
      BY RowMoved DEF DispatchRows
    <2>2. CASE row.state \in N!Open
      <3>1. old = N!Moved(row, "revoked")
        BY <2>2
      <3> QED
        BY <2>1, <3>1 DEF N!Open
    <2>3. CASE row.state \notin N!Open
      <3>1. old = row
        BY <2>3
      <3> QED
        BY <2>1, <2>3, <3>1
    <2> QED
      BY <2>2, <2>3
  <1>2. new = [old EXCEPT !.attempt = "cancelled"] \/ new = old
    OBVIOUS
  <1> HIDE DEF old
  <1>3. CASE new = [old EXCEPT !.attempt = "cancelled"]
    <2>1. new \in DispatchRows /\ new.state = old.state /\ new.rev = old.rev
      BY <1>1, <1>3 DEF DispatchRows
    <2> QED
      BY <1>1, <2>1
  <1>4. CASE new = old
    BY <1>1, <1>4
  <1> QED
    BY <1>2, <1>3, <1>4

LEMMA StageCancelled ==
  ASSUME BridgeInv, NEW r \in Runs, N!cancelNativeStage(r)
  PROVE  Leaves(tables, tables', held')
  <1>1. tables \in BridgeTables /\ held \in Holds /\ \A q \in Runs : RunOk(tables, held, q)
    BY DEF BridgeInv
  <1> DEFINE asked == {i \in DOMAIN tables.question[r] : tables.question[r][i].state = "pending"}
             current == tables.stage[r].attempt
             quiet == N!FoldSet(LAMBDA i, acc : N!cancelNativeQuestion(acc, r, i), tables, asked)
             revoked(row) == IF row.state \in N!Open THEN N!Moved(row, "revoked") ELSE row
             rows(D) == [n \in DOMAIN D |->
                           IF n = current /\ D[n].attempt = "running"
                           THEN [revoked(D[n]) EXCEPT !.attempt = "cancelled"]
                           ELSE revoked(D[n])]
             settled == [state |-> "settled", attempt |-> 0]
  <1>2. /\ held' = held
        /\ tables' = [quiet EXCEPT !.dispatch[r] = rows(@), !.stage[r] = settled,
                                   !.run[r] = "cancelled"]
    BY Zenon DEF N!cancelNativeStage
  <1> DEFINE S == quiet
  <1>3. Quiets(S, tables, r, asked) /\ asked \subseteq DOMAIN tables.question[r]
    BY Zenon DEF Quiets
  <1>4. tables' = [S EXCEPT !.dispatch[r] = rows(@), !.stage[r] = settled, !.run[r] = "cancelled"]
    BY <1>2, Zenon
  <1> HIDE DEF S, asked, quiet
  <1>5. S \in BridgeTables /\ Quieted(tables, S, r)
    BY <1>1, <1>3, QuietFold
  <1>6. S.dispatch[r] = tables.dispatch[r] /\ \A q \in Runs : q # r => RunOk(S, held, q)
    BY <1>1, <1>5, RunUntouched DEF Quieted
  <1>7. RunFits(S, held, r)
    BY <1>1, <1>5, QuietedFits DEF RunOk
  <1> DEFINE D == rows(S.dispatch[r])
             W == [S EXCEPT !.dispatch[r] = D]
  <1>8. /\ S.dispatch[r] \in Seq(DispatchRows) /\ Len(S.dispatch[r]) \in Nat
        /\ DOMAIN S.dispatch[r] = 1..Len(S.dispatch[r])
        /\ \A n \in DOMAIN S.dispatch[r] : S.dispatch[r][n] \in DispatchRows
    BY <1>5, TablesTyped, Zenon
  <1>9. ASSUME NEW n \in DOMAIN S.dispatch[r]
        PROVE  /\ D[n] \in DispatchRows /\ D[n].state \notin N!Open
               /\ D[n].rev >= S.dispatch[r][n].rev
               /\ D[n].state = "submitted" => S.dispatch[r][n].state = "submitted"
    <2> DEFINE row == S.dispatch[r][n]
               new == D[n]
    <2>1. \/ new = [revoked(row) EXCEPT !.attempt = "cancelled"]
          \/ new = revoked(row)
      OBVIOUS
    <2>2. row \in DispatchRows
      BY <1>8
    <2> HIDE DEF row, new
    <2>3. /\ new \in DispatchRows /\ new.state \notin N!Open /\ new.rev >= row.rev
          /\ new.state = "submitted" => row.state = "submitted"
      BY <2>1, <2>2, RowRevoked
    <2> QED
      BY <2>3, Zenon DEF row, new
  <1>10. D = [n \in DOMAIN S.dispatch[r] |-> D[n]]
    OBVIOUS
  <1>11. tables' = [W EXCEPT !.stage[r] = settled, !.run[r] = "cancelled"]
    BY <1>4
  <1> HIDE DEF D, revoked, rows
  <1>12. D \in Seq(DispatchRows) /\ Len(D) = Len(S.dispatch[r])
    BY <1>8, <1>9, <1>10, SequenceMapped
  <1>13. /\ W \in BridgeTables /\ W.question = S.question /\ W.dispatch[r] = D
         /\ W.stage = S.stage /\ W.run = S.run
         /\ \A q \in Runs : q # r => W.dispatch[q] = S.dispatch[q]
    <2>1. [S.dispatch EXCEPT ![r] = D] \in [Runs -> Seq(DispatchRows)]
      BY <1>5, <1>12 DEF BridgeTables
    <2> QED
      BY <1>5, <2>1 DEF BridgeTables
  <1> HIDE DEF W
  <1>14. \A q \in Runs : q # r => RunOk(W, held, q)
    BY <1>5, <1>6, <1>13, RunUntouched
  <1>15. RunFits(W, held, r)
    <2>1. RowsFit(S, held, r)
      BY <1>7 DEF RunFits
    <2>2. /\ Len(W.dispatch[r]) = Len(S.dispatch[r]) /\ W.question[r] = S.question[r]
          /\ \A n \in 1..MaxAttempts : n > Len(S.dispatch[r]) => held[<<r, n>>] = 0
      BY <1>12, <1>13, <2>1 DEF RowsFit
    <2>3. ASSUME NEW n \in 1..Len(S.dispatch[r])
          PROVE  /\ W.dispatch[r][n].rev >= S.dispatch[r][n].rev
                 /\ held[<<r, n>>] <= W.dispatch[r][n].rev
                 /\ W.dispatch[r][n].state \notin N!Open
                 /\ W.dispatch[r][n].state # "dispatched"
      <3>1. /\ W.dispatch[r][n].rev >= S.dispatch[r][n].rev /\ W.dispatch[r][n].rev \in Nat
            /\ S.dispatch[r][n].rev \in Nat /\ W.dispatch[r][n].state \notin N!Open
        BY <1>8, <1>9, <1>13 DEF DispatchRows
      <3>2. held[<<r, n>>] <= S.dispatch[r][n].rev /\ held[<<r, n>>] \in Nat
        <4>1. n \in 1..MaxAttempts
          BY <1>8, <2>1, BridgeAssumption DEF RowsFit
        <4> QED
          BY <1>1, <1>8, <2>1, <4>1, Zenon DEF RowsFit, Holds
      <3>3. W.dispatch[r][n].state # "dispatched"
        BY <3>1 DEF N!Open
      <3> QED
        BY <3>1, <3>2, <3>3
    <2> QED
      BY <1>1, <1>5, <1>7, <1>13, <2>2, <2>3, DispatchesMoved
  <1>16. Leaves(W, tables', held)
    <2>1. /\ \A q \in Runs : RunFits(W, held, q)
          /\ \A q \in Runs : q # r => WaitOk(W, q)
      BY <1>14, <1>15 DEF RunOk
    <2>2. settled \in StageRows /\ "cancelled" \in RunStates /\ "cancelled" # "waiting_on_user"
      BY DEF StageRows, RunStates
    <2> HIDE DEF settled
    <2>3. tables' \in BridgeTables /\ (\A q \in Runs : RunOk(tables', held, q))
          /\ Later(W, tables')
      BY <1>1, <1>11, <1>13, <2>1, <2>2, StageMoved
    <2> QED
      BY <1>13, <2>3, LaterIsSteady DEF Leaves
  <1>17. Steady(tables, W)
    <2>1. ASSUME NEW q \in Runs
          PROVE  /\ Len(W.dispatch[q]) = Len(tables.dispatch[q])
                 /\ \A n \in 1..Len(tables.dispatch[q]) :
                      W.dispatch[q][n].state = "submitted"
                        => tables.dispatch[q][n].state = "submitted"
      <3>1. CASE q = r
        BY <1>6, <1>8, <1>9, <1>12, <1>13, <3>1
      <3>2. CASE q # r
        BY <1>5, <1>13, <3>2 DEF Quieted
      <3> QED
        BY <3>1, <3>2
    <2>2. \A q \in Runs : Len(tables.dispatch[q]) \in Nat
      BY <1>1, TablesTyped
    <2> QED
      BY <2>1, <2>2 DEF Steady
  <1>18. Steady(tables, tables')
    <2>1. tables' \in BridgeTables /\ Steady(W, tables')
      BY <1>16 DEF Leaves
    <2>2. ASSUME NEW q \in Runs
          PROVE  /\ Len(tables'.dispatch[q]) >= Len(tables.dispatch[q])
                 /\ \A n \in 1..Len(tables.dispatch[q]) :
                      tables'.dispatch[q][n].state = "submitted"
                        => tables.dispatch[q][n].state = "submitted"
      <3>1. /\ Len(tables.dispatch[q]) \in Nat /\ Len(W.dispatch[q]) \in Nat
            /\ Len(tables'.dispatch[q]) \in Nat
        BY <1>1, <1>13, <2>1, TablesTyped
      <3>2. /\ Len(W.dispatch[q]) >= Len(tables.dispatch[q])
            /\ Len(tables'.dispatch[q]) >= Len(W.dispatch[q])
        BY <1>17, <2>1 DEF Steady
      <3>3. ASSUME NEW n \in 1..Len(tables.dispatch[q]),
                   tables'.dispatch[q][n].state = "submitted"
            PROVE  tables.dispatch[q][n].state = "submitted"
        <4>1. n \in 1..Len(W.dispatch[q])
          BY <3>1, <3>2
        <4> QED
          BY <1>17, <2>1, <3>3, <4>1 DEF Steady
      <3> QED
        BY <3>1, <3>2, <3>3
    <2> QED
      BY <2>2 DEF Steady
  <1> QED
    BY <1>2, <1>16, <1>18, Zenon DEF Leaves

LEMMA TablesAlone ==
  ASSUME BridgeInv
  PROVE  Leaves(tables, tables, held)
  <1>1. Steady(tables, tables)
    BY TablesTyped DEF BridgeInv, Steady
  <1> QED
    BY <1>1 DEF BridgeInv, Leaves

(* what a handler has to leave *)
LEMMA StepKeeps ==
  ASSUME BridgeInv, Leaves(tables, tables', held'), held' \in Holds, PollsFit(serving', tables'),
         \A r \in Runs, n \in 1..MaxAttempts : pending' # <<"complete", r, n>>
  PROVE  BridgeInv'
  BY DEF BridgeInv, Leaves

(* a poll told that one of its claims is done with *)
LEMMA ClaimDone ==
  ASSUME NEW T, NEW S, PollsFit(S, T), NEW s \in Sessions, NEW d \in S[s].todo
  PROVE  PollsFit([S EXCEPT ![s].todo = @ \ {d}, ![s].done = @ \cup {d}], T)
  <1> DEFINE row == [S[s] EXCEPT !.todo = @ \ {d}, !.done = @ \cup {d}]
             G == [S EXCEPT ![s] = row]
  <1>1. /\ S \in [Sessions -> Polls] /\ S[s] \in Polls
        /\ S[s].todo \subseteq N!Dispatches(T) /\ S[s].done \subseteq N!Dispatches(T)
    BY DEF PollsFit
  <1>2. /\ row \in Polls /\ row.todo \subseteq N!Dispatches(T)
        /\ row.done \subseteq N!Dispatches(T)
    BY <1>1 DEF Polls
  <1>3. [S EXCEPT ![s].todo = @ \ {d}, ![s].done = @ \cup {d}] = G
    BY <1>1 DEF Polls
  <1> HIDE DEF row
  <1>4. PollsFit(G, T)
    BY <1>1, <1>2 DEF PollsFit
  <1> QED
    BY <1>3, <1>4, Zenon

(* polls forgotten *)
LEMMA PollsForgotten ==
  ASSUME NEW T, NEW S, PollsFit(S, T), NEW G \in [Sessions -> Polls],
         \A s \in Sessions : G[s] = S[s] \/ G[s] = N!NoPoll
  PROVE  PollsFit(G, T)
  <1>1. N!NoPoll.todo = {} /\ N!NoPoll.done = {}
    BY DEF N!NoPoll
  <1> QED
    BY <1>1 DEF PollsFit

LEMMA WorkspaceKeeps ==
  ASSUME BridgeInv, NEW s \in Sessions, NEW d \in serving[s].todo,
         N!assignNativeAttemptWorkspace(s, d) \/ N!recordNativeAttemptWorkspaceFailure(s, d)
  PROVE  Leaves(tables, tables', held') /\ held' \in Holds /\ PollsFit(serving', tables')
  <1>1. Leaves(tables, tables', held')
    BY WorkspaceAssigned, WorkspaceFailed
  <1>2. held' = held
    BY DEF N!assignNativeAttemptWorkspace, N!recordNativeAttemptWorkspaceFailure
  <1>3. PollsFit(serving, tables')
    BY <1>1, PollsKept DEF BridgeInv, Leaves
  <1>4. serving' = [serving EXCEPT ![s].todo = @ \ {d}, ![s].done = @ \cup {d}]
    BY DEF N!assignNativeAttemptWorkspace, N!recordNativeAttemptWorkspaceFailure
  <1>5. PollsFit([serving EXCEPT ![s].todo = @ \ {d}, ![s].done = @ \cup {d}], tables')
    BY <1>3, ClaimDone
  <1> QED
    BY <1>1, <1>2, <1>4, <1>5 DEF BridgeInv

LEMMA PollAborted ==
  ASSUME BridgeInv, NEW s \in Sessions, NEW d, N!PollAborts(s, d)
  PROVE  Leaves(tables, tables', held') /\ held' \in Holds /\ PollsFit(serving', tables')
  <1>1. tables' = tables /\ held' = held /\ serving' = [serving EXCEPT ![s] = N!NoPoll]
    BY DEF N!PollAborts
  <1>2. N!NoPoll \in Polls /\ serving \in [Sessions -> Polls] /\ PollsFit(serving, tables)
    BY DEF N!NoPoll, Polls, BridgeInv, PollsFit
  <1>3. /\ serving' \in [Sessions -> Polls]
        /\ \A p \in Sessions : serving'[p] = serving[p] \/ serving'[p] = N!NoPoll
    BY <1>1, <1>2
  <1>4. PollsFit(serving', tables)
    BY <1>2, <1>3, PollsForgotten
  <1> QED
    BY <1>1, <1>4, TablesAlone DEF BridgeInv

LEMMA DaemonDied ==
  ASSUME BridgeInv, N!Crash
  PROVE  Leaves(tables, tables', held') /\ held' \in Holds /\ PollsFit(serving', tables')
  <1>1. tables' = tables /\ held' = held /\ serving' = [s \in Sessions |-> N!NoPoll]
    BY DEF N!Crash
  <1>2. N!NoPoll \in Polls /\ PollsFit(serving, tables)
    BY DEF N!NoPoll, Polls, BridgeInv
  <1>3. /\ serving' \in [Sessions -> Polls]
        /\ \A p \in Sessions : serving'[p] = serving[p] \/ serving'[p] = N!NoPoll
    BY <1>1, <1>2
  <1>4. PollsFit(serving', tables)
    BY <1>2, <1>3, PollsForgotten
  <1> QED
    BY <1>1, <1>4, TablesAlone DEF BridgeInv

(* A step submits nothing, or one dispatch at the revision its parent holds. *)
SubmitsInTurn ==
  \/ Steady(tables, tables')
  \/ \E d \in N!Dispatches(tables) : SubmitsOnly(tables, tables', held, d)

(* the next thing a handler does without an await *)
LEMMA ContinuationKeeps ==
  ASSUME BridgeInv, N!Synchronous
  PROVE  BridgeInv' /\ SubmitsInTurn
  <1>1. held \in Holds
    BY DEF BridgeInv
  <1>2. ASSUME NEW r \in Runs, N!InsertStage(r)
        PROVE  BridgeInv' /\ SubmitsInTurn
    <2>1. Leaves(tables, tables', held')
      BY <1>2, StageInserted
    <2>2. held' = held /\ serving' = serving /\ pending' = <<>>
      BY <1>2 DEF N!InsertStage
    <2>3. BridgeInv'
      BY <1>1, <2>1, <2>2, NothingPending, HandlerKeeps
    <2> QED
      BY <2>1, <2>3 DEF Leaves, SubmitsInTurn
  <1>3. ASSUME NEW d \in N!Dispatches(tables), N!finalizeStageArtifact(d)
        PROVE  BridgeInv' /\ SubmitsInTurn
    <2>1. Leaves(tables, tables', held') /\ tables'.run[d[1]] = "succeeded" /\ held' \in Holds
      BY <1>3, ArtifactFinalized
    <2>2. serving' = serving /\ pending' = <<"complete", d[1], d[2]>>
      BY <1>3 DEF N!finalizeStageArtifact
    <2>3. PollsFit(serving', tables')
      BY <2>1, <2>2, PollsKept DEF BridgeInv, Leaves
    <2>4. \A r \in Runs, n \in 1..MaxAttempts :
            pending' = <<"complete", r, n>> => tables'.run[r] = "succeeded"
      BY <2>1, <2>2
    <2>5. tables' \in BridgeTables /\ \A r \in Runs : RunOk(tables', held', r)
      BY <2>1 DEF Leaves
    <2>6. BridgeInv'
      BY <2>1, <2>3, <2>4, <2>5 DEF BridgeInv
    <2> QED
      BY <2>1, <2>6 DEF Leaves, SubmitsInTurn
  <1>4. ASSUME NEW d \in N!Dispatches(tables), N!completeNativeAttemptArtifactOutcome(d)
        PROVE  BridgeInv' /\ SubmitsInTurn
    <2>1. Leaves(tables, tables', held')
      BY <1>4, OutcomeCompleted
    <2>2. held' = held /\ serving' = serving /\ pending' = <<>>
      BY <1>4 DEF N!completeNativeAttemptArtifactOutcome
    <2>3. BridgeInv'
      BY <1>1, <2>1, <2>2, NothingPending, HandlerKeeps
    <2> QED
      BY <2>1, <2>3 DEF Leaves, SubmitsInTurn
  <1>5. ASSUME NEW d \in N!Dispatches(tables), N!downgradeNativeAttemptToFailed(d)
        PROVE  BridgeInv' /\ SubmitsInTurn
    <2>1. Leaves(tables, tables', held')
      BY <1>5, ArtifactFailed
    <2>2. held' = held /\ serving' = serving /\ pending' = <<>>
      BY <1>5 DEF N!downgradeNativeAttemptToFailed
    <2>3. BridgeInv'
      BY <1>1, <2>1, <2>2, NothingPending, HandlerKeeps
    <2> QED
      BY <2>1, <2>3 DEF Leaves, SubmitsInTurn
  <1> QED
    BY <1>2, <1>3, <1>4, <1>5 DEF N!Synchronous

LEMMA SubmissionKeeps ==
  ASSUME BridgeInv, NEW d \in N!Dispatches(tables), NEW outcome \in N!SettledRun,
         N!settleNativeDispatch(d, outcome)
  PROVE  BridgeInv' /\ SubmitsInTurn
  <1>1. /\ tables \in BridgeTables /\ held \in Holds /\ PollsFit(serving, tables)
        /\ tables' \in BridgeTables /\ (\A r \in Runs : RunOk(tables', held, r))
        /\ held' = held /\ SubmitsOnly(tables, tables', held, d)
    BY Submission DEF BridgeInv
  <1>2. /\ serving' = serving
        /\ pending' = IF outcome = "succeeded" THEN <<"publish", d[1], d[2]>> ELSE <<>>
    BY DEF N!settleNativeDispatch
  <1>3. \A r \in Runs : Len(tables'.dispatch[r]) >= Len(tables.dispatch[r])
    BY <1>1 DEF SubmitsOnly
  <1>4. PollsFit(serving', tables')
    BY <1>1, <1>2, <1>3, PollsStay
  <1>5. \A r \in Runs, n \in 1..MaxAttempts : pending' # <<"complete", r, n>>
    BY <1>2
  <1>6. BridgeInv'
    BY <1>1, <1>4, <1>5 DEF BridgeInv
  <1> QED
    BY <1>1, <1>6 DEF SubmitsInTurn

(* a handler that only writes the tables and what its parents hold *)
LEMMA SimpleHandler ==
  ASSUME BridgeInv, Leaves(tables, tables', held'), held' \in Holds, serving' = serving,
         pending' = <<>> \/ \E r \in Runs : pending' = <<"stage", r, 0>>
  PROVE  BridgeInv' /\ SubmitsInTurn
  <1>1. \A r \in Runs, n \in 1..MaxAttempts : pending' # <<"complete", r, n>>
    OBVIOUS
  <1>2. BridgeInv'
    BY <1>1, HandlerKeeps
  <1> QED
    BY <1>2 DEF Leaves, SubmitsInTurn

(* a handler that moves a poll on *)
LEMMA PollHandler ==
  ASSUME BridgeInv, Leaves(tables, tables', held'), held' \in Holds, PollsFit(serving', tables'),
         pending' = <<>>
  PROVE  BridgeInv' /\ SubmitsInTurn
  <1>1. \A r \in Runs, n \in 1..MaxAttempts : pending' # <<"complete", r, n>>
    OBVIOUS
  <1>2. BridgeInv'
    BY <1>1, StepKeeps
  <1> QED
    BY <1>2 DEF Leaves, SubmitsInTurn

LEMMA HandlersKeep ==
  ASSUME BridgeInv, pending = <<>>, N!Handlers
  PROVE  BridgeInv' /\ SubmitsInTurn
  <1>1. held \in Holds /\ \A s \in Sessions : N!Told(s) \subseteq N!Dispatches(tables)
    BY DEF BridgeInv, N!Told
  <1>2. ASSUME NEW r \in Runs, N!createNativeStage(r)
        PROVE  BridgeInv' /\ SubmitsInTurn
    <2>1. held' = held /\ serving' = serving /\ pending' = <<"stage", r, 0>>
      BY <1>2 DEF N!createNativeStage
    <2>2. Leaves(tables, tables', held')
      BY <1>2, RunCreated
    <2> QED
      BY <1>1, <2>1, <2>2, SimpleHandler
  <1>3. ASSUME NEW s \in Sessions, NEW previous, NEW D \in SUBSET N!Dispatches(tables),
               N!attachParentSession(s, previous, D)
        PROVE  BridgeInv' /\ SubmitsInTurn
    <2>1. serving' = serving /\ pending' = <<>>
      BY <1>3 DEF N!attachParentSession
    <2>2. Leaves(tables, tables', held') /\ held' \in Holds
      BY <1>3, SessionAttached
    <2> QED
      BY <2>1, <2>2, SimpleHandler, Zenon
  <1>4. ASSUME NEW s \in Sessions, NEW D \in SUBSET N!Told(s), NEW notStarted,
               N!detachParentSession(s, D, notStarted)
        PROVE  BridgeInv' /\ SubmitsInTurn
    <2>1. held' = held /\ serving' = serving /\ pending' = <<>>
      BY <1>4, Zenon DEF N!detachParentSession
    <2>2. D \in SUBSET N!Dispatches(tables)
      BY <1>1, <1>4
    <2>3. Leaves(tables, tables', held')
      BY <1>4, <2>2, SessionDetached
    <2> QED
      BY <1>1, <2>1, <2>3, SimpleHandler, Zenon
  <1>5. ASSUME NEW s \in Sessions, NEW claimed \in SUBSET Runs, N!pollNativeBridge(s, claimed)
        PROVE  BridgeInv' /\ SubmitsInTurn
    <2>1. pending' = <<>>
      BY <1>5 DEF N!pollNativeBridge
    <2>2. Leaves(tables, tables', held') /\ held' \in Holds /\ PollsFit(serving', tables')
      BY <1>5, PollKeeps
    <2> QED
      BY <2>1, <2>2, PollHandler
  <1>6. ASSUME NEW s \in Sessions, NEW d \in serving[s].todo,
               N!assignNativeAttemptWorkspace(s, d) \/ N!recordNativeAttemptWorkspaceFailure(s, d)
        PROVE  BridgeInv' /\ SubmitsInTurn
    <2>1. pending' = <<>>
      BY <1>6 DEF N!assignNativeAttemptWorkspace, N!recordNativeAttemptWorkspaceFailure
    <2>2. Leaves(tables, tables', held') /\ held' \in Holds /\ PollsFit(serving', tables')
      BY <1>6, WorkspaceKeeps
    <2> QED
      BY <2>1, <2>2, PollHandler
  <1>7. ASSUME NEW s \in Sessions, NEW d \in serving[s].todo, N!PollAborts(s, d)
        PROVE  BridgeInv' /\ SubmitsInTurn
    <2>1. pending' = <<>>
      BY <1>7 DEF N!PollAborts
    <2>2. Leaves(tables, tables', held') /\ held' \in Holds /\ PollsFit(serving', tables')
      BY <1>7, PollAborted
    <2> QED
      BY <2>1, <2>2, PollHandler
  <1>8. ASSUME NEW s \in Sessions, NEW lost \in BOOLEAN, N!PollReturns(s, lost)
        PROVE  BridgeInv' /\ SubmitsInTurn
    <2>1. pending' = <<>>
      BY <1>8 DEF N!PollReturns
    <2>2. Leaves(tables, tables', held') /\ held' \in Holds /\ PollsFit(serving', tables')
      BY <1>8, PollAnswered
    <2> QED
      BY <2>1, <2>2, PollHandler
  <1>9. ASSUME NEW d \in N!Dispatches(tables), N!raiseNativeQuestion(d)
        PROVE  BridgeInv' /\ SubmitsInTurn
    <2>1. serving' = serving /\ pending' = <<>>
      BY <1>9 DEF N!raiseNativeQuestion
    <2>2. Leaves(tables, tables', held') /\ held' \in Holds
      BY <1>9, QuestionRaised
    <2> QED
      BY <2>1, <2>2, SimpleHandler, Zenon
  <1>10. ASSUME NEW r \in Runs, NEW i \in DOMAIN tables.question[r], N!answerNativeQuestion(r, i)
         PROVE  BridgeInv' /\ SubmitsInTurn
    <2>1. held' = held /\ serving' = serving /\ pending' = <<>>
      BY <1>10 DEF N!answerNativeQuestion
    <2>2. Leaves(tables, tables', held')
      BY <1>10, QuestionAnswered
    <2> QED
      BY <1>1, <2>1, <2>2, SimpleHandler, Zenon
  <1>11. ASSUME NEW r \in Runs, N!resumeNativeStage(r)
         PROVE  BridgeInv' /\ SubmitsInTurn
    <2>1. held' = held /\ serving' = serving /\ pending' = <<>>
      BY <1>11 DEF N!resumeNativeStage
    <2>2. Leaves(tables, tables', held')
      BY <1>11, StageResumed
    <2> QED
      BY <1>1, <2>1, <2>2, SimpleHandler
  <1>12. ASSUME NEW r \in Runs, N!cancelNativeStage(r)
         PROVE  BridgeInv' /\ SubmitsInTurn
    <2>1. held' = held /\ serving' = serving /\ pending' = <<>>
      BY <1>12, Zenon DEF N!cancelNativeStage
    <2>2. Leaves(tables, tables', held')
      BY <1>12, StageCancelled
    <2> QED
      BY <1>1, <2>1, <2>2, SimpleHandler
  <1>13. ASSUME NEW s \in Sessions, N!LeaseRunsOut(s)
         PROVE  BridgeInv' /\ SubmitsInTurn
    <2>1. held' = held /\ serving' = serving /\ pending' = <<>>
      BY <1>13 DEF N!LeaseRunsOut
    <2>2. Leaves(tables, tables', held')
      BY <1>13, LeaseEnds
    <2> QED
      BY <1>1, <2>1, <2>2, SimpleHandler
  <1>14. ASSUME N!reapAllExpiredParentSessions
         PROVE  BridgeInv' /\ SubmitsInTurn
    <2>1. held' = held /\ serving' = serving /\ pending' = <<>>
      BY <1>14 DEF N!reapAllExpiredParentSessions
    <2>2. Leaves(tables, tables', held')
      BY <1>14, TimerSweeps
    <2> QED
      BY <1>1, <2>1, <2>2, SimpleHandler
  <1>15. ASSUME NEW s \in Sessions, N!attachParentSession(s, {}, {})
         PROVE  BridgeInv' /\ SubmitsInTurn
    BY <1>3, <1>15
  <1>16. ASSUME NEW s \in Sessions, NEW p \in Sessions, NEW D \in SUBSET N!Told(p),
                N!attachParentSession(s, {p}, D)
         PROVE  BridgeInv' /\ SubmitsInTurn
    <2>1. D \in SUBSET N!Dispatches(tables)
      BY <1>1, <1>16
    <2> QED
      BY <1>3, <1>16, <2>1
  <1> QED
    BY <1>2, <1>4, <1>5, <1>6, <1>7, <1>8, <1>9, <1>10, <1>11, <1>12, <1>13, <1>14, <1>15, <1>16,
       SubmissionKeeps DEF N!Handlers

LEMMA BridgeStep ==
  ASSUME BridgeInv, N!Next
  PROVE  BridgeInv' /\ SubmitsInTurn
  <1>1. CASE N!Crash
    <2>1. pending' = <<>>
      BY <1>1 DEF N!Crash
    <2>2. Leaves(tables, tables', held') /\ held' \in Holds /\ PollsFit(serving', tables')
      BY <1>1, DaemonDied
    <2> QED
      BY <2>1, <2>2, PollHandler
  <1> QED
    BY <1>1, ContinuationKeeps, HandlersKeep DEF N!Next

LEMMA BridgeStarts ==
  ASSUME Init
  PROVE  BridgeInv
  <1>1. /\ tables = [session  |-> [s \in Sessions |-> [state |-> "none", late |-> FALSE]],
                     stage    |-> [r \in Runs |-> [state |-> "none", attempt |-> 0]],
                     dispatch |-> [r \in Runs |-> <<>>], question |-> [r \in Runs |-> <<>>],
                     replayed |-> [r \in Runs |-> <<>>], run |-> [r \in Runs |-> "none"]]
        /\ serving = [s \in Sessions |-> N!NoPoll]
        /\ held = [d \in Runs \X (1..MaxAttempts) |-> 0] /\ pending = <<>>
    BY DEF Init, N!Init
  <1>2. /\ [state |-> "none", late |-> FALSE] \in SessionRows
        /\ [state |-> "none", attempt |-> 0] \in StageRows /\ "none" \in RunStates
        /\ <<>> \in Seq(DispatchRows) /\ <<>> \in Seq(QuestionRows) /\ <<>> \in Seq(Events)
    BY DEF SessionRows, StageRows, RunStates
  <1>3. tables \in BridgeTables
    BY <1>1, <1>2 DEF BridgeTables
  <1>4. held \in Holds
    BY <1>1 DEF Holds
  <1>5. ASSUME NEW r \in Runs PROVE RunOk(tables, held, r)
    <2>1. /\ tables.dispatch[r] = <<>> /\ tables.question[r] = <<>> /\ tables.run[r] = "none"
          /\ \A n \in 1..MaxAttempts : held[<<r, n>>] = 0
      BY <1>1
    <2>2. /\ DOMAIN tables.dispatch[r] = {} /\ DOMAIN tables.question[r] = {}
          /\ Len(tables.dispatch[r]) = 0 /\ Len(tables.question[r]) = 0
      BY <2>1
    <2>3. RowsFit(tables, held, r)
      BY <2>1, <2>2, BridgeAssumption DEF RowsFit
    <2>4. AskedOnce(tables, r) /\ AnswerFences(tables, held, r) /\ WaitOk(tables, r)
      BY <2>1, <2>2 DEF AskedOnce, AnswerFences, WaitOk
    <2> QED
      BY <2>3, <2>4 DEF RunOk, RunFits
  <1>6. PollsFit(serving, tables)
    <2>1. N!NoPoll \in Polls /\ N!NoPoll.todo = {} /\ N!NoPoll.done = {}
      BY DEF N!NoPoll, Polls
    <2> QED
      BY <1>1, <2>1 DEF PollsFit
  <1>7. \A r \in Runs, n \in 1..MaxAttempts : pending # <<"complete", r, n>>
    BY <1>1, NothingPending
  <1> QED
    BY <1>3, <1>4, <1>5, <1>6, <1>7 DEF BridgeInv

LEMMA BridgeKept ==
  ASSUME BridgeInv, [Next]_vars
  PROVE  BridgeInv'
  <1>1. CASE N!Next
    BY <1>1, BridgeStep
  <1>2. CASE UNCHANGED bridgeVars
    BY <1>2 DEF bridgeVars, BridgeInv
  <1> QED
    BY <1>1, <1>2 DEF Next, vars

(* answerNativeQuestion, cancelNativeStage and the sweeps: a run shown as waiting for *)
(* its user has a question that can be answered, for any runs, sessions and verdicts,  *)
(* however often the daemon dies.                                              *)
THEOREM WaitingRunsAreAnswerable == Spec => []WaitingIsAnswerable
  <1>1. Init => BridgeInv
    BY BridgeStarts
  <1>2. BridgeInv /\ [Next]_vars => BridgeInv'
    BY BridgeKept
  <1>3. BridgeInv => WaitingIsAnswerable
    BY DEF BridgeInv, RunOk, WaitOk, WaitingIsAnswerable, N!WaitingIsAnswerable
  <1> QED
    BY <1>1, <1>2, <1>3, PTL DEF Spec

(* settleNativeDispatch: no parent submits past an answer it was not given, although   *)
(* the answer carries no session of its own and may arrive between any two calls.      *)
THEOREM SubmissionsKnowAnswers == Spec => AnswersPrecedeSubmission
  <1>1. Init => BridgeInv
    BY BridgeStarts
  <1>2. BridgeInv /\ [Next]_vars => BridgeInv'
    BY BridgeKept
  <1>3. BridgeInv /\ [Next]_vars =>
          [\A d \in N!Dispatches(tables) :
              /\ tables.dispatch[d[1]][d[2]].state \in N!Open
              /\ tables'.dispatch[d[1]][d[2]].state = "submitted"
              => \A i \in N!QuestionsOf(tables, d) :
                    ~(tables.question[d[1]][i].state = "answered" /\
                      tables.question[d[1]][i].delivery = "pending")]_(N!vars)
    <2>1. SUFFICES ASSUME BridgeInv, [Next]_vars,
                          NEW d \in N!Dispatches(tables),
                          tables.dispatch[d[1]][d[2]].state \in N!Open,
                          tables'.dispatch[d[1]][d[2]].state = "submitted",
                          NEW i \in N!QuestionsOf(tables, d),
                          tables.question[d[1]][i].state = "answered",
                          tables.question[d[1]][i].delivery = "pending"
                   PROVE  FALSE
      OBVIOUS
    <2>2. tables' # tables
      BY <2>1 DEF N!Open
    <2>3. N!Next
      BY <2>1, <2>2 DEF Next, vars, bridgeVars
    <2>4. SubmitsInTurn
      BY <2>1, <2>3, BridgeStep
    <2>5. /\ d[1] \in Runs /\ d[2] \in 1..Len(tables.dispatch[d[1]]) /\ d = <<d[1], d[2]>>
          /\ "submitted" \notin N!Open
      BY <2>1, DispatchRow DEF BridgeInv, N!Open
    <2>6. ~ Steady(tables, tables')
      BY <2>1, <2>5 DEF Steady
    <2>7. PICK e \in N!Dispatches(tables) : SubmitsOnly(tables, tables', held, e)
      BY <2>4, <2>6 DEF SubmitsInTurn
    <2>8. d = e
      BY <2>1, <2>5, <2>7 DEF SubmitsOnly
    <2>9. tables.dispatch[d[1]][d[2]].rev = held[d]
      BY <2>1, <2>7, <2>8 DEF SubmitsOnly
    <2>10. AnswerFences(tables, held, d[1]) /\ RowsFit(tables, held, d[1])
      BY <2>1, <2>5 DEF BridgeInv, RunOk, RunFits
    <2>11. i \in DOMAIN tables.question[d[1]] /\ tables.question[d[1]][i].dispatch = d[2]
      BY <2>1, Zenon DEF N!QuestionsOf
    <2>12. held[d] < tables.dispatch[d[1]][d[2]].rev
      BY <2>1, <2>5, <2>10, <2>11 DEF AnswerFences
    <2>13. held[d] \in Nat
      BY <2>1 DEF BridgeInv, Holds, N!Dispatches
    <2> QED
      BY <2>9, <2>12, <2>13
  <1> QED
    BY <1>1, <1>2, <1>3, PTL DEF Spec, AnswersPrecedeSubmission, N!AnswersPrecedeSubmission

=============================================================================
