---------------------- MODULE PipelineSchedulerProofs ----------------------
(***************************************************************************)
(* Safety of PipelineScheduler for every graph, repair policy, failure and *)
(* bound: the types, the limit on concurrent stages, the transition table, *)
(* and then what the tick makes of the columns it shares with the service: *)
(* the repair budget, the inputs of a stage, the ledger of the attempts    *)
(* and the queue of observations.                                          *)
(***************************************************************************)
EXTENDS PipelineScheduler, FiniteSetTheorems, NaturalsInduction, WellFoundedInduction, TLAPS

USE GraphAssumption, PolicyAssumption

-----------------------------------------------------------------------------
(* What the operators of the tick make of one stage. *)

LEMMA TransitionTyped ==
  ASSUME NEW st \in StageType, NEW to \in States, NEW reason \in Reasons
  PROVE  /\ ApplyTransition(st, to, reason) \in StageType
         /\ ApplyTransition(st, to, reason).state = to
         /\ ApplyTransition(st, to, reason).reason = reason
  BY DEF ApplyTransition, StageType

LEMMA NamingTyped ==
  ASSUME NEW st \in StageType, NEW o \in ObservationType
  PROVE  /\ Naming(st, o) \in StageType
         /\ Naming(st, o).state = st.state /\ Naming(st, o).reason = st.reason
  BY DEF Naming, StageType, ObservationType

Decisions == {"fail", "exhaust", "block", "propose", "retry", "rearm"}

LEMMA DecisionTyped ==
  ASSUME NEW s \in Stages, NEW st \in StageType, NEW f \in FailureType
  PROVE  DecideRecovery(s, st, f) \in Decisions
  <1>1. f.class \in {"fatal", "bare", "bare_retryable", "validation", "other"}
    BY DEF FailureType
  <1>2. CASE f.class \in {"fatal", "bare"}
    BY <1>2 DEF DecideRecovery, Decisions
  <1>3. CASE f.class = "bare_retryable"
    BY <1>3 DEF DecideRecovery, Decisions
  <1>4. CASE f.class \in {"validation", "other"}
    BY <1>4 DEF DecideRecovery, Decisions
  <1> QED
    BY <1>1, <1>2, <1>3, <1>4

LEMMA CountedTyped ==
  ASSUME NEW st \in StageType, NEW f \in FailureType
  PROVE  Counted(st, f) \in StageType /\ Counted(st, f).state = st.state
  <1> DEFINE n == IF st.signature = f.signature THEN st.identical + 1 ELSE 1
  <1>1. n \in Nat /\ f.signature \in Nat
    BY DEF StageType, FailureType
  <1>2. Counted(st, f) = [st EXCEPT !.identical = n, !.signature = f.signature]
    BY DEF Counted
  <1> HIDE DEF n
  <1> QED
    BY <1>1, <1>2 DEF StageType

LEMMA RecoveryTyped ==
  ASSUME NEW st \in StageType, NEW d \in Decisions
  PROVE  ApplyRecoveryDecision(st, d) \in StageType
  <1> USE DEF States, InFlightStates, TerminalStates, Reasons
  <1>1. CASE d = "fail"
    <2>1. ApplyRecoveryDecision(st, d) = ApplyTransition(st, "failed", "attempt_failed")
      BY <1>1, Zenon DEF ApplyRecoveryDecision
    <2> QED
      BY <2>1, TransitionTyped
  <1>2. CASE d = "exhaust"
    <2>1. ApplyRecoveryDecision(st, "exhaust") = ApplyTransition(st, "failed", "retry_exhausted")
      BY SMT DEF ApplyRecoveryDecision
    <2> QED
      BY <1>2, <2>1, TransitionTyped
  <1>3. CASE d = "block"
    <2>1. ApplyRecoveryDecision(st, "block") = ApplyTransition(st, "blocked", "condition_blocked")
      BY Zenon DEF ApplyRecoveryDecision
    <2> QED
      BY <1>3, <2>1, TransitionTyped
  <1>4. CASE d = "propose"
    <2> DEFINE t == ApplyTransition(st, "waiting", "attempt_waiting")
    <2>1. t \in StageType
      BY TransitionTyped
    <2>2. <<st.generation, st.ordinal>> \in Nat \X Nat
      BY DEF StageType
    <2>3. ApplyRecoveryDecision(st, d) = [t EXCEPT !.proposal = <<st.generation, st.ordinal>>]
      BY <1>4 DEF ApplyRecoveryDecision
    <2> HIDE DEF t
    <2> QED
      BY <2>1, <2>2, <2>3 DEF StageType
  <1>5. CASE d = "retry"
    <2> DEFINE t == ApplyTransition(st, "retrying", "retry_scheduled")
    <2>1. t \in StageType
      BY TransitionTyped
    <2>2. ApplyRecoveryDecision(st, d)
            = [t EXCEPT !.repairsUsed = t.repairsUsed + 1, !.proposal = None]
      BY <1>5 DEF ApplyRecoveryDecision
    <2>3. t.repairsUsed + 1 \in Nat /\ None \in Nat \X Nat
      BY <2>1 DEF StageType, None
    <2> DEFINE u == [t EXCEPT !.repairsUsed = t.repairsUsed + 1]
    <2>4. ApplyRecoveryDecision(st, d) = [u EXCEPT !.proposal = None]
      BY <2>2
    <2> HIDE DEF t
    <2>5. u \in StageType
      BY <2>1, <2>3 DEF StageType
    <2> HIDE DEF u
    <2> QED
      BY <2>3, <2>4, <2>5 DEF StageType
  <1>6. CASE d = "rearm"
    BY <1>6, TransitionTyped DEF ApplyRecoveryDecision
  <1> QED
    BY <1>1, <1>2, <1>3, <1>4, <1>5, <1>6 DEF Decisions

LEMMA NewStageTyped == NewStage \in StageType /\ NewStage.state = "pending"
  BY DEF NewStage, StageType, States, Reasons, None

-----------------------------------------------------------------------------
(* Counting the stages in flight. *)

LEMMA StagesFinite == IsFiniteSet(Stages)
  BY FS_Interval DEF Stages

LEMMA InFlightFinite ==
  ASSUME NEW w
  PROVE  IsFiniteSet(InFlight(w)) /\ Cardinality(InFlight(w)) \in Nat
  BY StagesFinite, FS_Subset, FS_CardinalityType DEF InFlight

LEMMA NoMoreInFlight ==
  ASSUME NEW w, NEW v, InFlight(v) \subseteq InFlight(w),
         Cardinality(InFlight(w)) <= MaxConcurrent
  PROVE  Cardinality(InFlight(v)) <= MaxConcurrent
  <1>1. Cardinality(InFlight(v)) <= Cardinality(InFlight(w))
    BY InFlightFinite, FS_Subset
  <1> QED
    BY <1>1, InFlightFinite

LEMMA OneMoreInFlight ==
  ASSUME NEW w, NEW v, NEW s, InFlight(v) \subseteq InFlight(w) \cup {s},
         Cardinality(InFlight(w)) < MaxConcurrent
  PROVE  Cardinality(InFlight(v)) <= MaxConcurrent
  <1>1. IsFiniteSet(InFlight(w) \cup {s})
    BY InFlightFinite, FS_AddElement
  <1>2. Cardinality(InFlight(w) \cup {s})
          = IF s \in InFlight(w) THEN Cardinality(InFlight(w)) ELSE Cardinality(InFlight(w)) + 1
    BY InFlightFinite, FS_AddElement, Zenon
  <1>3. Cardinality(InFlight(v)) <= Cardinality(InFlight(w) \cup {s})
    BY <1>1, FS_Subset
  <1>4. Cardinality(InFlight(w) \cup {s}) \in Nat
    BY <1>1, FS_CardinalityType
  <1> QED
    BY <1>2, <1>3, <1>4, InFlightFinite

LEMMA LowestIsMember ==
  ASSUME NEW S \in SUBSET Stages, S # {}
  PROVE  Min(S) \in S
  <1> DEFINE R == {ss \in Nat \X Nat : ss[1] < ss[2]}
  <1>1. IsWellFoundedOn(R, Nat)
    BY NatLessThanWellFounded, Zenon DEF OpToRel
  <1>2. S \subseteq Nat
    BY DEF Stages
  <1>3. PICK x \in S : \A y \in S : ~ (<<y, x>> \in R)
    <2> HIDE DEF R
    <2> QED
      BY <1>1, <1>2, WFMin, Zenon
  <1>4. ASSUME NEW y \in S PROVE x <= y
    <2>1. <<y, x>> \in Nat \X Nat /\ <<y, x>>[1] = y /\ <<y, x>>[2] = x
      BY <1>2
    <2>2. ~ (y < x)
      BY <1>3, <2>1, Zenon
    <2> QED
      BY <1>2, <2>2
  <1> QED
    BY <1>4 DEF Min

-----------------------------------------------------------------------------
(* The inductive invariant. *)
IInv == TypeOK /\ WithinConcurrency

LEMMA InitIInv == Init => IInv
  <1> SUFFICES ASSUME Init PROVE IInv
    OBVIOUS
  <1>1. stages \in [Stages -> StageType] /\ working = stages
    BY NewStageTyped DEF Init
  <1>2. StoreTypeOK
    BY <1>1 DEF Init, StoreTypeOK, Answers
  <1>3. LedgerTypeOK
    BY DEF Init, LedgerTypeOK, IntentsOK
  <1>4. TickTypeOK
    BY <1>1 DEF Init, TickTypeOK, PlanOK, EmptyPlan
  <1>5. WithinConcurrency
    <2>1. InFlight(stages) = {}
      BY NewStageTyped DEF Init, InFlight, InFlightStates
    <2> QED
      BY <1>1, <2>1, FS_EmptySet DEF WithinConcurrency
  <1> QED
    BY <1>2, <1>3, <1>4, <1>5 DEF IInv, TypeOK

-----------------------------------------------------------------------------
(* What a step leaves alone keeps its type. *)

LEMMA StoreFrame ==
  ASSUME StoreTypeOK, UNCHANGED <<stages, observations, evaluated, canonical, terminal>>
  PROVE  StoreTypeOK'
  BY DEF StoreTypeOK

LEMMA LedgerFrame ==
  ASSUME LedgerTypeOK, UNCHANGED <<dispatch, cancels, runner>>
  PROVE  LedgerTypeOK'
  BY DEF LedgerTypeOK, IntentsOK

LEMMA TickFrame ==
  ASSUME TickTypeOK, UNCHANGED <<phase, tickVars>>
  PROVE  TickTypeOK'
  BY DEF TickTypeOK, PlanOK, tickVars

(* A step of the tick that touches neither the store nor the service keeps   *)
(* the invariant when the working copy stays typed and in flight no stage    *)
(* enters that was not.                                                     *)
LEMMA TickStepKeeps ==
  ASSUME IInv, UNCHANGED <<storeVars, runner>>,
         phase' \in {"idle", "observe", "release"},
         working' \in [Stages -> StageType],
         \A s \in Stages : working'[s].state \in InFlightStates
                              => working[s].state \in InFlightStates,
         batch' \in Seq(ObservationType), PlanOK(plan')
  PROVE  IInv'
  <1>1. StoreTypeOK' /\ LedgerTypeOK'
    BY StoreFrame, LedgerFrame DEF IInv, TypeOK, storeVars
  <1>2. TickTypeOK'
    BY DEF TickTypeOK
  <1>3. InFlight(working') \subseteq InFlight(working) /\ InFlight(stages') = InFlight(stages)
    BY DEF InFlight, storeVars
  <1>4. Cardinality(InFlight(working')) <= MaxConcurrent
    BY <1>3, NoMoreInFlight DEF IInv, WithinConcurrency
  <1>5. WithinConcurrency'
    BY <1>3, <1>4 DEF IInv, WithinConcurrency
  <1> QED
    BY <1>1, <1>2, <1>5 DEF IInv, TypeOK

LEMMA BatchTyped ==
  ASSUME IInv, batch # <<>>
  PROVE  /\ Head(batch) \in ObservationType /\ Head(batch).stage \in Stages
         /\ Tail(batch) \in Seq(ObservationType)
  <1>1. batch \in Seq(ObservationType)
    BY DEF IInv, TypeOK, TickTypeOK
  <1>2. Head(batch) \in ObservationType /\ Tail(batch) \in Seq(ObservationType)
    BY <1>1
  <1> QED
    BY <1>2 DEF ObservationType

LEMMA ConsumeKeeps ==
  ASSUME IInv, batch # <<>>, NEW s \in Stages, NEW st \in StageType,
         st.state \in InFlightStates => working[s].state \in InFlightStates,
         Consume(s, st)
  PROVE  IInv'
  <1>1. working \in [Stages -> StageType] /\ PlanOK(plan)
         /\ phase \in {"idle", "observe", "release"}
    BY DEF IInv, TypeOK, TickTypeOK
  <1>2. /\ working' = [working EXCEPT ![s] = st]
        /\ batch' = Tail(batch)
        /\ UNCHANGED <<storeVars, runner, phase, plan>>
    BY DEF Consume
  <1>3. working' \in [Stages -> StageType]
    BY <1>1, <1>2
  <1>4. \A t \in Stages : working'[t].state \in InFlightStates
                             => working[t].state \in InFlightStates
    BY <1>1, <1>2
  <1>5. PlanOK(plan') /\ phase' \in {"idle", "observe", "release"}
    BY <1>1, <1>2
  <1> QED
    BY <1>2, <1>3, <1>4, <1>5, BatchTyped, TickStepKeeps

LEMMA ObserveKeeps ==
  ASSUME IInv, NEW kind \in Reasons, NEW from \in SUBSET InFlightStates, NEW to \in States,
         Observe(kind, from, to)
  PROVE  IInv'
  <1> DEFINE o == Head(batch)
             s == o.stage
             moved == Naming(ApplyTransition(working[s], to, kind), o)
             st == IF working[s].state \in from THEN moved ELSE working[s]
  <1>1. batch # <<>> /\ Consume(s, st)
    BY DEF Observe, Observed
  <1>2. o \in ObservationType /\ s \in Stages
    BY <1>1, BatchTyped
  <1>3. working[s] \in StageType
    BY <1>2 DEF IInv, TypeOK, TickTypeOK
  <1>4. moved \in StageType
    BY <1>2, <1>3, TransitionTyped, NamingTyped
  <1>5. st \in StageType /\ (st.state \in InFlightStates => working[s].state \in InFlightStates)
    <2> HIDE DEF moved, s, o
    <2> QED
      BY <1>3, <1>4
  <1> HIDE DEF st, s
  <1> QED
    BY <1>1, <1>2, <1>5, ConsumeKeeps

LEMMA AttemptFailedKeeps == ASSUME IInv, AttemptFailed PROVE IInv'
  <1> DEFINE o == Head(batch)
             s == o.stage
             counted == IF o.failure.class \in {"bare", "bare_retryable"}
                        THEN working[s] ELSE Counted(working[s], o.failure)
             decided == DecideRecovery(s, counted, o.failure)
             moved == Naming(ApplyRecoveryDecision(counted, decided), o)
             st == IF working[s].state \in {"running", "waiting"} THEN moved ELSE working[s]
  <1>1. batch # <<>> /\ Consume(s, st)
    BY DEF AttemptFailed, Observed
  <1>2. o \in ObservationType /\ s \in Stages
    BY <1>1, BatchTyped
  <1>3. working[s] \in StageType
    BY <1>2 DEF IInv, TypeOK, TickTypeOK
  <1>4. o.failure \in FailureType
    BY <1>2 DEF ObservationType
  <1>5. counted \in StageType
    <2> HIDE DEF s, o
    <2> QED
      BY <1>3, <1>4, CountedTyped
  <1>6. decided \in Decisions
    <2> HIDE DEF counted, s, o
    <2> QED
      BY <1>2, <1>4, <1>5, DecisionTyped
  <1>7. moved \in StageType
    <2> HIDE DEF counted, decided, s, o
    <2>1. ApplyRecoveryDecision(counted, decided) \in StageType
      BY <1>5, <1>6, RecoveryTyped
    <2> QED
      BY <1>2, <2>1, NamingTyped
  <1>8. st \in StageType /\ (st.state \in InFlightStates => working[s].state \in InFlightStates)
    <2> HIDE DEF moved, s, o
    <2> QED
      BY <1>3, <1>7 DEF InFlightStates
  <1> HIDE DEF st, s
  <1> QED
    BY <1>1, <1>2, <1>8, ConsumeKeeps

LEMMA RecoveryApprovedKeeps == ASSUME IInv, RecoveryApproved PROVE IInv'
  <1> DEFINE s == Head(batch).stage
             moved == ApplyRecoveryDecision(working[s], "retry")
             st == IF working[s].state = "waiting" /\ working[s].proposal = Head(batch).proposal
                   THEN moved ELSE working[s]
  <1>1. batch # <<>> /\ Consume(s, st)
    BY DEF RecoveryApproved, Observed
  <1>2. s \in Stages
    BY <1>1, BatchTyped
  <1>3. working[s] \in StageType
    BY <1>2 DEF IInv, TypeOK, TickTypeOK
  <1>4. moved \in StageType
    BY <1>3, RecoveryTyped DEF Decisions
  <1>5. st \in StageType /\ (st.state \in InFlightStates => working[s].state \in InFlightStates)
    <2> HIDE DEF moved, s
    <2> QED
      BY <1>3, <1>4 DEF InFlightStates
  <1> HIDE DEF st, s
  <1> QED
    BY <1>1, <1>2, <1>5, ConsumeKeeps

LEMMA RecoveryRejectedKeeps == ASSUME IInv, RecoveryRejected PROVE IInv'
  <1> DEFINE s == Head(batch).stage
             failed == ApplyTransition(working[s], "failed", "attempt_failed")
             moved == [failed EXCEPT !.proposal = None]
             st == IF working[s].state = "waiting"
                      /\ working[s].proposal \in {None, Head(batch).proposal}
                   THEN moved ELSE working[s]
  <1>1. batch # <<>> /\ Consume(s, st)
    BY DEF RecoveryRejected, Observed
  <1>2. s \in Stages
    BY <1>1, BatchTyped
  <1>3. working[s] \in StageType
    BY <1>2 DEF IInv, TypeOK, TickTypeOK
  <1>4. failed \in StageType
    BY <1>3, TransitionTyped DEF States, TerminalStates, Reasons
  <1>5. moved \in StageType
    <2> HIDE DEF failed
    <2> QED
      BY <1>4 DEF StageType, None
  <1>6. st \in StageType /\ (st.state \in InFlightStates => working[s].state \in InFlightStates)
    <2> HIDE DEF moved, s
    <2> QED
      BY <1>3, <1>5 DEF InFlightStates
  <1> HIDE DEF st, s
  <1> QED
    BY <1>1, <1>2, <1>6, ConsumeKeeps
LEMMA CancelObservedKeeps == ASSUME IInv, CancelObserved PROVE IInv'
  <1>1. batch # <<>>
    BY DEF CancelObserved, Observed
  <1>2. /\ batch' = Tail(batch)
        /\ UNCHANGED <<storeVars, runner, phase, working, plan>>
    BY DEF CancelObserved
  <1>3. working' \in [Stages -> StageType] /\ PlanOK(plan')
         /\ phase' \in {"idle", "observe", "release"}
    BY <1>2 DEF IInv, TypeOK, TickTypeOK
  <1> QED
    BY <1>1, <1>2, <1>3, BatchTyped, TickStepKeeps

LEMMA EvaluatorDecidedKeeps == ASSUME IInv, EvaluatorDecided PROVE IInv'
  <1> DEFINE o == Head(batch)
             decided == Put(plan.decided, o.edge, o.answer)
  <1>1. /\ batch # <<>> /\ batch' = Tail(batch)
        /\ plan' = [plan EXCEPT !.decided = decided]
        /\ UNCHANGED <<storeVars, runner, phase, working>>
    BY DEF EvaluatorDecided, Observed
  <1>2. working' \in [Stages -> StageType] /\ PlanOK(plan)
         /\ phase' \in {"idle", "observe", "release"}
    BY <1>1 DEF IInv, TypeOK, TickTypeOK
  <1>3. o.answer \in Answers
    BY <1>1, BatchTyped DEF ObservationType
  <1>4. \A e \in DOMAIN decided : decided[e] \in Answers
    BY <1>2, <1>3 DEF PlanOK, Put
  <1>5. PlanOK(plan')
    <2> HIDE DEF decided
    <2> QED
      BY <1>1, <1>2, <1>4 DEF PlanOK
  <1> QED
    BY <1>1, <1>2, <1>5, BatchTyped, TickStepKeeps

LEMMA ManualRerunKeeps == ASSUME IInv, ManualRerun PROVE IInv'
  <1> DEFINE again == {Head(batch).stage} \cup Descendants(Head(batch).stage)
             renewed(t) == [NewStage EXCEPT !.generation = working[t].generation + 1,
                                            !.reason = "manual_rerun"]
  <1>1. /\ batch # <<>> /\ batch' = Tail(batch)
        /\ working' = [t \in Stages |->
             IF t \in again /\ working[t].state \in TerminalStates \cup {"pending"}
             THEN renewed(t) ELSE working[t]]
        /\ UNCHANGED <<storeVars, runner, phase, plan>>
    BY DEF ManualRerun, Observed
  <1>2. working \in [Stages -> StageType] /\ PlanOK(plan')
         /\ phase' \in {"idle", "observe", "release"}
    BY <1>1 DEF IInv, TypeOK, TickTypeOK
  <1>3. ASSUME NEW t \in Stages
        PROVE  renewed(t) \in StageType /\ renewed(t).state = "pending"
    <2>1. working[t].generation + 1 \in Nat
      BY <1>2 DEF StageType
    <2> QED
      BY <2>1, NewStageTyped DEF StageType, Reasons
  <1> HIDE DEF again, renewed
  <1>4. working' \in [Stages -> StageType]
    BY <1>1, <1>2, <1>3
  <1>5. \A t \in Stages : working'[t].state \in InFlightStates
                             => working[t].state \in InFlightStates
    BY <1>1, <1>2, <1>3 DEF InFlightStates
  <1> QED
    BY <1>1, <1>2, <1>4, <1>5, BatchTyped, TickStepKeeps

-----------------------------------------------------------------------------
(* The passes over all stages. *)

LEMMA CancelInactiveTyped ==
  ASSUME NEW w \in [Stages -> StageType]
  PROVE  /\ CancelInactive(w) \in [Stages -> StageType]
         /\ \A s \in Stages : CancelInactive(w)[s].state \in InFlightStates
                                => w[s].state \in InFlightStates
  <1> DEFINE why == IF overdue THEN "deadline_exceeded" ELSE "pipeline_cancelled"
             stopped(s) == [ApplyTransition(w[s], "cancelled", why) EXCEPT !.attempt = None]
  <1>1. ASSUME NEW s \in Stages
        PROVE  stopped(s) \in StageType /\ stopped(s).state = "cancelled"
    <2>1. why \in Reasons
      BY DEF Reasons
    <2> HIDE DEF why
    <2>2. w[s] \in StageType /\ "cancelled" \in States
      BY DEF States, TerminalStates
    <2>3. /\ ApplyTransition(w[s], "cancelled", why) \in StageType
          /\ ApplyTransition(w[s], "cancelled", why).state = "cancelled"
      BY <2>1, <2>2, TransitionTyped
    <2> QED
      BY <2>3 DEF StageType, None
  <1>2. CancelInactive(w) =
          [s \in Stages |-> IF Stopping /\ w[s].state \in {"pending", "ready", "retrying"}
                            THEN stopped(s) ELSE w[s]]
    BY DEF CancelInactive
  <1> HIDE DEF stopped
  <1> QED
    BY <1>1, <1>2 DEF InFlightStates

LEMMA RearmTyped ==
  ASSUME NEW w \in [Stages -> StageType]
  PROVE  /\ Rearm(w) \in [Stages -> StageType]
         /\ \A s \in Stages : Rearm(w)[s].state \in InFlightStates
                                => w[s].state \in InFlightStates
  <1> DEFINE armed(s) == [ApplyTransition(w[s], "ready", "retry_scheduled") EXCEPT !.attempt = None]
  <1>1. ASSUME NEW s \in Stages
        PROVE  armed(s) \in StageType /\ armed(s).state = "ready"
    <2>1. w[s] \in StageType /\ "ready" \in States /\ "retry_scheduled" \in Reasons
      BY DEF States, Reasons
    <2>2. /\ ApplyTransition(w[s], "ready", "retry_scheduled") \in StageType
          /\ ApplyTransition(w[s], "ready", "retry_scheduled").state = "ready"
      BY <2>1, TransitionTyped
    <2> QED
      BY <2>2 DEF StageType, None
  <1>2. Rearm(w) =
          [s \in Stages |-> IF s \in retryingAtTickStart /\ w[s].state = "retrying" /\ ~Stopping
                            THEN armed(s) ELSE w[s]]
    BY DEF Rearm
  <1> HIDE DEF armed
  <1> QED
    BY <1>1, <1>2 DEF InFlightStates

LEMMA CancelIntentsTyped ==
  ASSUME NEW w \in [Stages -> StageType]
  PROVE  CancelIntents(w) \subseteq AttemptType
  <1>1. \A s \in Stages : w[s].attempt \in Nat \X Nat
    BY DEF StageType
  <1>2. \A s \in Stages : <<s, w[s].attempt[1], w[s].attempt[2]>> \in AttemptType
    BY <1>1 DEF AttemptType
  <1> QED
    BY <1>2 DEF CancelIntents

LEMMA CancelAndRearmKeeps == ASSUME IInv, CancelAndRearm PROVE IInv'
  <1> DEFINE c == CancelInactive(working)
  <1>1. /\ phase' = "release" /\ working' = Rearm(c)
        /\ plan' = [plan EXCEPT !.cancels = CancelIntents(working)]
        /\ UNCHANGED <<storeVars, runner, batch>>
    BY DEF CancelAndRearm
  <1>2. working \in [Stages -> StageType] /\ PlanOK(plan) /\ batch' \in Seq(ObservationType)
    BY <1>1 DEF IInv, TypeOK, TickTypeOK
  <1>3. c \in [Stages -> StageType]
    BY <1>2, CancelInactiveTyped
  <1>4. working' \in [Stages -> StageType]
    BY <1>1, <1>3, RearmTyped
  <1>5. \A s \in Stages : working'[s].state \in InFlightStates
                             => working[s].state \in InFlightStates
    BY <1>1, <1>2, <1>3, CancelInactiveTyped, RearmTyped
  <1>6. PlanOK(plan')
    BY <1>1, <1>2, CancelIntentsTyped DEF PlanOK
  <1> QED
    BY <1>1, <1>2, <1>4, <1>5, <1>6, TickStepKeeps

LEMMA AskEvaluatorsKeeps == ASSUME IInv, AskEvaluators PROVE IInv'
  <1>1. /\ plan' = [plan EXCEPT !.asked = plan.asked \cup ToAsk]
        /\ UNCHANGED <<storeVars, runner, phase, working, batch>>
    BY DEF AskEvaluators
  <1>2. /\ working' \in [Stages -> StageType] /\ PlanOK(plan) /\ batch' \in Seq(ObservationType)
        /\ phase' \in {"idle", "observe", "release"}
    BY <1>1 DEF IInv, TypeOK, TickTypeOK
  <1>3. PlanOK(plan')
    BY <1>1, <1>2 DEF PlanOK
  <1> QED
    BY <1>1, <1>2, <1>3, TickStepKeeps
LEMMA ReleasedTyped ==
  ASSUME IInv, NEW s \in Stages
  PROVE  ReleasedStage(s) \in StageType /\ ReleasedStage(s).state \notin InFlightStates
  <1> DEFINE st == working[s]
             skipped == [ApplyTransition(st, "cancelled", "condition_not_selected")
                           EXCEPT !.selected = FALSE, !.attempt = None]
  <1>1. st \in StageType
    BY DEF IInv, TypeOK, TickTypeOK
  <1> HIDE DEF st
  <1>2. ASSUME NEW to \in {"ready", "blocked"},
               NEW why \in {"root_eligible", "dependencies_satisfied", "dependency_unsatisfied"}
        PROVE  ApplyTransition(st, to, why) \in StageType
               /\ ApplyTransition(st, to, why).state \notin InFlightStates
    <2>1. to \in States /\ why \in Reasons /\ to \notin InFlightStates
      BY DEF States, TerminalStates, InFlightStates, Reasons
    <2> QED
      BY <1>1, <2>1, TransitionTyped
  <1>3. skipped \in StageType /\ skipped.state \notin InFlightStates
    <2>1. "cancelled" \in States /\ "condition_not_selected" \in Reasons
      BY DEF States, TerminalStates, Reasons
    <2>2. /\ ApplyTransition(st, "cancelled", "condition_not_selected") \in StageType
          /\ ApplyTransition(st, "cancelled", "condition_not_selected").state = "cancelled"
      BY <1>1, <2>1, TransitionTyped
    <2> QED
      BY <2>2 DEF StageType, None, InFlightStates
  <1>4. ReleasedStage(s) \in
          {ApplyTransition(st, "ready", "root_eligible"),
           ApplyTransition(st, "ready", "dependencies_satisfied"),
           ApplyTransition(st, "blocked", "dependency_unsatisfied"), skipped}
    <2> DEFINE resolved == {ResolveEdge(e) : e \in Incoming(s)}
    <2>1. CASE Incoming(s) = {}
      BY <2>1 DEF ReleasedStage, st
    <2>2. CASE Incoming(s) # {} /\ "blocked" \in resolved
      BY <2>2 DEF ReleasedStage, st
    <2>3. CASE Incoming(s) # {} /\ "blocked" \notin resolved
      BY <2>3 DEF ReleasedStage, st
    <2> QED
      BY <2>1, <2>2, <2>3
  <1> HIDE DEF skipped
  <1> QED
    BY <1>2, <1>3, <1>4

LEMMA ReleaseKeeps == ASSUME IInv, Release PROVE IInv'
  <1> DEFINE s == Min(Releasable)
  <1>1. s \in Stages
    <2>1. Releasable # {} /\ Releasable \in SUBSET Stages
      BY DEF Release, Releasable
    <2> QED
      BY <2>1, LowestIsMember
  <1>2. /\ working' = [working EXCEPT ![s] = ReleasedStage(s)]
        /\ UNCHANGED <<storeVars, runner, phase, batch, plan>>
    BY DEF Release
  <1>3. /\ working \in [Stages -> StageType] /\ PlanOK(plan') /\ batch' \in Seq(ObservationType)
        /\ phase' \in {"idle", "observe", "release"}
    BY <1>2 DEF IInv, TypeOK, TickTypeOK
  <1> HIDE DEF s
  <1>4. working' \in [Stages -> StageType]
    BY <1>1, <1>2, <1>3, ReleasedTyped
  <1>5. \A t \in Stages : working'[t].state \in InFlightStates
                             => working[t].state \in InFlightStates
    BY <1>1, <1>2, <1>3, ReleasedTyped
  <1> QED
    BY <1>2, <1>3, <1>4, <1>5, TickStepKeeps

LEMMA QueueKeeps == ASSUME IInv, Queue PROVE IInv'
  <1> DEFINE s == Min(ReadyStages)
             st == working[s]
             queued == [ApplyTransition(st, "queued", "dispatch_intent")
                          EXCEPT !.ordinal = st.ordinal + 1, !.proposal = None,
                                 !.attempt = <<st.generation, st.ordinal + 1>>]
             a == <<s, st.generation, st.ordinal + 1>>
  <1>1. s \in Stages
    <2>1. ReadyStages # {} /\ ReadyStages \in SUBSET Stages
      BY DEF Queue, MayQueue, ReadyStages
    <2> QED
      BY <2>1, LowestIsMember
  <1>2. /\ working' = [working EXCEPT ![s] = queued]
        /\ plan' = [plan EXCEPT !.dispatch = plan.dispatch \cup {a}]
        /\ UNCHANGED <<storeVars, runner, phase, batch>>
    BY DEF Queue
  <1>3. /\ working \in [Stages -> StageType] /\ PlanOK(plan) /\ batch' \in Seq(ObservationType)
        /\ phase' \in {"idle", "observe", "release"}
    BY <1>2 DEF IInv, TypeOK, TickTypeOK
  <1>4. Cardinality(InFlight(working)) < MaxConcurrent
    BY DEF Queue, MayQueue
  <1> HIDE DEF s
  <1>5. st \in StageType /\ st.generation \in Nat /\ st.ordinal + 1 \in Nat
    BY <1>1, <1>3 DEF StageType
  <1> HIDE DEF st
  <1>6. queued \in StageType
    <2>1. ApplyTransition(st, "queued", "dispatch_intent") \in StageType
      BY <1>5, TransitionTyped DEF States, InFlightStates, Reasons
    <2>2. <<st.generation, st.ordinal + 1>> \in Nat \X Nat
      BY <1>5
    <2> QED
      BY <1>5, <2>1, <2>2 DEF StageType, None
  <1>7. a \in AttemptType
    BY <1>1, <1>5 DEF AttemptType
  <1> HIDE DEF queued, a
  <1>8. working' \in [Stages -> StageType]
    BY <1>1, <1>2, <1>3, <1>6
  <1>9. PlanOK(plan')
    BY <1>2, <1>3, <1>7 DEF PlanOK
  <1>10. TypeOK'
    <2>1. StoreTypeOK' /\ LedgerTypeOK'
      BY <1>2, StoreFrame, LedgerFrame DEF IInv, TypeOK, storeVars
    <2>2. TickTypeOK'
      BY <1>3, <1>8, <1>9 DEF TickTypeOK
    <2> QED
      BY <2>1, <2>2 DEF TypeOK
  <1>11. InFlight(working') \subseteq InFlight(working) \cup {s}
    BY <1>2, <1>3 DEF InFlight
  <1>12. Cardinality(InFlight(working')) <= MaxConcurrent
    BY <1>4, <1>11, OneMoreInFlight
  <1>13. WithinConcurrency'
    BY <1>2, <1>12 DEF IInv, WithinConcurrency, storeVars, InFlight
  <1> QED
    BY <1>10, <1>13 DEF IInv

LEMMA MergeIntents ==
  ASSUME NEW f, NEW S \in SUBSET AttemptType, IntentsOK(f)
  PROVE  /\ IntentsOK(Merge(f, [a \in S |-> "pending"]))
         /\ DOMAIN f \subseteq DOMAIN Merge(f, [a \in S |-> "pending"])
  BY DEF IntentsOK, Merge

LEMMA TerminalTyped ==
  ASSUME NEW w
  PROVE  ComputeTerminal(w) \in {"none", "succeeded", "failed", "cancelled", "blocked"}
  BY DEF ComputeTerminal

LEMMA ApplyKeeps == ASSUME IInv, Apply PROVE IInv'
  <1>1. /\ working \in [Stages -> StageType] /\ PlanOK(plan)
        /\ StoreTypeOK /\ LedgerTypeOK
    BY DEF IInv, TypeOK, TickTypeOK
  <1>2. /\ working' = CancelInactive(working) /\ stages' = working'
        /\ phase' = "idle" /\ batch' = <<>> /\ plan' = EmptyPlan
        /\ observations' = <<>> /\ UNCHANGED <<canonical, runner>>
    BY DEF Apply
  <1>3. working' \in [Stages -> StageType]
    BY <1>1, <1>2, CancelInactiveTyped
  <1>4. evaluated' \in [EvaluatorEdges -> Answers]
    <2>1. evaluated' = [e \in EvaluatorEdges |->
            IF evaluated[e] \in {"selected", "rejected"} THEN evaluated[e]
            ELSE IF e \in DOMAIN plan.decided THEN plan.decided[e]
            ELSE IF e \in plan.asked THEN "asked" ELSE evaluated[e]]
      BY DEF Apply
    <2>2. evaluated \in [EvaluatorEdges -> Answers] /\ "asked" \in Answers
          /\ \A e \in DOMAIN plan.decided : plan.decided[e] \in Answers
      BY <1>1 DEF StoreTypeOK, PlanOK, Answers
    <2> QED
      BY <2>1, <2>2
  <1>5. terminal' \in {"none", "succeeded", "failed", "cancelled", "blocked"}
    BY <1>1, TerminalTyped DEF Apply, StoreTypeOK
  <1>6. StoreTypeOK'
    BY <1>1, <1>2, <1>3, <1>4, <1>5 DEF StoreTypeOK
  <1>7. LedgerTypeOK'
    <2>1. plan.dispatch \subseteq AttemptType
          /\ plan.cancels \cup CancelIntents(working) \subseteq AttemptType
      BY <1>1, CancelIntentsTyped DEF PlanOK
    <2>2. IntentsOK(dispatch') /\ DOMAIN dispatch \subseteq DOMAIN dispatch'
      BY <1>1, <2>1, MergeIntents DEF Apply, LedgerTypeOK
    <2>3. IntentsOK(cancels')
      BY <1>1, <2>1, MergeIntents DEF Apply, LedgerTypeOK
    <2>4. DOMAIN runner' \subseteq DOMAIN dispatch'
      BY <1>1, <1>2, <2>2 DEF LedgerTypeOK
    <2> QED
      BY <1>1, <1>2, <2>2, <2>3, <2>4 DEF LedgerTypeOK, IntentsOK
  <1>8. TickTypeOK'
    BY <1>2, <1>3 DEF TickTypeOK, PlanOK, EmptyPlan
  <1>9. WithinConcurrency'
    <2>1. InFlight(working') \subseteq InFlight(working)
      BY <1>1, <1>2, CancelInactiveTyped DEF InFlight
    <2>2. Cardinality(InFlight(working')) <= MaxConcurrent
      BY <2>1, NoMoreInFlight DEF IInv, WithinConcurrency
    <2> QED
      BY <1>2, <2>2 DEF WithinConcurrency
  <1> QED
    BY <1>6, <1>7, <1>8, <1>9 DEF IInv, TypeOK
-----------------------------------------------------------------------------
(* The service and its environment. *)

LEMMA ServiceStepKeeps ==
  ASSUME IInv, UNCHANGED <<stages, evaluated, terminal>>,
         canonical' \in [ExpressionEdges -> {"missing", "true", "false"}],
         observations' \in Seq(ObservationType), LedgerTypeOK',
         UNCHANGED <<phase, tickVars>> \/ Load(observations')
  PROVE  IInv'
  <1>1. StoreTypeOK'
    BY DEF IInv, TypeOK, StoreTypeOK
  <1>2. CASE UNCHANGED <<phase, tickVars>>
    <2>1. TickTypeOK'
      BY <1>2, TickFrame DEF IInv, TypeOK
    <2>2. WithinConcurrency'
      BY <1>2 DEF IInv, WithinConcurrency, InFlight, tickVars
    <2> QED
      BY <1>1, <2>1, <2>2 DEF IInv, TypeOK
  <1>3. CASE Load(observations')
    <2>1. TickTypeOK'
      BY <1>3 DEF Load, IInv, TypeOK, StoreTypeOK, TickTypeOK, PlanOK, EmptyPlan
    <2>2. WithinConcurrency'
      BY <1>3 DEF Load, IInv, WithinConcurrency, InFlight
    <2> QED
      BY <1>1, <2>1, <2>2 DEF IInv, TypeOK
  <1> QED
    BY <1>2, <1>3

LEMMA ObservationTyped ==
  ASSUME NEW kind \in Kinds, NEW s \in Stages
  PROVE  Observation(kind, s) \in ObservationType
  BY DEF Observation, ObservationType, NoFailure, FailureType, None, Answers

LEMMA OfAttemptTyped ==
  ASSUME NEW kind \in Kinds, NEW a \in AttemptType
  PROVE  OfAttempt(kind, a) \in ObservationType
  <1>1. a[1] \in Stages /\ <<a[2], a[3]>> \in Nat \X Nat
    BY DEF AttemptType
  <1>2. Observation(kind, a[1]) \in ObservationType
    BY <1>1, ObservationTyped
  <1> QED
    BY <1>1, <1>2 DEF OfAttempt, ObservationType

LEMMA RecordTyped ==
  ASSUME IInv, NEW o \in ObservationType, Record(o)
  PROVE  observations' \in Seq(ObservationType)
  BY DEF IInv, TypeOK, StoreTypeOK, Record

LEMMA DriveKeepsLedger ==
  ASSUME IInv, NEW a, NEW to \in Phases,
         runner' = [runner EXCEPT ![a] = to],
         UNCHANGED dispatch \/ dispatch' = [dispatch EXCEPT ![a] = "delivered"],
         UNCHANGED cancels \/ cancels' = [cancels EXCEPT ![a] = "delivered"]
  PROVE  LedgerTypeOK'
  <1>1. /\ IntentsOK(dispatch) /\ IntentsOK(cancels) /\ DOMAIN runner \subseteq DOMAIN dispatch
        /\ \A b \in DOMAIN runner : runner[b] \in Phases
    BY DEF IInv, TypeOK, LedgerTypeOK
  <1>2. IntentsOK(dispatch') /\ DOMAIN dispatch' = DOMAIN dispatch
    BY <1>1 DEF IntentsOK
  <1>3. IntentsOK(cancels')
    BY <1>1 DEF IntentsOK
  <1>4. DOMAIN runner' = DOMAIN runner /\ \A b \in DOMAIN runner' : runner'[b] \in Phases
    BY <1>1
  <1> QED
    BY <1>1, <1>2, <1>3, <1>4 DEF LedgerTypeOK, IntentsOK

(* An attempt of the ledger is an attempt of a stage. *)
LEMMA ClaimedTyped ==
  ASSUME IInv, NEW a \in DOMAIN runner
  PROVE  a \in AttemptType
  BY DEF IInv, TypeOK, LedgerTypeOK, IntentsOK

(* A step that moves one attempt, reports it and ticks. *)
LEMMA ReportKeeps ==
  ASSUME IInv, NEW a \in DOMAIN runner, NEW to \in Phases, NEW o \in ObservationType,
         runner' = [runner EXCEPT ![a] = to],
         UNCHANGED dispatch \/ dispatch' = [dispatch EXCEPT ![a] = "delivered"],
         UNCHANGED cancels \/ cancels' = [cancels EXCEPT ![a] = "delivered"],
         RecordAndTick(o),
         canonical' \in [ExpressionEdges -> {"missing", "true", "false"}]
  PROVE  IInv'
  <1>1. Record(o) /\ Load(observations')
    BY DEF RecordAndTick, Record
  <1>2. observations' \in Seq(ObservationType) /\ UNCHANGED <<stages, evaluated, terminal>>
    BY <1>1, RecordTyped DEF Record
  <1>3. LedgerTypeOK'
    BY DriveKeepsLedger
  <1> QED
    BY <1>1, <1>2, <1>3, ServiceStepKeeps

LEMMA CanonicalFrame ==
  ASSUME IInv, UNCHANGED canonical
  PROVE  canonical' \in [ExpressionEdges -> {"missing", "true", "false"}]
  BY DEF IInv, TypeOK, StoreTypeOK

LEMMA TickKeeps == ASSUME IInv, Tick PROVE IInv'
  <1>1. UNCHANGED <<storeVars, runner>> /\ Load(observations')
    BY DEF Tick, storeVars
  <1>2. observations' \in Seq(ObservationType) /\ LedgerTypeOK'
    BY <1>1, LedgerFrame DEF IInv, TypeOK, StoreTypeOK, storeVars
  <1> QED
    BY <1>1, <1>2, CanonicalFrame, ServiceStepKeeps DEF storeVars

LEMMA ClaimKeeps == ASSUME IInv, NEW a \in DOMAIN dispatch, ClaimDispatch(a) PROVE IInv'
  <1>1. /\ runner' = Put(runner, a, "prepare")
        /\ UNCHANGED <<storeVars, phase, tickVars>>
    BY DEF ClaimDispatch
  <1>2. DOMAIN runner' \subseteq DOMAIN dispatch'
        /\ \A b \in DOMAIN runner' : runner'[b] \in Phases
    BY <1>1 DEF Put, IInv, TypeOK, LedgerTypeOK, storeVars, Phases
  <1>3. LedgerTypeOK'
    BY <1>1, <1>2 DEF IInv, TypeOK, LedgerTypeOK, IntentsOK, storeVars
  <1>4. observations' \in Seq(ObservationType)
    BY <1>1 DEF IInv, TypeOK, StoreTypeOK, storeVars
  <1> QED
    BY <1>1, <1>3, <1>4, CanonicalFrame, ServiceStepKeeps DEF storeVars
LEMMA StartRunnerKeeps == ASSUME IInv, NEW a \in DOMAIN runner, StartRunner(a) PROVE IInv'
  <1>1. OfAttempt("attempt_started", a) \in ObservationType
    BY ClaimedTyped, OfAttemptTyped DEF Kinds
  <1>2. /\ runner' = [runner EXCEPT ![a] = "observe"]
        /\ RecordAndTick(OfAttempt("attempt_started", a))
        /\ UNCHANGED <<canonical, dispatch, cancels>>
    BY DEF StartRunner
  <1>3. "observe" \in Phases
    BY DEF Phases
  <1> QED
    BY <1>1, <1>2, <1>3, CanonicalFrame, ReportKeeps

LEMMA MarkWaitingKeeps == ASSUME IInv, NEW a \in DOMAIN runner, MarkWaiting(a) PROVE IInv'
  <1>1. OfAttempt("attempt_waiting", a) \in ObservationType
    BY ClaimedTyped, OfAttemptTyped DEF Kinds
  <1>2. /\ runner' = [runner EXCEPT ![a] = "waiting"]
        /\ RecordAndTick(OfAttempt("attempt_waiting", a))
        /\ UNCHANGED <<canonical, dispatch, cancels>>
    BY DEF MarkWaiting
  <1>3. "waiting" \in Phases
    BY DEF Phases
  <1> QED
    BY <1>1, <1>2, <1>3, CanonicalFrame, ReportKeeps

LEMMA LoseRunnerKeeps == ASSUME IInv, NEW a \in DOMAIN runner, LoseRunner(a) PROVE IInv'
  <1>1. /\ runner' = [runner EXCEPT ![a] = "recovery_required"]
        /\ UNCHANGED <<storeVars, phase, tickVars>>
    BY DEF LoseRunner
  <1>2. LedgerTypeOK'
    BY <1>1, DriveKeepsLedger DEF Phases, storeVars
  <1>3. observations' \in Seq(ObservationType)
    BY <1>1 DEF IInv, TypeOK, StoreTypeOK, storeVars
  <1> QED
    BY <1>1, <1>2, <1>3, CanonicalFrame, ServiceStepKeeps DEF storeVars

(* The outcome of an attempt, delivered with or without a cancel intent. *)
LEMMA SettleKeeps ==
  ASSUME IInv, NEW a \in DOMAIN runner, SettleSucceeded(a) \/ SettleFailed(a),
         UNCHANGED cancels \/ cancels' = [cancels EXCEPT ![a] = "delivered"]
  PROVE  IInv'
  <1>1. CASE SettleSucceeded(a)
    <2>1. OfAttempt("attempt_succeeded", a) \in ObservationType
      BY ClaimedTyped, OfAttemptTyped DEF Kinds
    <2>2. /\ runner' = [runner EXCEPT ![a] = "succeeded"]
          /\ dispatch' = [dispatch EXCEPT ![a] = "delivered"]
          /\ RecordAndTick(OfAttempt("attempt_succeeded", a))
      BY <1>1 DEF SettleSucceeded, Finalize
    <2>3. PICK values \in [OutEdges(a[1]) -> {"true", "false"}] :
            canonical' = Merge(values, canonical)
      BY <1>1 DEF SettleSucceeded
    <2>4. /\ canonical \in [ExpressionEdges -> {"missing", "true", "false"}]
          /\ OutEdges(a[1]) \subseteq ExpressionEdges
      BY DEF IInv, TypeOK, StoreTypeOK, OutEdges
    <2>5. canonical' \in [ExpressionEdges -> {"missing", "true", "false"}]
      BY <2>3, <2>4 DEF Merge
    <2>6. "succeeded" \in Phases
      BY DEF Phases
    <2> QED
      BY <2>1, <2>2, <2>5, <2>6, ReportKeeps
  <1>2. CASE SettleFailed(a)
    <2>1. PICK f \in Failures :
            Finalize(a, "failed", [OfAttempt("attempt_failed", a) EXCEPT !.failure = f])
      BY <1>2 DEF SettleFailed
    <2> DEFINE o == [OfAttempt("attempt_failed", a) EXCEPT !.failure = f]
    <2>2. o \in ObservationType
      <3>1. OfAttempt("attempt_failed", a) \in ObservationType
        BY ClaimedTyped, OfAttemptTyped DEF Kinds
      <3>2. f \in FailureType
        OBVIOUS
      <3> QED
        BY <3>1, <3>2 DEF ObservationType
    <2>3. /\ runner' = [runner EXCEPT ![a] = "failed"]
          /\ dispatch' = [dispatch EXCEPT ![a] = "delivered"]
          /\ RecordAndTick(o)
          /\ UNCHANGED canonical
      BY <1>2, <2>1 DEF SettleFailed, Finalize
    <2>4. "failed" \in Phases
      BY DEF Phases
    <2> HIDE DEF o
    <2> QED
      BY <2>2, <2>3, <2>4, CanonicalFrame, ReportKeeps
  <1> QED
    BY <1>1, <1>2

LEMMA FinishKeeps ==
  ASSUME IInv, NEW a \in DOMAIN runner, FinishSucceeded(a) \/ FinishFailed(a)
  PROVE  IInv'
  BY SettleKeeps DEF FinishSucceeded, FinishFailed

LEMMA DriveCancelKeeps ==
  ASSUME IInv, NEW a, CancelRunner(a) \/ CancelTooLate(a) \/ CancelWithoutRunner(a)
  PROVE  IInv'
  <1>1. Delivered(a)
    BY DEF CancelRunner, CancelTooLate, CancelWithoutRunner
  <1>2. a \in DOMAIN runner /\ cancels' = [cancels EXCEPT ![a] = "delivered"]
    BY <1>1 DEF Delivered
  <1>3. OfAttempt("cancellation_settled", a) \in ObservationType
    BY <1>2, ClaimedTyped, OfAttemptTyped DEF Kinds
  <1>4. "cancelled" \in Phases /\ "recovery_required" \in Phases
    BY DEF Phases
  <1>5. CASE CancelRunner(a)
    <2>1. /\ runner' = [runner EXCEPT ![a] = "cancelled"]
          /\ dispatch' = [dispatch EXCEPT ![a] = "delivered"]
          /\ RecordAndTick(OfAttempt("cancellation_settled", a))
          /\ UNCHANGED canonical
      BY <1>5 DEF CancelRunner, Finalize
    <2> QED
      BY <1>2, <1>3, <1>4, <2>1, CanonicalFrame, ReportKeeps
  <1>6. CASE CancelTooLate(a)
    BY <1>2, <1>6, SettleKeeps DEF CancelTooLate
  <1>7. CASE CancelWithoutRunner(a)
    <2>1. /\ runner' = [runner EXCEPT ![a] = "recovery_required"]
          /\ RecordAndTick(OfAttempt("cancellation_settled", a))
          /\ UNCHANGED <<canonical, dispatch>>
      BY <1>7 DEF CancelWithoutRunner
    <2> QED
      BY <1>2, <1>3, <1>4, <2>1, CanonicalFrame, ReportKeeps
  <1> QED
    BY <1>5, <1>6, <1>7

(* A step that only records an observation, with or without a tick. *)
LEMMA RecordKeeps ==
  ASSUME IInv, NEW o \in ObservationType, UNCHANGED <<canonical, dispatch, cancels, runner>>,
         (Record(o) /\ UNCHANGED <<phase, tickVars>>) \/ RecordAndTick(o)
  PROVE  IInv'
  <1>1. Record(o) /\ (UNCHANGED <<phase, tickVars>> \/ Load(observations'))
    BY DEF RecordAndTick, Record
  <1>2. observations' \in Seq(ObservationType) /\ UNCHANGED <<stages, evaluated, terminal>>
    BY <1>1, RecordTyped DEF Record
  <1>3. LedgerTypeOK'
    BY LedgerFrame DEF IInv, TypeOK
  <1> QED
    BY <1>1, <1>2, <1>3, CanonicalFrame, ServiceStepKeeps

LEMMA RecoveryApprovalKeeps ==
  ASSUME IInv, NEW s \in Stages, NEW kind \in {"recovery_approved", "recovery_rejected"},
         RecordRecoveryApproval(s, kind)
  PROVE  IInv'
  <1> DEFINE o == [Observation(kind, s) EXCEPT !.proposal = stages[s].proposal]
  <1>1. o \in ObservationType
    <2>1. Observation(kind, s) \in ObservationType
      BY ObservationTyped DEF Kinds
    <2>2. stages[s].proposal \in Nat \X Nat
      BY DEF IInv, TypeOK, StoreTypeOK, StageType
    <2> QED
      BY <2>1, <2>2 DEF ObservationType
  <1>2. Record(o) /\ UNCHANGED <<canonical, dispatch, cancels, runner, phase, tickVars>>
    BY DEF RecordRecoveryApproval
  <1> HIDE DEF o
  <1> QED
    BY <1>1, <1>2, RecordKeeps

LEMMA DecideEvaluatorKeeps ==
  ASSUME IInv, NEW e \in EvaluatorEdges, DecideEvaluator(e)
  PROVE  IInv'
  <1>1. PICK yes \in {"selected", "rejected"} :
          Record([Observation("evaluator_decided", e[2]) EXCEPT !.edge = e, !.answer = yes])
    BY DEF DecideEvaluator
  <1> DEFINE o == [Observation("evaluator_decided", e[2]) EXCEPT !.edge = e, !.answer = yes]
  <1>2. o \in ObservationType
    <2>1. e \in Edges /\ e[2] \in Stages
      BY DEF EvaluatorEdges
    <2>2. Observation("evaluator_decided", e[2]) \in ObservationType
      BY <2>1, ObservationTyped DEF Kinds
    <2>3. yes \in Answers
      BY DEF Answers
    <2> QED
      BY <2>1, <2>2, <2>3 DEF ObservationType
  <1>3. UNCHANGED <<canonical, dispatch, cancels, runner, phase, tickVars>>
    BY DEF DecideEvaluator
  <1> HIDE DEF o
  <1> QED
    BY <1>1, <1>2, <1>3, RecordKeeps DEF o

LEMMA RequestCancelKeeps == ASSUME IInv, RequestCancel PROVE IInv'
  <1>1. Observation("cancel_requested", 1) \in ObservationType
    BY ObservationTyped DEF Kinds, Stages
  <1>2. /\ RecordAndTick(Observation("cancel_requested", 1))
        /\ UNCHANGED <<canonical, dispatch, cancels, runner>>
    BY DEF RequestCancel
  <1> QED
    BY <1>1, <1>2, RecordKeeps

LEMMA RequestRerunKeeps == ASSUME IInv, NEW s \in Stages, RequestRerun(s) PROVE IInv'
  <1>1. Observation("manual_rerun", s) \in ObservationType
    BY ObservationTyped DEF Kinds
  <1>2. /\ RecordAndTick(Observation("manual_rerun", s))
        /\ UNCHANGED <<canonical, dispatch, cancels, runner>>
    BY DEF RequestRerun
  <1> QED
    BY <1>1, <1>2, RecordKeeps

LEMMA CrashKeeps == ASSUME IInv, Crash PROVE IInv'
  <1>1. /\ phase' = "idle" /\ working' = stages /\ batch' = <<>> /\ plan' = EmptyPlan
        /\ UNCHANGED storeVars
    BY DEF Crash
  <1>2. PICK lost \in SUBSET {a \in DOMAIN runner : runner[a] = "prepare"} :
          runner' = [a \in DOMAIN runner |->
            Recovered(a, {b \in DOMAIN runner : b[1] \in Operation} \ lost)]
    BY DEF Crash
  <1>3. DOMAIN runner' = DOMAIN runner /\ \A a \in DOMAIN runner : runner'[a] \in Phases
    BY <1>2 DEF Recovered, Phases, IInv, TypeOK, LedgerTypeOK
  <1>4. LedgerTypeOK'
    BY <1>1, <1>3 DEF IInv, TypeOK, LedgerTypeOK, IntentsOK, storeVars
  <1>5. StoreTypeOK'
    BY <1>1, StoreFrame DEF IInv, TypeOK, storeVars
  <1>6. TickTypeOK'
    BY <1>1 DEF IInv, TypeOK, StoreTypeOK, TickTypeOK, PlanOK, EmptyPlan
  <1>7. WithinConcurrency'
    BY <1>1 DEF IInv, WithinConcurrency, InFlight, storeVars
  <1> QED
    BY <1>4, <1>5, <1>6, <1>7 DEF IInv, TypeOK

LEMMA CrashBeforeStateKeeps ==
  ASSUME IInv, NEW a \in DOMAIN runner, CrashBeforeState(a)
  PROVE  IInv'
  <1> DEFINE o == OfAttempt("attempt_succeeded", a)
  <1>1. o \in ObservationType
    BY ClaimedTyped, OfAttemptTyped DEF Kinds
  <1>2. /\ runner' = [b \in DOMAIN runner |->
             IF b = a THEN "succeeded"
             ELSE Recovered(b, {c \in DOMAIN runner : c[1] \in Operation})]
        /\ dispatch' = [dispatch EXCEPT ![a] = "delivered"]
        /\ observations' = Append(observations, o)
        /\ UNCHANGED <<stages, evaluated, canonical, cancels, terminal, phase, tickVars>>
    BY DEF CrashBeforeState
  <1> HIDE DEF o
  <1>3. observations' \in Seq(ObservationType)
    BY <1>1, <1>2 DEF IInv, TypeOK, StoreTypeOK
  <1>4. DOMAIN runner' = DOMAIN runner /\ \A b \in DOMAIN runner : runner'[b] \in Phases
    BY <1>2 DEF Recovered, Phases, IInv, TypeOK, LedgerTypeOK
  <1>5. IntentsOK(dispatch') /\ DOMAIN dispatch' = DOMAIN dispatch
    BY <1>2 DEF IInv, TypeOK, LedgerTypeOK, IntentsOK
  <1>6. LedgerTypeOK'
    BY <1>2, <1>4, <1>5 DEF IInv, TypeOK, LedgerTypeOK, IntentsOK
  <1> QED
    BY <1>2, <1>3, <1>6, CanonicalFrame, ServiceStepKeeps

LEMMA TickStepsKeep == ASSUME IInv, TickSteps PROVE IInv'
  <1> USE DEF States, InFlightStates, TerminalStates, Reasons
  <1>1. CASE AttemptStarted
    BY <1>1, ObserveKeeps DEF AttemptStarted
  <1>2. CASE AttemptWaiting
    BY <1>2, ObserveKeeps DEF AttemptWaiting
  <1>3. CASE AttemptSucceeded
    BY <1>3, ObserveKeeps DEF AttemptSucceeded
  <1>4. CASE CancellationSettled
    BY <1>4, ObserveKeeps DEF CancellationSettled
  <1> QED
    BY <1>1, <1>2, <1>3, <1>4, AttemptFailedKeeps, RecoveryApprovedKeeps, RecoveryRejectedKeeps,
       CancelObservedKeeps, EvaluatorDecidedKeeps, ManualRerunKeeps, CancelAndRearmKeeps,
       AskEvaluatorsKeeps, ReleaseKeeps, QueueKeeps, ApplyKeeps DEF TickSteps

LEMMA UnchangedKeeps ==
  ASSUME IInv, UNCHANGED <<storeVars, runner, phase, tickVars>>
  PROVE  IInv'
  <1>1. TypeOK'
    BY StoreFrame, LedgerFrame, TickFrame DEF IInv, TypeOK, storeVars
  <1>2. WithinConcurrency'
    BY DEF IInv, WithinConcurrency, InFlight, storeVars, tickVars
  <1> QED
    BY <1>1, <1>2 DEF IInv

LEMMA NextKeeps == IInv /\ [Next]_vars => IInv'
  <1> SUFFICES ASSUME IInv, [Next]_vars PROVE IInv'
    OBVIOUS
  <1>1. CASE TickSteps
    BY <1>1, TickStepsKeep
  <1>2. CASE Tick
    BY <1>2, TickKeeps
  <1>3. CASE Claims
    BY <1>3, ClaimKeeps DEF Claims
  <1>4. CASE Starts
    BY <1>4, StartRunnerKeeps DEF Starts
  <1>5. CASE Finishes
    BY <1>5, FinishKeeps DEF Finishes
  <1>6. CASE DrivesCancel
    BY <1>6, DriveCancelKeeps DEF DrivesCancel
  <1>7. CASE \E a \in DOMAIN runner : MarkWaiting(a) \/ LoseRunner(a) \/ CrashBeforeState(a)
    BY <1>7, MarkWaitingKeeps, LoseRunnerKeeps, CrashBeforeStateKeeps
  <1>8. CASE AnswersProposal
    BY <1>8, RecoveryApprovalKeeps DEF AnswersProposal
  <1>9. CASE AnswersEvaluator
    BY <1>9, DecideEvaluatorKeeps DEF AnswersEvaluator
  <1>10. CASE RequestCancel
    BY <1>10, RequestCancelKeeps
  <1>11. CASE \E s \in Stages : RequestRerun(s)
    BY <1>11, RequestRerunKeeps
  <1>12. CASE DeadlinePasses
    BY <1>12, UnchangedKeeps DEF DeadlinePasses
  <1>13. CASE Crash
    BY <1>13, CrashKeeps
  <1>14. CASE UNCHANGED vars
    BY <1>14, UnchangedKeeps DEF vars
  <1> QED
    BY <1>1, <1>2, <1>3, <1>4, <1>5, <1>6, <1>7, <1>8, <1>9, <1>10, <1>11, <1>12, <1>13, <1>14
    DEF Next

LEMMA Invariance == Spec => []IInv
  BY InitIInv, NextKeeps, PTL DEF Spec

-----------------------------------------------------------------------------
(* Whatever the graph, the policy and the failures are, and whatever is      *)
(* cancelled, rerun, lost or restarted, every row, observation and plan of a *)
(* run stays well formed and only dispatched attempts are claimed            *)
(* (runTick, applyPipelineSchedulerPlan, claimRunnerDispatch).               *)
THEOREM TypeCorrect == Spec => []TypeOK
  <1>1. IInv => TypeOK
    BY DEF IInv
  <1> QED
    BY <1>1, Invariance, PTL

(* At no point of a tick, and never in the store, are more than              *)
(* maxConcurrentWorkers stages in flight: queueReadyStages is the only step  *)
(* that adds one, and no observation, rerun, retry or restart brings one     *)
(* back.                                                                    *)
THEOREM ConcurrencyBounded == Spec => []WithinConcurrency
  <1>1. IInv => WithinConcurrency
    BY DEF IInv
  <1> QED
    BY <1>1, Invariance, PTL
-----------------------------------------------------------------------------
(* The transitions of a stage. *)

LEMMA RowPermits ==
  ASSUME NEW row \in Table, NEW from \in row[1], NEW reason \in row[3]
  PROVE  IsPermittedTransition(from, row[2], reason)
  BY DEF IsPermittedTransition

(* The rows the scheduler uses. *)
LEMMA UsedRows ==
  /\ \A from \in {"queued", "waiting"} : IsPermittedTransition(from, "running", "attempt_started")
  /\ \A from \in InFlightStates :
       IsPermittedTransition(from, "cancelled", "cancellation_settled")
  /\ \A from \in {"running", "waiting"} :
       /\ IsPermittedTransition(from, "waiting", "attempt_waiting")
       /\ IsPermittedTransition(from, "succeeded", "attempt_succeeded")
       /\ IsPermittedTransition(from, "failed", "attempt_failed")
       /\ IsPermittedTransition(from, "failed", "retry_exhausted")
       /\ IsPermittedTransition(from, "retrying", "retry_scheduled")
       /\ IsPermittedTransition(from, "blocked", "condition_blocked")
  /\ \A from \in TerminalStates : IsPermittedTransition(from, "pending", "manual_rerun")
  /\ \A from \in {"pending", "ready", "retrying"} :
       /\ IsPermittedTransition(from, "cancelled", "pipeline_cancelled")
       /\ IsPermittedTransition(from, "cancelled", "deadline_exceeded")
  /\ IsPermittedTransition("retrying", "ready", "retry_scheduled")
  /\ IsPermittedTransition("pending", "ready", "root_eligible")
  /\ IsPermittedTransition("pending", "ready", "dependencies_satisfied")
  /\ IsPermittedTransition("pending", "blocked", "dependency_unsatisfied")
  /\ IsPermittedTransition("pending", "cancelled", "condition_not_selected")
  /\ IsPermittedTransition("ready", "queued", "dispatch_intent")
  <1>1. \A from \in {"queued", "waiting"} : IsPermittedTransition(from, "running", "attempt_started")
    <2>1. <<{"queued", "waiting"}, "running", {"attempt_started"}>> \in Table
      BY DEF Table
    <2> QED
      BY <2>1, RowPermits
  <1>2. \A from \in InFlightStates :
          IsPermittedTransition(from, "cancelled", "cancellation_settled")
    <2>1. <<InFlightStates, "cancelled", {"cancellation_settled"}>> \in Table
      BY DEF Table
    <2> QED
      BY <2>1, RowPermits
  <1>3. ASSUME NEW from \in {"running", "waiting"}
        PROVE  /\ IsPermittedTransition(from, "waiting", "attempt_waiting")
               /\ IsPermittedTransition(from, "succeeded", "attempt_succeeded")
               /\ IsPermittedTransition(from, "failed", "attempt_failed")
               /\ IsPermittedTransition(from, "failed", "retry_exhausted")
               /\ IsPermittedTransition(from, "retrying", "retry_scheduled")
               /\ IsPermittedTransition(from, "blocked", "condition_blocked")
    <2>1. /\ <<{"running", "waiting"}, "waiting", {"attempt_waiting"}>> \in Table
          /\ <<{"running", "waiting"}, "succeeded", {"attempt_succeeded"}>> \in Table
          /\ <<{"running", "waiting"}, "failed", {"attempt_failed", "retry_exhausted"}>> \in Table
          /\ <<{"running", "waiting"}, "retrying", {"retry_scheduled"}>> \in Table
          /\ <<{"running", "waiting"}, "blocked", {"condition_blocked"}>> \in Table
      BY DEF Table
    <2>2. /\ IsPermittedTransition(from, "waiting", "attempt_waiting")
          /\ IsPermittedTransition(from, "succeeded", "attempt_succeeded")
      BY <2>1, RowPermits
    <2>3. /\ IsPermittedTransition(from, "failed", "attempt_failed")
          /\ IsPermittedTransition(from, "failed", "retry_exhausted")
      BY <2>1, RowPermits
    <2>4. /\ IsPermittedTransition(from, "retrying", "retry_scheduled")
          /\ IsPermittedTransition(from, "blocked", "condition_blocked")
      BY <2>1, RowPermits
    <2> QED
      BY <2>2, <2>3, <2>4
  <1>4. \A from \in TerminalStates : IsPermittedTransition(from, "pending", "manual_rerun")
    <2>1. <<TerminalStates, "pending", {"manual_rerun"}>> \in Table
      BY DEF Table
    <2> QED
      BY <2>1, RowPermits
  <1>5. ASSUME NEW from \in {"pending", "ready", "retrying"}
        PROVE  /\ IsPermittedTransition(from, "cancelled", "pipeline_cancelled")
               /\ IsPermittedTransition(from, "cancelled", "deadline_exceeded")
    <2>1. /\ <<{"pending", "ready"}, "cancelled", {"condition_not_selected", "cancel_requested",
               "pipeline_cancelled", "deadline_exceeded"}>> \in Table
          /\ <<{"retrying"}, "cancelled", {"cancel_requested", "pipeline_cancelled",
               "deadline_exceeded"}>> \in Table
      BY DEF Table
    <2> QED
      BY <2>1, RowPermits
  <1>6. IsPermittedTransition("retrying", "ready", "retry_scheduled")
    <2>1. <<{"retrying"}, "ready", {"retry_scheduled"}>> \in Table
      BY DEF Table
    <2> QED
      BY <2>1, RowPermits
  <1>7. /\ IsPermittedTransition("pending", "ready", "root_eligible")
        /\ IsPermittedTransition("pending", "ready", "dependencies_satisfied")
    <2>1. <<{"pending"}, "ready", {"dependencies_satisfied", "root_eligible"}>> \in Table
      BY DEF Table
    <2> QED
      BY <2>1, RowPermits
  <1>8. IsPermittedTransition("pending", "blocked", "dependency_unsatisfied")
    <2>1. <<{"pending"}, "blocked", {"condition_blocked", "dependency_unsatisfied"}>> \in Table
      BY DEF Table
    <2> QED
      BY <2>1, RowPermits
  <1>9. IsPermittedTransition("pending", "cancelled", "condition_not_selected")
    <2>1. <<{"pending", "ready"}, "cancelled", {"condition_not_selected", "cancel_requested",
            "pipeline_cancelled", "deadline_exceeded"}>> \in Table
      BY DEF Table
    <2> QED
      BY <2>1, RowPermits
  <1>10. IsPermittedTransition("ready", "queued", "dispatch_intent")
    <2>1. <<{"ready"}, "queued", {"dispatch_intent"}>> \in Table
      BY DEF Table
    <2> QED
      BY <2>1, RowPermits
  <1> QED
    BY <1>1, <1>2, <1>3, <1>4, <1>5, <1>6, <1>7, <1>8, <1>9, <1>10
(* Outside a tick the working copy is what the store holds. *)
IdleCopy == phase = "idle" => working = stages

LEMMA IdleCopyHolds == Spec => []IdleCopy
  <1>1. Init => IdleCopy
    BY DEF Init, IdleCopy
  <1>2. IdleCopy /\ [Next]_vars => IdleCopy'
    <2> SUFFICES ASSUME IdleCopy, [Next]_vars PROVE IdleCopy'
      OBVIOUS
    <2> USE DEF IdleCopy, storeVars, tickVars
    <2>1. ASSUME NEW s, NEW st, phase = "observe", Consume(s, st) PROVE IdleCopy'
      BY <2>1 DEF Consume
    <2>2. ASSUME NEW o, RecordAndTick(o) PROVE IdleCopy'
      BY <2>2 DEF RecordAndTick, Load
    <2>3. CASE TickSteps
      <3>1. CASE AttemptStarted \/ AttemptWaiting \/ AttemptSucceeded \/ CancellationSettled
        BY <2>1, <3>1 DEF AttemptStarted, AttemptWaiting, AttemptSucceeded, CancellationSettled,
                          Observe, Observed
      <3>2. CASE AttemptFailed
        BY <2>1, <3>2 DEF AttemptFailed, Observed
      <3>3. CASE RecoveryApproved
        BY <2>1, <3>3 DEF RecoveryApproved, Observed
      <3>4. CASE RecoveryRejected
        BY <2>1, <3>4 DEF RecoveryRejected, Observed
      <3>5. CASE CancelObserved
        BY <3>5 DEF CancelObserved, Observed
      <3>6. CASE EvaluatorDecided
        BY <3>6 DEF EvaluatorDecided, Observed
      <3>7. CASE ManualRerun
        BY <3>7 DEF ManualRerun, Observed
      <3>8. CASE CancelAndRearm
        BY <3>8 DEF CancelAndRearm
      <3>9. CASE AskEvaluators
        BY <3>9 DEF AskEvaluators
      <3>10. CASE Release
        BY <3>10 DEF Release
      <3>11. CASE Queue
        BY <3>11 DEF Queue
      <3>12. CASE Apply
        BY <3>12 DEF Apply
      <3> QED
        BY <2>3, <3>1, <3>2, <3>3, <3>4, <3>5, <3>6, <3>7, <3>8, <3>9, <3>10, <3>11, <3>12
        DEF TickSteps
    <2>4. CASE Tick
      BY <2>4 DEF Tick, Load
    <2>5. CASE Claims
      BY <2>5 DEF Claims, ClaimDispatch
    <2>6. CASE Starts
      BY <2>2, <2>6 DEF Starts, StartRunner
    <2>7. ASSUME NEW a, SettleSucceeded(a) \/ SettleFailed(a) PROVE IdleCopy'
      BY <2>2, <2>7 DEF SettleSucceeded, SettleFailed, Finalize
    <2>8. CASE Finishes
      BY <2>7, <2>8 DEF Finishes, FinishSucceeded, FinishFailed
    <2>9. CASE DrivesCancel
      BY <2>2, <2>7, <2>9 DEF DrivesCancel, CancelRunner, CancelTooLate, CancelWithoutRunner,
                              Finalize
    <2>10. CASE \E a \in DOMAIN runner : MarkWaiting(a) \/ LoseRunner(a) \/ CrashBeforeState(a)
      BY <2>2, <2>10 DEF MarkWaiting, LoseRunner, CrashBeforeState
    <2>11. CASE AnswersProposal
      BY <2>11 DEF AnswersProposal, RecordRecoveryApproval, Record
    <2>12. CASE AnswersEvaluator
      BY <2>12 DEF AnswersEvaluator, DecideEvaluator, Record
    <2>13. CASE RequestCancel \/ \E s \in Stages : RequestRerun(s)
      BY <2>2, <2>13 DEF RequestCancel, RequestRerun
    <2>14. CASE DeadlinePasses
      BY <2>14 DEF DeadlinePasses
    <2>15. CASE Crash
      BY <2>15 DEF Crash
    <2>16. CASE UNCHANGED vars
      BY <2>16 DEF vars
    <2> QED
      BY <2>3, <2>4, <2>5, <2>6, <2>8, <2>9, <2>10, <2>11, <2>12, <2>13, <2>14, <2>15, <2>16
      DEF Next
  <1> QED
    BY <1>1, <1>2, PTL DEF Spec

LEMMA CrashesCounted == Spec => [](crashes \in Nat)
  <1>1. Init => crashes \in Nat
    BY DEF Init
  <1>2. crashes \in Nat /\ [Next]_vars => (crashes \in Nat)'
    <2> SUFFICES ASSUME crashes \in Nat, [Next]_vars PROVE crashes' \in Nat
      OBVIOUS
    <2> USE DEF envVars
    <2>1. CASE TickSteps
      BY <2>1, Zenon DEF TickSteps, AttemptStarted, AttemptWaiting, AttemptSucceeded,
        CancellationSettled, Observe, AttemptFailed, RecoveryApproved, RecoveryRejected, Consume,
        CancelObserved, EvaluatorDecided, ManualRerun, CancelAndRearm, AskEvaluators, Release,
        Queue, Apply
    <2>2. ASSUME NEW a, SettleSucceeded(a) \/ SettleFailed(a) PROVE crashes' \in Nat
      BY <2>2 DEF SettleSucceeded, SettleFailed
    <2>3. CASE Tick \/ Claims \/ Starts \/ Finishes \/ DrivesCancel
      BY <2>2, <2>3 DEF Tick, Claims, ClaimDispatch, Starts, StartRunner, Finishes,
        FinishSucceeded, FinishFailed, DrivesCancel, CancelRunner, CancelTooLate,
        CancelWithoutRunner
    <2>4. CASE \E a \in DOMAIN runner : MarkWaiting(a) \/ LoseRunner(a) \/ CrashBeforeState(a)
      BY <2>4 DEF MarkWaiting, LoseRunner, CrashBeforeState
    <2>5. CASE AnswersProposal \/ AnswersEvaluator
      BY <2>5 DEF AnswersProposal, AnswersEvaluator, RecordRecoveryApproval, DecideEvaluator
    <2>6. CASE RequestCancel \/ (\E s \in Stages : RequestRerun(s)) \/ DeadlinePasses \/ Crash
      BY <2>6 DEF RequestCancel, RequestRerun, DeadlinePasses, Crash
    <2>7. CASE UNCHANGED vars
      BY <2>7 DEF vars
    <2> QED
      BY <2>1, <2>3, <2>4, <2>5, <2>6, <2>7 DEF Next
  <1> QED
    BY <1>1, <1>2, PTL DEF Spec

StepDeclared == \A s \in Stages : Declared(working[s], working'[s])

LEMMA SameDeclared == ASSUME working' = working PROVE StepDeclared
  BY DEF StepDeclared, Declared

LEMMA OneStageDeclared ==
  ASSUME IInv, NEW s \in Stages, NEW st, working' = [working EXCEPT ![s] = st],
         Declared(working[s], st)
  PROVE  StepDeclared
  <1>1. working \in [Stages -> StageType]
    BY DEF IInv, TypeOK, TickTypeOK
  <1>2. ASSUME NEW t \in Stages PROVE Declared(working[t], working'[t])
    <2>1. CASE t = s
      BY <1>1, <2>1
    <2>2. CASE t # s
      <3>1. working'[t] = working[t]
        BY <1>1, <2>2
      <3> QED
        BY <3>1 DEF Declared
    <2> QED
      BY <2>1, <2>2
  <1> QED
    BY <1>2 DEF StepDeclared

LEMMA ObserveDeclared ==
  ASSUME IInv, NEW kind \in Reasons, NEW from \in SUBSET InFlightStates, NEW to \in States,
         \A state \in from : IsPermittedTransition(state, to, kind),
         Observe(kind, from, to)
  PROVE  StepDeclared
  <1> DEFINE o == Head(batch)
             s == o.stage
             moved == Naming(ApplyTransition(working[s], to, kind), o)
             st == IF working[s].state \in from THEN moved ELSE working[s]
  <1>1. batch # <<>> /\ working' = [working EXCEPT ![s] = st]
    BY DEF Observe, Observed, Consume
  <1>2. o \in ObservationType /\ s \in Stages
    BY <1>1, BatchTyped
  <1>3. working[s] \in StageType
    BY <1>2 DEF IInv, TypeOK, TickTypeOK
  <1>4. moved.state = to /\ moved.reason = kind
    BY <1>2, <1>3, TransitionTyped, NamingTyped
  <1>5. Declared(working[s], st)
    <2> HIDE DEF moved, s, o
    <2> QED
      BY <1>4 DEF Declared
  <1> HIDE DEF st, s
  <1> QED
    BY <1>1, <1>2, <1>5, OneStageDeclared

LEMMA RecoveryDeclared ==
  ASSUME NEW st \in StageType, NEW d \in Decisions, st.state \in {"running", "waiting"}
  PROVE  LET new == ApplyRecoveryDecision(st, d)
         IN IsPermittedTransition(st.state, new.state, new.reason)
  <1> DEFINE new == ApplyRecoveryDecision(st, d)
  <1>1. <<new.state, new.reason>> \in
          {<<"failed", "attempt_failed">>, <<"failed", "retry_exhausted">>,
           <<"blocked", "condition_blocked">>, <<"waiting", "attempt_waiting">>,
           <<"retrying", "retry_scheduled">>}
    <2> USE DEF ApplyRecoveryDecision, ApplyTransition, StageType
    <2>1. CASE d = "fail"
      BY <2>1
    <2>2. CASE d = "exhaust"
      BY <2>2
    <2>3. CASE d = "block"
      BY <2>3
    <2>4. CASE d = "propose"
      BY <2>4
    <2>5. CASE d = "retry"
      BY <2>5
    <2>6. CASE d = "rearm"
      BY <2>6
    <2> QED
      BY <2>1, <2>2, <2>3, <2>4, <2>5, <2>6 DEF Decisions
  <1> HIDE DEF new
  <1>2. IsPermittedTransition(st.state, new.state, new.reason)
    BY <1>1, UsedRows
  <1> QED
    BY <1>2 DEF new
LEMMA AttemptFailedDeclared == ASSUME IInv, AttemptFailed PROVE StepDeclared
  <1> DEFINE o == Head(batch)
             s == o.stage
             counted == IF o.failure.class \in {"bare", "bare_retryable"}
                        THEN working[s] ELSE Counted(working[s], o.failure)
             decided == DecideRecovery(s, counted, o.failure)
             new == ApplyRecoveryDecision(counted, decided)
             st == IF working[s].state \in {"running", "waiting"} THEN Naming(new, o) ELSE working[s]
  <1>1. batch # <<>> /\ working' = [working EXCEPT ![s] = st]
    BY DEF AttemptFailed, Observed, Consume
  <1>2. o \in ObservationType /\ s \in Stages
    BY <1>1, BatchTyped
  <1>3. working[s] \in StageType
    BY <1>2 DEF IInv, TypeOK, TickTypeOK
  <1>4. o.failure \in FailureType
    BY <1>2 DEF ObservationType
  <1>5. counted \in StageType /\ counted.state = working[s].state
    <2> HIDE DEF s, o
    <2> QED
      BY <1>3, <1>4, CountedTyped
  <1>6. decided \in Decisions
    <2> HIDE DEF counted, s, o
    <2> QED
      BY <1>2, <1>4, <1>5, DecisionTyped
  <1>7. new \in StageType
    <2> HIDE DEF counted, decided, s, o
    <2> QED
      BY <1>5, <1>6, RecoveryTyped
  <1>8. Declared(working[s], st)
    <2>1. CASE working[s].state \in {"running", "waiting"}
      <3> HIDE DEF counted, decided
      <3>1. IsPermittedTransition(counted.state, new.state, new.reason)
        BY <1>5, <1>6, <2>1, RecoveryDeclared
      <3> HIDE DEF new, s, o
      <3>2. Naming(new, o).state = new.state /\ Naming(new, o).reason = new.reason
        BY <1>2, <1>7, NamingTyped
      <3>3. st = Naming(new, o)
        BY <2>1
      <3> HIDE DEF st
      <3> QED
        BY <1>5, <3>1, <3>2, <3>3 DEF Declared
    <2>2. CASE working[s].state \notin {"running", "waiting"}
      BY <2>2 DEF Declared
    <2> QED
      BY <2>1, <2>2
  <1> HIDE DEF st, s
  <1> QED
    BY <1>1, <1>2, <1>8, OneStageDeclared

LEMMA AnswerDeclared == ASSUME IInv, RecoveryApproved \/ RecoveryRejected PROVE StepDeclared
  <1> DEFINE s == Head(batch).stage
             retried == ApplyRecoveryDecision(working[s], "retry")
             failed == [ApplyTransition(working[s], "failed", "attempt_failed")
                          EXCEPT !.proposal = None]
  <1>1. batch # <<>>
    BY DEF RecoveryApproved, RecoveryRejected, Observed
  <1>2. s \in Stages
    BY <1>1, BatchTyped
  <1>3. working[s] \in StageType
    BY <1>2 DEF IInv, TypeOK, TickTypeOK
  <1>4. PICK st : /\ working' = [working EXCEPT ![s] = st]
                  /\ (st = working[s])
                     \/ (working[s].state = "waiting" /\ st \in {retried, failed})
    <2>1. CASE RecoveryApproved
      <3> DEFINE st == IF working[s].state = "waiting" /\ working[s].proposal = Head(batch).proposal
                       THEN retried ELSE working[s]
      <3>1. working' = [working EXCEPT ![s] = st]
        BY <2>1 DEF RecoveryApproved, Consume
      <3> WITNESS st
      <3> HIDE DEF retried, failed, s
      <3> QED
        BY <3>1
    <2>2. CASE RecoveryRejected
      <3> DEFINE st == IF working[s].state = "waiting"
                          /\ working[s].proposal \in {None, Head(batch).proposal}
                       THEN failed ELSE working[s]
      <3>1. working' = [working EXCEPT ![s] = st]
        BY <2>2 DEF RecoveryRejected, Consume
      <3> WITNESS st
      <3> HIDE DEF retried, failed, s
      <3> QED
        BY <3>1
    <2> QED
      BY <2>1, <2>2
  <1>5. ASSUME working[s].state = "waiting"
        PROVE  IsPermittedTransition(working[s].state, retried.state, retried.reason)
    BY <1>3, <1>5, RecoveryDeclared DEF Decisions
  <1>6. failed.state = "failed" /\ failed.reason = "attempt_failed"
    BY <1>3 DEF ApplyTransition, StageType
  <1> HIDE DEF s, retried, failed
  <1>7. Declared(working[s], st)
    BY <1>4, <1>5, <1>6, UsedRows DEF Declared
  <1> QED
    BY <1>2, <1>4, <1>7, OneStageDeclared

LEMMA ManualRerunDeclared == ASSUME IInv, ManualRerun PROVE StepDeclared
  <1> DEFINE again == {Head(batch).stage} \cup Descendants(Head(batch).stage)
             renewed(t) == [NewStage EXCEPT !.generation = working[t].generation + 1,
                                            !.reason = "manual_rerun"]
  <1>1. working' = [t \in Stages |->
          IF t \in again /\ working[t].state \in TerminalStates \cup {"pending"}
          THEN renewed(t) ELSE working[t]]
    BY DEF ManualRerun
  <1>2. ASSUME NEW t \in Stages
        PROVE  renewed(t).state = "pending" /\ renewed(t).reason = "manual_rerun"
    BY DEF NewStage
  <1> HIDE DEF again, renewed
  <1>3. ASSUME NEW t \in Stages PROVE Declared(working[t], working'[t])
    <2>1. CASE working'[t] = working[t]
      BY <2>1 DEF Declared
    <2>2. CASE working'[t] = renewed(t) /\ working[t].state \in TerminalStates \cup {"pending"}
      BY <1>2, <2>2, UsedRows DEF Declared
    <2> QED
      BY <1>1, <2>1, <2>2
  <1> QED
    BY <1>3 DEF StepDeclared

(* cancelInactiveStage takes declared transitions, and so does the rearm     *)
(* that follows it: a stopping run rearms nothing.                          *)
LEMMA CancelInactiveDeclared ==
  ASSUME NEW w \in [Stages -> StageType], NEW s \in Stages
  PROVE  /\ Declared(w[s], CancelInactive(w)[s])
         /\ ~Stopping => CancelInactive(w)[s] = w[s]
         /\ Stopping => Rearm(CancelInactive(w))[s] = CancelInactive(w)[s]
  <1> DEFINE why == IF overdue THEN "deadline_exceeded" ELSE "pipeline_cancelled"
             stopped == [ApplyTransition(w[s], "cancelled", why) EXCEPT !.attempt = None]
  <1>1. CancelInactive(w)[s] = IF Stopping /\ w[s].state \in {"pending", "ready", "retrying"}
                               THEN stopped ELSE w[s]
    BY DEF CancelInactive
  <1>2. stopped.state = "cancelled" /\ stopped.reason = why
    BY DEF ApplyTransition, StageType
  <1>3. Rearm(CancelInactive(w))[s] = IF Stopping THEN CancelInactive(w)[s]
                                      ELSE Rearm(CancelInactive(w))[s]
    BY DEF Rearm
  <1>4. why \in {"deadline_exceeded", "pipeline_cancelled"}
    OBVIOUS
  <1> HIDE DEF stopped, why
  <1>5. Declared(w[s], CancelInactive(w)[s])
    BY <1>1, <1>2, <1>4, UsedRows DEF Declared
  <1> QED
    BY <1>1, <1>3, <1>5

LEMMA CancelAndRearmDeclared == ASSUME IInv, CancelAndRearm PROVE StepDeclared
  <1> DEFINE c == CancelInactive(working)
  <1>1. working' = Rearm(c) /\ working \in [Stages -> StageType]
    BY DEF CancelAndRearm, IInv, TypeOK, TickTypeOK
  <1>2. ASSUME NEW s \in Stages PROVE Declared(working[s], working'[s])
    <2>1. CASE Stopping
      BY <1>1, <2>1, CancelInactiveDeclared
    <2>2. CASE ~Stopping
      <3> DEFINE armed == [ApplyTransition(working[s], "ready", "retry_scheduled")
                             EXCEPT !.attempt = None]
      <3>1. c[s] = working[s]
        BY <1>1, <2>2, CancelInactiveDeclared
      <3>2. working'[s] = IF s \in retryingAtTickStart /\ working[s].state = "retrying"
                          THEN armed ELSE working[s]
        <4> HIDE DEF c
        <4> QED
          BY <1>1, <2>2, <3>1 DEF Rearm
      <3>3. armed.state = "ready" /\ armed.reason = "retry_scheduled"
        BY <1>1 DEF ApplyTransition, StageType
      <3> HIDE DEF armed
      <3> QED
        BY <3>2, <3>3, UsedRows DEF Declared
    <2> QED
      BY <2>1, <2>2
  <1> QED
    BY <1>2 DEF StepDeclared

LEMMA ReleaseDeclared == ASSUME IInv, Release PROVE StepDeclared
  <1> DEFINE s == Min(Releasable)
             st == working[s]
             new == ReleasedStage(s)
  <1>1. s \in Stages /\ st.state = "pending"
    <2>1. Releasable # {} /\ Releasable \in SUBSET Stages
      BY DEF Release, Releasable
    <2>2. s \in Releasable
      BY <2>1, LowestIsMember
    <2> HIDE DEF s
    <2> QED
      BY <2>2 DEF Releasable, Candidate
  <1>2. working' = [working EXCEPT ![s] = new]
    BY DEF Release
  <1> HIDE DEF s
  <1>3. st \in StageType
    BY <1>1 DEF IInv, TypeOK, TickTypeOK
  <1>4. <<new.state, new.reason>> \in
          {<<"ready", "root_eligible">>, <<"ready", "dependencies_satisfied">>,
           <<"blocked", "dependency_unsatisfied">>, <<"cancelled", "condition_not_selected">>}
    <2> DEFINE resolved == {ResolveEdge(e) : e \in Incoming(s)}
               skipped == [ApplyTransition(st, "cancelled", "condition_not_selected")
                             EXCEPT !.selected = FALSE, !.attempt = None]
    <2>1. new \in {ApplyTransition(st, "ready", "root_eligible"),
                   ApplyTransition(st, "ready", "dependencies_satisfied"),
                   ApplyTransition(st, "blocked", "dependency_unsatisfied"), skipped}
      <3>1. CASE Incoming(s) = {}
        BY <3>1 DEF ReleasedStage
      <3>2. CASE Incoming(s) # {} /\ "blocked" \in resolved
        BY <3>2 DEF ReleasedStage
      <3>3. CASE Incoming(s) # {} /\ "blocked" \notin resolved
        BY <3>3 DEF ReleasedStage
      <3> QED
        BY <3>1, <3>2, <3>3
    <2> HIDE DEF new, st
    <2>2. skipped.state = "cancelled" /\ skipped.reason = "condition_not_selected"
      BY <1>3 DEF ApplyTransition, StageType
    <2> HIDE DEF skipped
    <2> QED
      BY <1>3, <2>1, <2>2 DEF ApplyTransition, StageType
  <1>5. Declared(st, new)
    <2> HIDE DEF new, st
    <2> QED
      BY <1>1, <1>4, UsedRows DEF Declared
  <1> HIDE DEF new
  <1> QED
    BY <1>1, <1>2, <1>5, OneStageDeclared

LEMMA QueueDeclared == ASSUME IInv, Queue PROVE StepDeclared
  <1> DEFINE s == Min(ReadyStages)
             st == working[s]
             queued == [ApplyTransition(st, "queued", "dispatch_intent")
                          EXCEPT !.ordinal = st.ordinal + 1, !.proposal = None,
                                 !.attempt = <<st.generation, st.ordinal + 1>>]
  <1>1. s \in Stages /\ st.state = "ready"
    <2>1. ReadyStages # {} /\ ReadyStages \in SUBSET Stages
      BY DEF Queue, MayQueue, ReadyStages
    <2>2. s \in ReadyStages
      BY <2>1, LowestIsMember
    <2> HIDE DEF s
    <2> QED
      BY <2>2 DEF ReadyStages
  <1>2. working' = [working EXCEPT ![s] = queued]
    BY DEF Queue
  <1> HIDE DEF s
  <1>3. st \in StageType
    BY <1>1 DEF IInv, TypeOK, TickTypeOK
  <1>4. queued.state = "queued" /\ queued.reason = "dispatch_intent"
    <2> HIDE DEF st
    <2> QED
      BY <1>3 DEF ApplyTransition, StageType
  <1> HIDE DEF queued
  <1>5. Declared(working[s], queued)
    BY <1>1, <1>4, UsedRows DEF Declared
  <1> QED
    BY <1>1, <1>2, <1>5, OneStageDeclared

LEMMA ApplyDeclared == ASSUME IInv, Apply PROVE StepDeclared
  BY CancelInactiveDeclared DEF Apply, StepDeclared, IInv, TypeOK, TickTypeOK

LEMMA TickStepsDeclared == ASSUME IInv, TickSteps PROVE StepDeclared
  <1>1. CASE AttemptStarted
    BY <1>1, ObserveDeclared, UsedRows DEF AttemptStarted, InFlightStates, States, Reasons
  <1>2. CASE AttemptWaiting
    BY <1>2, ObserveDeclared, UsedRows DEF AttemptWaiting, InFlightStates, States, Reasons
  <1>3. CASE AttemptSucceeded
    BY <1>3, ObserveDeclared, UsedRows
    DEF AttemptSucceeded, InFlightStates, TerminalStates, States, Reasons
  <1>4. CASE CancellationSettled
    BY <1>4, ObserveDeclared, UsedRows
    DEF CancellationSettled, TerminalStates, States, Reasons
  <1>5. CASE CancelObserved
    BY <1>5, SameDeclared DEF CancelObserved
  <1>6. CASE EvaluatorDecided
    BY <1>6, SameDeclared DEF EvaluatorDecided
  <1>7. CASE AskEvaluators
    BY <1>7, SameDeclared DEF AskEvaluators
  <1> QED
    BY <1>1, <1>2, <1>3, <1>4, <1>5, <1>6, <1>7, AttemptFailedDeclared, AnswerDeclared,
       ManualRerunDeclared, CancelAndRearmDeclared, ReleaseDeclared, QueueDeclared, ApplyDeclared
    DEF TickSteps

(* No tick ever makes a transition PERMITTED_TRANSITIONS does not declare,   *)
(* for every graph and policy: assertPermittedTransition never throws, so no *)
(* run is wedged by a tick that throws again and again.                      *)
THEOREM TransitionsDeclared == Spec => NoUndeclaredTransition
  <1>1. IInv /\ IdleCopy /\ crashes \in Nat /\ [Next]_vars
          => [crashes' = crashes => StepDeclared]_vars
    <2> SUFFICES ASSUME IInv, IdleCopy, crashes \in Nat, [Next]_vars, crashes' = crashes
                 PROVE  StepDeclared
      OBVIOUS
    <2> USE DEF tickVars
    <2>1. ASSUME NEW o, RecordAndTick(o) PROVE StepDeclared
      BY <2>1, SameDeclared DEF RecordAndTick, Record, Load, IdleCopy
    <2>2. ASSUME NEW a, SettleSucceeded(a) \/ SettleFailed(a) PROVE StepDeclared
      BY <2>1, <2>2 DEF SettleSucceeded, SettleFailed, Finalize
    <2>3. CASE TickSteps
      BY <2>3, TickStepsDeclared
    <2>4. CASE Tick
      BY <2>4, SameDeclared DEF Tick, Load, IdleCopy
    <2>5. CASE Claims
      BY <2>5, SameDeclared DEF Claims, ClaimDispatch
    <2>6. CASE Starts
      BY <2>1, <2>6 DEF Starts, StartRunner
    <2>7. CASE Finishes
      BY <2>2, <2>7 DEF Finishes, FinishSucceeded, FinishFailed
    <2>8. CASE DrivesCancel
      BY <2>1, <2>2, <2>8 DEF DrivesCancel, CancelRunner, CancelTooLate, CancelWithoutRunner,
                              Finalize
    <2>9. CASE \E a \in DOMAIN runner : MarkWaiting(a) \/ LoseRunner(a) \/ CrashBeforeState(a)
      BY <2>1, <2>9, SameDeclared DEF MarkWaiting, LoseRunner, CrashBeforeState
    <2>10. CASE AnswersProposal \/ AnswersEvaluator
      BY <2>10, SameDeclared DEF AnswersProposal, AnswersEvaluator, RecordRecoveryApproval,
                                 DecideEvaluator
    <2>11. CASE RequestCancel \/ \E s \in Stages : RequestRerun(s)
      BY <2>1, <2>11 DEF RequestCancel, RequestRerun
    <2>12. CASE DeadlinePasses
      BY <2>12, SameDeclared DEF DeadlinePasses
    <2>13. CASE Crash
      BY <2>13 DEF Crash
    <2>14. CASE UNCHANGED vars
      BY <2>14, SameDeclared DEF vars
    <2> QED
      BY <2>3, <2>4, <2>5, <2>6, <2>7, <2>8, <2>9, <2>10, <2>11, <2>12, <2>13, <2>14 DEF Next
  <1> QED
    BY <1>1, Invariance, IdleCopyHolds, CrashesCounted, PTL DEF Spec, NoUndeclaredTransition,
       StepDeclared

-----------------------------------------------------------------------------
(* What a tick makes of the columns of one stage. *)

Unattempted == {"pending", "ready", "retrying"}

(* The columns that only a retry, a dispatch or a rerun changes. *)
SameAttempts(w, n) == n.generation = w.generation /\ n.ordinal = w.ordinal
SameCharge(w, n) ==
  SameAttempts(w, n) /\ n.repairsUsed = w.repairsUsed /\ n.proposal = w.proposal

(* What a failed attempt leads to. *)
FailureShape(s, f, w, n) ==
  /\ w.state \in {"running", "waiting"} /\ SameAttempts(w, n)
  /\ \/ n.state \in {"failed", "blocked"} /\ SameCharge(w, n)
     \/ /\ n.state = "waiting" /\ n.proposal = <<w.generation, w.ordinal>>
        /\ n.repairsUsed = w.repairsUsed /\ w.repairsUsed < Budget[s]
     \/ /\ n.state = "retrying" /\ n.proposal = None
        /\ n.repairsUsed = w.repairsUsed + 1 /\ w.repairsUsed < Budget[s]
     \/ /\ n.state = "retrying" /\ SameCharge(w, n)
        /\ f.class = "bare_retryable" /\ w.ordinal - 1 < Budget[s]

(* An observation of an attempt moves its stage. *)
AttemptShape(s, o, w, n) ==
  /\ n.attempt = IF o.attempt = None THEN w.attempt ELSE o.attempt
  /\ \/ /\ o.kind = "attempt_started" /\ w.state \in {"queued", "waiting"}
        /\ n.state = "running" /\ SameCharge(w, n)
     \/ /\ o.kind = "attempt_waiting" /\ w.state = "running"
        /\ n.state = "waiting" /\ SameCharge(w, n)
     \/ /\ o.kind = "attempt_succeeded" /\ w.state \in {"running", "waiting"}
        /\ n.state = "succeeded" /\ SameCharge(w, n)
     \/ /\ o.kind = "cancellation_settled" /\ w.state \in InFlightStates
        /\ n.state = "cancelled" /\ SameCharge(w, n)
     \/ o.kind = "attempt_failed" /\ FailureShape(s, o.failure, w, n)

(* A person's answer moves its stage. *)
AnswerShape(o, w, n) ==
  /\ w.state = "waiting" /\ SameAttempts(w, n) /\ n.proposal = None
  /\ \/ /\ o.kind = "recovery_approved" /\ w.proposal = o.proposal
        /\ n.state = "retrying" /\ n.repairsUsed = w.repairsUsed + 1
     \/ /\ o.kind = "recovery_rejected"
        /\ n.state = "failed" /\ n.repairsUsed = w.repairsUsed

(* An observation finds its stage in a state it does not move. *)
Ignored(o, w) ==
  /\ o.kind = "attempt_started" => w.state \notin {"queued", "waiting"}
  /\ o.kind \in {"attempt_succeeded", "attempt_failed"} => w.state \notin {"running", "waiting"}
  /\ o.kind = "cancellation_settled" => w.state \notin InFlightStates

Consumed(s, o, w, n) ==
  \/ n = w /\ Ignored(o, w)
  \/ AttemptShape(s, o, w, n)
  \/ AnswerShape(o, w, n)

PlainKinds ==
  {"attempt_started", "attempt_waiting", "attempt_succeeded", "attempt_failed",
   "cancellation_settled", "recovery_approved", "recovery_rejected"}

LEMMA TransitionFields ==
  ASSUME NEW st \in StageType, NEW to, NEW reason
  PROVE  LET n == ApplyTransition(st, to, reason) IN
         n.state = to /\ SameCharge(st, n) /\ n.attempt = st.attempt
  BY DEF ApplyTransition, StageType, SameCharge, SameAttempts

LEMMA NamingFields ==
  ASSUME NEW st \in StageType, NEW o
  PROVE  LET n == Naming(st, o) IN
         /\ n.state = st.state /\ SameCharge(st, n)
         /\ n.attempt = IF o.attempt = None THEN st.attempt ELSE o.attempt
  BY DEF Naming, StageType, SameCharge, SameAttempts

LEMMA ObserveShape ==
  ASSUME IInv, NEW kind \in Reasons, NEW from \in SUBSET InFlightStates, NEW to \in States,
         Observe(kind, from, to)
  PROVE  LET o == Head(batch)  s == o.stage  w == working[s]  n == working'[s] IN
         /\ o.kind = kind
         /\ \/ n = w /\ w.state \notin from
            \/ /\ w.state \in from /\ n.state = to /\ SameCharge(w, n)
               /\ n.attempt = IF o.attempt = None THEN w.attempt ELSE o.attempt
  <1> DEFINE o == Head(batch)
             s == o.stage
             w == working[s]
             moved == Naming(ApplyTransition(w, to, kind), o)
             st == IF w.state \in from THEN moved ELSE w
  <1>1. batch # <<>> /\ o.kind = kind /\ working' = [working EXCEPT ![s] = st]
    BY DEF Observe, Observed, Consume
  <1>2. o \in ObservationType /\ s \in Stages /\ working \in [Stages -> StageType]
    BY <1>1, BatchTyped DEF IInv, TypeOK, TickTypeOK
  <1>3. w \in StageType /\ working'[s] = st
    BY <1>1, <1>2
  <1> HIDE DEF o, s, w
  <1>4. ApplyTransition(w, to, kind) \in StageType
    BY <1>3, TransitionTyped
  <1>5. /\ moved.state = to /\ SameCharge(w, moved)
        /\ moved.attempt = IF o.attempt = None THEN w.attempt ELSE o.attempt
    BY <1>3, <1>4, TransitionFields, NamingFields DEF SameCharge, SameAttempts
  <1> HIDE DEF moved
  <1> QED
    BY <1>1, <1>3, <1>5 DEF o, s, w

(* A retry without a proposal costs a repair, a retry of an unclassified     *)
(* failure an attempt.                                                       *)
LEMMA DecisionShape ==
  ASSUME NEW s \in Stages, NEW f \in FailureType, NEW w \in StageType, NEW st \in StageType,
         w.state \in {"running", "waiting"}, SameCharge(w, st), st.state = w.state
  PROVE  FailureShape(s, f, w, ApplyRecoveryDecision(st, DecideRecovery(s, st, f)))
  <1> DEFINE d == DecideRecovery(s, st, f)
             n == ApplyRecoveryDecision(st, d)
  <1>1. d \in Decisions
    BY DecisionTyped
  <1>2. f.class \in {"fatal", "bare", "bare_retryable", "validation", "other"}
    BY DEF FailureType
  <1>3. d \in {"propose", "retry"} => st.repairsUsed < Budget[s]
    <2>1. CASE f.class \in {"fatal", "bare", "bare_retryable"}
      BY <2>1 DEF DecideRecovery
    <2>2. CASE f.class \in {"validation", "other"}
      <3>1. d \in {"propose", "retry"} => ~ (st.repairsUsed >= Budget[s])
        BY <2>2 DEF DecideRecovery
      <3>2. st.repairsUsed \in Nat /\ Budget[s] \in Nat
        BY DEF StageType
      <3> HIDE DEF d
      <3> QED
        BY <3>1, <3>2
    <2> QED
      BY <1>2, <2>1, <2>2
  <1>4. d = "rearm" => f.class = "bare_retryable" /\ st.ordinal - 1 < Budget[s]
    <2>1. CASE f.class \in {"fatal", "bare"}
      BY <2>1 DEF DecideRecovery
    <2>2. CASE f.class = "bare_retryable"
      BY <2>2 DEF DecideRecovery
    <2>3. CASE f.class \in {"validation", "other"}
      BY <2>3 DEF DecideRecovery
    <2> QED
      BY <1>2, <2>1, <2>2, <2>3
  <1> SUFFICES FailureShape(s, f, w, n)
    OBVIOUS
  <1> HIDE DEF d
  <1> USE DEF FailureShape, SameCharge, SameAttempts
  <1>5. CASE d \in {"fail", "exhaust", "block"}
    <2>1. n \in {ApplyTransition(st, "failed", "attempt_failed"),
                 ApplyTransition(st, "failed", "retry_exhausted"),
                 ApplyTransition(st, "blocked", "condition_blocked")}
      BY <1>5 DEF ApplyRecoveryDecision
    <2> QED
      BY <2>1, TransitionFields
  <1>6. CASE d = "propose"
    <2> DEFINE t == ApplyTransition(st, "waiting", "attempt_waiting")
    <2>1. n = [t EXCEPT !.proposal = <<st.generation, st.ordinal>>]
      BY <1>6 DEF ApplyRecoveryDecision
    <2>2. t \in StageType
      BY TransitionTyped DEF States, InFlightStates, Reasons
    <2>3. t.state = "waiting" /\ SameCharge(st, t) /\ t.attempt = st.attempt
      BY TransitionFields
    <2> HIDE DEF t
    <2>4. /\ n.state = "waiting" /\ n.proposal = <<st.generation, st.ordinal>>
          /\ n.repairsUsed = st.repairsUsed /\ SameAttempts(st, n)
      BY <2>1, <2>2, <2>3 DEF StageType
    <2> QED
      BY <1>3, <1>6, <2>4
  <1>7. CASE d = "retry"
    <2> DEFINE t == ApplyTransition(st, "retrying", "retry_scheduled")
    <2>1. n = [t EXCEPT !.repairsUsed = t.repairsUsed + 1, !.proposal = None]
      BY <1>7 DEF ApplyRecoveryDecision
    <2>2. t \in StageType
      BY TransitionTyped DEF States, Reasons
    <2>3. t.state = "retrying" /\ SameCharge(st, t) /\ t.attempt = st.attempt
      BY TransitionFields
    <2> HIDE DEF t
    <2>4. /\ n.state = "retrying" /\ n.proposal = None
          /\ n.repairsUsed = st.repairsUsed + 1 /\ SameAttempts(st, n)
      BY <2>1, <2>2, <2>3 DEF StageType
    <2> QED
      BY <1>3, <1>7, <2>4
  <1>8. CASE d = "rearm"
    <2>1. n = ApplyTransition(st, "retrying", "retry_scheduled")
      BY <1>8 DEF ApplyRecoveryDecision
    <2> QED
      BY <1>4, <1>8, <2>1, TransitionFields
  <1> QED
    BY <1>1, <1>5, <1>6, <1>7, <1>8 DEF Decisions

HeadConsumed ==
  /\ phase = "observe" /\ batch # <<>> /\ batch' = Tail(batch)
  /\ UNCHANGED <<storeVars, runner, phase, envVars, cancelRequested, plan>>

(* The head of the batch moves its own stage and no other. *)
PlainStep ==
  /\ HeadConsumed
  /\ \A t \in Stages : t # Head(batch).stage => working'[t] = working[t]
  /\ LET o == Head(batch)  s == o.stage IN Consumed(s, o, working[s], working'[s])

LEMMA ConsumeFrame ==
  ASSUME IInv, phase = "observe", batch # <<>>, NEW st, Consume(Head(batch).stage, st)
  PROVE  /\ HeadConsumed /\ working'[Head(batch).stage] = st
         /\ \A t \in Stages : t # Head(batch).stage => working'[t] = working[t]
  <1>1. Head(batch).stage \in Stages /\ working \in [Stages -> StageType]
    BY BatchTyped DEF IInv, TypeOK, TickTypeOK
  <1> QED
    BY <1>1 DEF Consume, HeadConsumed

LEMMA PlainObserveShape ==
  ASSUME IInv, AttemptStarted \/ AttemptWaiting \/ AttemptSucceeded \/ CancellationSettled
  PROVE  PlainStep
  <1> DEFINE o == Head(batch)
             s == o.stage
             w == working[s]
             n == working'[s]
  <1>1. ASSUME NEW kind, NEW from, NEW to, Observe(kind, from, to)
        PROVE  HeadConsumed /\ \A t \in Stages : t # s => working'[t] = working[t]
    BY <1>1, ConsumeFrame DEF Observe, Observed
  <1> USE DEF States, TerminalStates, InFlightStates, Reasons
  <1>2. CASE AttemptStarted
    <2>1. /\ o.kind = "attempt_started"
          /\ \/ n = w /\ w.state \notin {"queued", "waiting"}
             \/ /\ w.state \in {"queued", "waiting"} /\ n.state = "running" /\ SameCharge(w, n)
                /\ n.attempt = IF o.attempt = None THEN w.attempt ELSE o.attempt
      BY <1>2, ObserveShape, Zenon DEF AttemptStarted
    <2> HIDE DEF o, s, w, n
    <2>2. Consumed(s, o, w, n)
      BY <2>1 DEF Consumed, Ignored, AttemptShape
    <2> QED
      BY <1>1, <1>2, <2>2 DEF PlainStep, AttemptStarted, o, s, w, n
  <1>3. CASE AttemptWaiting
    <2>1. /\ o.kind = "attempt_waiting"
          /\ \/ n = w /\ w.state \notin {"running"}
             \/ /\ w.state \in {"running"} /\ n.state = "waiting" /\ SameCharge(w, n)
                /\ n.attempt = IF o.attempt = None THEN w.attempt ELSE o.attempt
      BY <1>3, ObserveShape, Zenon DEF AttemptWaiting
    <2> HIDE DEF o, s, w, n
    <2>2. Consumed(s, o, w, n)
      BY <2>1 DEF Consumed, Ignored, AttemptShape
    <2> QED
      BY <1>1, <1>3, <2>2 DEF PlainStep, AttemptWaiting, o, s, w, n
  <1>4. CASE AttemptSucceeded
    <2>1. /\ o.kind = "attempt_succeeded"
          /\ \/ n = w /\ w.state \notin {"running", "waiting"}
             \/ /\ w.state \in {"running", "waiting"} /\ n.state = "succeeded" /\ SameCharge(w, n)
                /\ n.attempt = IF o.attempt = None THEN w.attempt ELSE o.attempt
      BY <1>4, ObserveShape, Zenon DEF AttemptSucceeded
    <2> HIDE DEF o, s, w, n
    <2>2. Consumed(s, o, w, n)
      BY <2>1 DEF Consumed, Ignored, AttemptShape
    <2> QED
      BY <1>1, <1>4, <2>2 DEF PlainStep, AttemptSucceeded, o, s, w, n
  <1>5. CASE CancellationSettled
    <2>1. /\ o.kind = "cancellation_settled"
          /\ \/ n = w /\ w.state \notin InFlightStates
             \/ /\ w.state \in InFlightStates /\ n.state = "cancelled" /\ SameCharge(w, n)
                /\ n.attempt = IF o.attempt = None THEN w.attempt ELSE o.attempt
      BY <1>5, ObserveShape, Zenon DEF CancellationSettled
    <2> HIDE DEF o, s, w, n
    <2>2. Consumed(s, o, w, n)
      BY <2>1 DEF Consumed, Ignored, AttemptShape
    <2> QED
      BY <1>1, <1>5, <2>2 DEF PlainStep, CancellationSettled, o, s, w, n
  <1> QED
    BY <1>2, <1>3, <1>4, <1>5

LEMMA AttemptFailedShape == ASSUME IInv, AttemptFailed PROVE PlainStep
  <1> DEFINE o == Head(batch)
             s == o.stage
             w == working[s]
             counted == IF o.failure.class \in {"bare", "bare_retryable"}
                        THEN w ELSE Counted(w, o.failure)
             decided == ApplyRecoveryDecision(counted, DecideRecovery(s, counted, o.failure))
             moved == Naming(decided, o)
             st == IF w.state \in {"running", "waiting"} THEN moved ELSE w
  <1>1. phase = "observe" /\ batch # <<>> /\ o.kind = "attempt_failed" /\ Consume(s, st)
    BY DEF AttemptFailed, Observed
  <1>2. /\ HeadConsumed /\ working'[s] = st
        /\ \A t \in Stages : t # s => working'[t] = working[t]
    BY <1>1, ConsumeFrame
  <1>3. o \in ObservationType /\ s \in Stages
    BY <1>1, BatchTyped
  <1>4. w \in StageType /\ o.failure \in FailureType
    BY <1>3 DEF IInv, TypeOK, TickTypeOK, ObservationType
  <1> HIDE DEF o, s, w
  <1>5. counted \in StageType /\ counted.state = w.state /\ SameCharge(w, counted)
        /\ counted.attempt = w.attempt
    <2>1. Counted(w, o.failure) \in StageType
      BY <1>4, CountedTyped
    <2>2. LET c == Counted(w, o.failure) IN
          c.state = w.state /\ SameCharge(w, c) /\ c.attempt = w.attempt
      BY <1>4 DEF Counted, StageType, SameCharge, SameAttempts
    <2> QED
      BY <1>4, <2>1, <2>2 DEF SameCharge, SameAttempts
  <1> HIDE DEF counted
  <1>6. CASE w.state \in {"running", "waiting"}
    <2>1. FailureShape(s, o.failure, w, decided)
      BY <1>3, <1>4, <1>5, <1>6, DecisionShape
    <2>2. decided \in StageType
      BY <1>3, <1>4, <1>5, DecisionTyped, RecoveryTyped
    <2>3. decided.attempt = counted.attempt
      <3>1. DecideRecovery(s, counted, o.failure) \in Decisions
        BY <1>3, <1>4, <1>5, DecisionTyped
      <3> QED
        BY <1>5, <3>1 DEF Decisions, ApplyRecoveryDecision, ApplyTransition, StageType
    <2> HIDE DEF decided
    <2>4. FailureShape(s, o.failure, w, moved)
      BY <2>1, <2>2, NamingFields DEF FailureShape, SameCharge, SameAttempts
    <2>5. moved.attempt = IF o.attempt = None THEN w.attempt ELSE o.attempt
      BY <1>5, <2>2, <2>3, NamingFields
    <2> HIDE DEF moved
    <2>6. AttemptShape(s, o, w, moved)
      BY <1>1, <2>4, <2>5 DEF AttemptShape
    <2> QED
      BY <1>2, <1>6, <2>6 DEF PlainStep, Consumed, o, s, w
  <1>7. CASE w.state \notin {"running", "waiting"}
    <2>1. Ignored(o, w)
      BY <1>1, <1>7 DEF Ignored
    <2> QED
      BY <1>2, <1>7, <2>1 DEF PlainStep, Consumed, o, s, w
  <1> QED
    BY <1>6, <1>7

LEMMA AnswerStepShape == ASSUME IInv, RecoveryApproved \/ RecoveryRejected PROVE PlainStep
  <1> DEFINE o == Head(batch)
             s == o.stage
             w == working[s]
  <1>1. CASE RecoveryApproved
    <2> DEFINE moved == ApplyRecoveryDecision(w, "retry")
               st == IF w.state = "waiting" /\ w.proposal = o.proposal THEN moved ELSE w
    <2>1. phase = "observe" /\ batch # <<>> /\ o.kind = "recovery_approved" /\ Consume(s, st)
      BY <1>1 DEF RecoveryApproved, Observed
    <2>2. /\ HeadConsumed /\ working'[s] = st
          /\ \A t \in Stages : t # s => working'[t] = working[t]
      BY <2>1, ConsumeFrame
    <2>3. w \in StageType
      BY <2>1, BatchTyped DEF IInv, TypeOK, TickTypeOK
    <2> HIDE DEF o, s, w
    <2>4. moved = [ApplyTransition(w, "retrying", "retry_scheduled")
                     EXCEPT !.repairsUsed = @ + 1, !.proposal = None]
      BY DEF ApplyRecoveryDecision
    <2>5. /\ moved.state = "retrying" /\ moved.proposal = None
          /\ moved.repairsUsed = w.repairsUsed + 1 /\ SameAttempts(w, moved)
      BY <2>3, <2>4 DEF ApplyTransition, StageType, SameAttempts
    <2> HIDE DEF moved
    <2>6. Consumed(s, o, w, st)
      BY <2>1, <2>5 DEF Consumed, AnswerShape, Ignored
    <2> QED
      BY <2>2, <2>6 DEF PlainStep, o, s, w
  <1>2. CASE RecoveryRejected
    <2> DEFINE moved == [ApplyTransition(w, "failed", "attempt_failed") EXCEPT !.proposal = None]
               st == IF w.state = "waiting" /\ w.proposal \in {None, o.proposal}
                     THEN moved ELSE w
    <2>1. phase = "observe" /\ batch # <<>> /\ o.kind = "recovery_rejected" /\ Consume(s, st)
      BY <1>2 DEF RecoveryRejected, Observed
    <2>2. /\ HeadConsumed /\ working'[s] = st
          /\ \A t \in Stages : t # s => working'[t] = working[t]
      BY <2>1, ConsumeFrame
    <2>3. w \in StageType
      BY <2>1, BatchTyped DEF IInv, TypeOK, TickTypeOK
    <2> HIDE DEF o, s, w
    <2>4. /\ moved.state = "failed" /\ moved.proposal = None
          /\ moved.repairsUsed = w.repairsUsed /\ SameAttempts(w, moved)
      BY <2>3 DEF ApplyTransition, StageType, SameAttempts
    <2> HIDE DEF moved
    <2>5. Consumed(s, o, w, st)
      BY <2>1, <2>4 DEF Consumed, AnswerShape, Ignored
    <2> QED
      BY <2>2, <2>5 DEF PlainStep, o, s, w
  <1> QED
    BY <1>1, <1>2

LEMMA PlainSteps ==
  ASSUME IInv, AttemptStarted \/ AttemptWaiting \/ AttemptSucceeded \/ AttemptFailed
               \/ CancellationSettled \/ RecoveryApproved \/ RecoveryRejected
  PROVE  PlainStep
  BY PlainObserveShape, AttemptFailedShape, AnswerStepShape

(* The passes of a tick. *)
Swept(w, n) ==
  \/ n = w
  \/ /\ Stopping /\ w.state \in Unattempted /\ n.state = "cancelled"
     /\ SameCharge(w, n) /\ n.attempt = None
  \/ w.state = "retrying" /\ n.state = "ready" /\ SameCharge(w, n)

Renewed(w, n) ==
  \/ n = w
  \/ /\ w.state \in TerminalStates \cup {"pending"} /\ n.state = "pending"
     /\ n.generation = w.generation + 1 /\ n.ordinal = 0
     /\ n.repairsUsed = 0 /\ n.proposal = None

(* What `maybeReleaseStage' found about the inputs of a stage in `w'. *)
InputsSettled(s, w) ==
  /\ \A e \in Incoming(s) : w[e[1]].state \in TerminalStates
  /\ \E e \in Incoming(s) : w[e[1]].state = "succeeded"
  /\ \A name \in Reads[s] :
       (\E t \in Stages \ {s} : name \in Writes[t])
         => \E t \in Stages \ {s} : name \in Writes[t] /\ w[t].state = "succeeded"

Released(s, w, n) ==
  /\ w.state = "pending" /\ SameCharge(w, n)
  /\ n.state \in {"ready", "blocked", "cancelled"}
  /\ n.state = "ready" => Incoming(s) = {} \/ InputsSettled(s, working)

Queued(w, n) ==
  /\ w.state = "ready" /\ n.state = "queued"
  /\ n.generation = w.generation /\ n.ordinal = w.ordinal + 1
  /\ n.repairsUsed = w.repairsUsed /\ n.proposal = None
  /\ n.attempt = <<w.generation, w.ordinal + 1>>

LEMMA SweepShape ==
  ASSUME NEW w \in [Stages -> StageType], NEW s \in Stages
  PROVE  Swept(w[s], CancelInactive(w)[s]) /\ Swept(w[s], Rearm(w)[s])
  <1> USE DEF Swept, SameCharge, SameAttempts
  <1>1. w[s] \in StageType
    OBVIOUS
  <1>2. Swept(w[s], CancelInactive(w)[s])
    <2> DEFINE why == IF overdue THEN "deadline_exceeded" ELSE "pipeline_cancelled"
               n == [ApplyTransition(w[s], "cancelled", why) EXCEPT !.attempt = None]
    <2>1. CancelInactive(w)[s] = IF Stopping /\ w[s].state \in Unattempted THEN n ELSE w[s]
      BY DEF CancelInactive, Unattempted
    <2>2. n.state = "cancelled" /\ SameCharge(w[s], n) /\ n.attempt = None
      BY <1>1 DEF ApplyTransition, StageType
    <2> HIDE DEF n
    <2> QED
      BY <2>1, <2>2
  <1>3. Swept(w[s], Rearm(w)[s])
    <2> DEFINE n == [ApplyTransition(w[s], "ready", "retry_scheduled") EXCEPT !.attempt = None]
    <2>1. Rearm(w)[s] = IF s \in retryingAtTickStart /\ w[s].state = "retrying" /\ ~Stopping
                        THEN n ELSE w[s]
      BY DEF Rearm
    <2>2. n.state = "ready" /\ SameCharge(w[s], n)
      BY <1>1 DEF ApplyTransition, StageType
    <2> HIDE DEF n
    <2> QED
      BY <2>1, <2>2
  <1> QED
    BY <1>2, <1>3

LEMMA RerunShape ==
  ASSUME IInv, ManualRerun, NEW t \in Stages
  PROVE  /\ HeadConsumed /\ Head(batch).kind = "manual_rerun"
         /\ Renewed(working[t], working'[t])
  <1> DEFINE again == {Head(batch).stage} \cup Descendants(Head(batch).stage)
             n == [NewStage EXCEPT !.generation = working[t].generation + 1,
                                   !.reason = "manual_rerun"]
  <1>1. working'[t] = IF t \in again /\ working[t].state \in TerminalStates \cup {"pending"}
                      THEN n ELSE working[t]
    BY DEF ManualRerun
  <1>2. /\ n.state = "pending" /\ n.generation = working[t].generation + 1
        /\ n.ordinal = 0 /\ n.repairsUsed = 0 /\ n.proposal = None
    BY DEF NewStage
  <1> HIDE DEF n, again
  <1>3. Renewed(working[t], working'[t])
    BY <1>1, <1>2 DEF Renewed
  <1> QED
    BY <1>3 DEF ManualRerun, HeadConsumed, Observed

LEMMA EdgeSettled ==
  ASSUME NEW e \in Edges
  PROVE  /\ ResolveEdge(e) # "pending" => working[e[1]].state \in TerminalStates
         /\ ResolveEdge(e) = "selected" => working[e[1]].state = "succeeded"
  BY DEF ResolveEdge, TerminalStates

LEMMA ReleaseShape ==
  ASSUME IInv, NEW s \in Releasable
  PROVE  Released(s, working[s], ReleasedStage(s))
  <1> DEFINE st == working[s]
             resolved == {ResolveEdge(e) : e \in Incoming(s)}
             skipped == [ApplyTransition(st, "cancelled", "condition_not_selected")
                           EXCEPT !.selected = FALSE, !.attempt = None]
  <1>1. s \in Stages /\ st \in StageType /\ st.state = "pending"
        /\ \A e \in Incoming(s) : ResolveEdge(e) # "pending"
    BY DEF IInv, TypeOK, TickTypeOK, Releasable, Candidate
  <1>2. Incoming(s) \subseteq Edges
    BY DEF Incoming
  <1>3. \/ ReleasedStage(s) \in {ApplyTransition(st, "blocked", "dependency_unsatisfied"), skipped}
        \/ Incoming(s) = {} /\ ReleasedStage(s) = ApplyTransition(st, "ready", "root_eligible")
        \/ /\ "selected" \in resolved /\ ReadsSatisfied(s)
           /\ ReleasedStage(s) = ApplyTransition(st, "ready", "dependencies_satisfied")
    <2>1. CASE Incoming(s) = {}
      BY <2>1 DEF ReleasedStage
    <2>2. CASE Incoming(s) # {} /\ "blocked" \in resolved
      BY <2>2 DEF ReleasedStage
    <2>3. CASE Incoming(s) # {} /\ "blocked" \notin resolved /\ "selected" \notin resolved
      BY <2>3 DEF ReleasedStage
    <2>4. CASE Incoming(s) # {} /\ "blocked" \notin resolved /\ "selected" \in resolved
      BY <2>4 DEF ReleasedStage
    <2> QED
      BY <2>1, <2>2, <2>3, <2>4
  <1>4. "selected" \in resolved /\ ReadsSatisfied(s) => InputsSettled(s, working)
    BY <1>1, <1>2, EdgeSettled DEF ReadsSatisfied, InputsSettled
  <1>5. skipped.state = "cancelled" /\ SameCharge(st, skipped)
    BY <1>1 DEF ApplyTransition, StageType, SameCharge, SameAttempts
  <1> HIDE DEF skipped, resolved, st
  <1>6. Released(s, st, ReleasedStage(s))
    BY <1>1, <1>3, <1>4, <1>5, TransitionFields DEF Released
  <1> QED
    BY <1>6 DEF st

(* One stage of the release loop. *)
ReleaseStep ==
  /\ phase = "release" /\ UNCHANGED <<storeVars, runner, phase, envVars, batch, cancelRequested, plan>>
  /\ \E s \in Stages :
       /\ Released(s, working[s], working'[s])
       /\ \A t \in Stages : t # s => working'[t] = working[t]

LEMMA ReleaseSteps == ASSUME IInv, Release PROVE ReleaseStep
  <1> DEFINE s == Min(Releasable)
  <1>1. s \in Releasable /\ s \in Stages
    <2>1. Releasable # {} /\ Releasable \in SUBSET Stages
      BY DEF Release, Releasable
    <2> QED
      BY <2>1, LowestIsMember
  <1>2. working' = [working EXCEPT ![s] = ReleasedStage(s)]
    BY DEF Release
  <1> HIDE DEF s
  <1>3. working \in [Stages -> StageType]
    BY DEF IInv, TypeOK, TickTypeOK
  <1>4. working'[s] = ReleasedStage(s) /\ \A t \in Stages : t # s => working'[t] = working[t]
    BY <1>1, <1>2, <1>3
  <1>5. Released(s, working[s], working'[s])
    BY <1>1, <1>4, ReleaseShape
  <1> QED
    BY <1>1, <1>4, <1>5 DEF ReleaseStep, Release

QueueStep ==
  /\ phase = "release" /\ UNCHANGED <<storeVars, runner, phase, envVars, batch, cancelRequested>>
  /\ plan'.cancels = plan.cancels
  /\ \E s \in Stages :
       /\ Queued(working[s], working'[s])
       /\ plan'.dispatch = plan.dispatch \cup {<<s, working[s].generation, working[s].ordinal + 1>>}
       /\ \A t \in Stages : t # s => working'[t] = working[t]

LEMMA QueueSteps == ASSUME IInv, Queue PROVE QueueStep
  <1> DEFINE s == Min(ReadyStages)
             st == working[s]
             n == [ApplyTransition(st, "queued", "dispatch_intent")
                     EXCEPT !.ordinal = st.ordinal + 1, !.proposal = None,
                            !.attempt = <<st.generation, st.ordinal + 1>>]
             a == <<s, st.generation, st.ordinal + 1>>
  <1>1. s \in Stages /\ st.state = "ready"
    <2>1. ReadyStages # {} /\ ReadyStages \in SUBSET Stages
      BY DEF Queue, MayQueue, ReadyStages
    <2>2. s \in ReadyStages
      BY <2>1, LowestIsMember
    <2> QED
      BY <2>2 DEF ReadyStages
  <1>2. working' = [working EXCEPT ![s] = n]
        /\ plan' = [plan EXCEPT !.dispatch = plan.dispatch \cup {a}]
        /\ phase = "release"
        /\ UNCHANGED <<storeVars, runner, phase, envVars, batch, cancelRequested>>
    BY DEF Queue
  <1> HIDE DEF s
  <1>3. working \in [Stages -> StageType] /\ PlanOK(plan) /\ st \in StageType
    BY <1>1 DEF IInv, TypeOK, TickTypeOK
  <1>4. working'[s] = n /\ \A t \in Stages : t # s => working'[t] = working[t]
    BY <1>1, <1>2, <1>3
  <1>5. plan'.dispatch = plan.dispatch \cup {a} /\ plan'.cancels = plan.cancels
    <2> HIDE DEF a
    <2> QED
      BY <1>2, <1>3 DEF PlanOK
  <1>6. Queued(st, n)
    <2> HIDE DEF st
    <2> QED
      BY <1>1, <1>3 DEF Queued, ApplyTransition, StageType
  <1> HIDE DEF n
  <1> QED
    BY <1>1, <1>2, <1>4, <1>5, <1>6 DEF QueueStep

-----------------------------------------------------------------------------
(* The steps outside the tick: they leave the stages alone and record at     *)
(* most one observation.                                                    *)

(* What the service and the callers record. *)
Reportable(o) ==
  /\ o.kind = "attempt_failed" => o.failure \in Failures
  /\ o.kind = "recovery_approved" => o.proposal # None
  /\ o.kind = "manual_rerun" => MaxReruns > 0
  /\ o.kind = "cancel_requested" => MaxCancels > 0

AllReportable(q) == \A i \in DOMAIN q : Reportable(q[i])

CountersOK == reruns \in Nat /\ cancelCalls \in Nat

Dropped ==
  /\ phase' = "idle" /\ working' = stages /\ batch' = <<>>
  /\ cancelRequested' = FALSE /\ plan' = EmptyPlan

Quiet ==
  /\ UNCHANGED <<stages, observations>>
  /\ UNCHANGED <<phase, tickVars>> \/ Load(observations) \/ Dropped

Noted(o) ==
  /\ stages' = stages /\ observations' = Append(observations, o)
  /\ UNCHANGED <<phase, tickVars>> \/ Load(observations')

LEMMA KindsDiffer ==
  ASSUME NEW a, NEW kind \in {"attempt_started", "attempt_waiting", "attempt_succeeded",
                              "cancellation_settled"}
  PROVE  Reportable(OfAttempt(kind, a))
  BY DEF Reportable, OfAttempt, Observation

LEMMA FailureReportable ==
  ASSUME NEW a, NEW f \in Failures
  PROVE  Reportable([OfAttempt("attempt_failed", a) EXCEPT !.failure = f])
  BY DEF Reportable, OfAttempt, Observation

LEMMA RecordNoted ==
  ASSUME NEW o, (Record(o) /\ UNCHANGED <<phase, tickVars>>) \/ RecordAndTick(o)
  PROVE  Noted(o)
  BY DEF Record, RecordAndTick, Noted

LEMMA SettleNoted ==
  ASSUME IInv, NEW a \in DOMAIN runner, SettleSucceeded(a) \/ SettleFailed(a)
  PROVE  \E o \in ObservationType : Reportable(o) /\ Noted(o)
  <1>1. CASE SettleSucceeded(a)
    <2>1. RecordAndTick(OfAttempt("attempt_succeeded", a))
      BY <1>1 DEF SettleSucceeded, Finalize
    <2> QED
      BY <2>1, RecordNoted, KindsDiffer, ClaimedTyped, OfAttemptTyped DEF Kinds
  <1>2. CASE SettleFailed(a)
    <2>1. PICK f \in Failures :
            RecordAndTick([OfAttempt("attempt_failed", a) EXCEPT !.failure = f])
      BY <1>2 DEF SettleFailed, Finalize
    <2> DEFINE o == [OfAttempt("attempt_failed", a) EXCEPT !.failure = f]
    <2>2. OfAttempt("attempt_failed", a) \in ObservationType /\ f \in FailureType
      BY ClaimedTyped, OfAttemptTyped DEF Kinds
    <2>3. o \in ObservationType
      BY <2>2 DEF ObservationType
    <2>4. Reportable(o)
      BY FailureReportable
    <2> HIDE DEF o
    <2>5. Noted(o)
      BY <2>1, RecordNoted DEF o
    <2> QED
      BY <2>3, <2>4, <2>5
  <1> QED
    BY <1>1, <1>2

LEMMA OutsideSteps ==
  ASSUME IInv, CountersOK, [Next]_vars
  PROVE  TickSteps \/ Quiet \/ \E o \in ObservationType : Reportable(o) /\ Noted(o)
  <1> DEFINE Goal == \E o \in ObservationType : Reportable(o) /\ Noted(o)
  <1>1. ASSUME NEW a \in DOMAIN runner,
               NEW kind \in {"attempt_started", "attempt_waiting", "attempt_succeeded",
                             "cancellation_settled"},
               Noted(OfAttempt(kind, a))
        PROVE  Goal
    <2>1. OfAttempt(kind, a) \in ObservationType
      BY ClaimedTyped, OfAttemptTyped DEF Kinds
    <2> QED
      BY <1>1, <2>1, KindsDiffer
  <1>2. CASE Tick
    BY <1>2 DEF Tick, Quiet, storeVars
  <1>3. CASE Claims \/ DeadlinePasses \/ UNCHANGED vars
    BY <1>3 DEF Claims, ClaimDispatch, DeadlinePasses, Quiet, storeVars, vars
  <1>4. CASE Starts
    BY <1>1, <1>4, RecordNoted DEF Starts, StartRunner
  <1>5. CASE Finishes
    BY <1>5, SettleNoted DEF Finishes, FinishSucceeded, FinishFailed
  <1>6. CASE DrivesCancel
    <2>1. PICK a : CancelRunner(a) \/ CancelTooLate(a) \/ CancelWithoutRunner(a)
      BY <1>6 DEF DrivesCancel
    <2>2. a \in DOMAIN runner
      BY <2>1 DEF CancelRunner, CancelTooLate, CancelWithoutRunner, Delivered
    <2>3. CASE CancelTooLate(a)
      BY <2>2, <2>3, SettleNoted DEF CancelTooLate
    <2>4. CASE CancelRunner(a) \/ CancelWithoutRunner(a)
      BY <1>1, <2>2, <2>4, RecordNoted DEF CancelRunner, Finalize, CancelWithoutRunner
    <2> QED
      BY <2>1, <2>3, <2>4
  <1>7. CASE \E a \in DOMAIN runner : MarkWaiting(a) \/ LoseRunner(a) \/ CrashBeforeState(a)
    <2>1. PICK a \in DOMAIN runner : MarkWaiting(a) \/ LoseRunner(a) \/ CrashBeforeState(a)
      BY <1>7
    <2>2. CASE MarkWaiting(a)
      BY <1>1, <2>2, RecordNoted DEF MarkWaiting
    <2>3. CASE LoseRunner(a)
      BY <2>3 DEF LoseRunner, Quiet, storeVars
    <2>4. CASE CrashBeforeState(a)
      BY <1>1, <2>4 DEF CrashBeforeState, Noted
    <2> QED
      BY <2>1, <2>2, <2>3, <2>4
  <1>8. CASE AnswersProposal
    <2>1. PICK s \in Stages, kind \in {"recovery_approved", "recovery_rejected"} :
            RecordRecoveryApproval(s, kind)
      BY <1>8 DEF AnswersProposal
    <2> DEFINE o == [Observation(kind, s) EXCEPT !.proposal = stages[s].proposal]
    <2>2. stages[s].proposal \in Nat \X Nat /\ Observation(kind, s) \in ObservationType
      BY ObservationTyped DEF IInv, TypeOK, StoreTypeOK, StageType, Kinds
    <2>3. o \in ObservationType
      BY <2>2 DEF ObservationType
    <2>4. Reportable(o)
      BY <2>1 DEF RecordRecoveryApproval, Reportable, Observation
    <2>5. Record(o) /\ UNCHANGED <<phase, tickVars>>
      BY <2>1 DEF RecordRecoveryApproval
    <2> HIDE DEF o
    <2> QED
      BY <2>3, <2>4, <2>5, RecordNoted
  <1>9. CASE AnswersEvaluator
    <2>1. PICK e \in EvaluatorEdges, yes \in {"selected", "rejected"} :
            /\ Record([Observation("evaluator_decided", e[2]) EXCEPT !.edge = e, !.answer = yes])
            /\ UNCHANGED <<phase, tickVars>>
      BY <1>9 DEF AnswersEvaluator, DecideEvaluator
    <2> DEFINE o == [Observation("evaluator_decided", e[2]) EXCEPT !.edge = e, !.answer = yes]
    <2>2. e \in Edges /\ e[2] \in Stages /\ yes \in Answers
      BY DEF EvaluatorEdges, Answers
    <2>3. Observation("evaluator_decided", e[2]) \in ObservationType
      BY <2>2, ObservationTyped DEF Kinds
    <2>4. o \in ObservationType
      BY <2>2, <2>3 DEF ObservationType
    <2>5. Reportable(o)
      BY DEF Reportable, Observation
    <2> HIDE DEF o
    <2> QED
      BY <2>1, <2>4, <2>5, RecordNoted DEF o
  <1>10. CASE RequestCancel
    <2>1. Observation("cancel_requested", 1) \in ObservationType
      BY ObservationTyped DEF Kinds, Stages
    <2>2. Reportable(Observation("cancel_requested", 1))
      BY <1>10 DEF RequestCancel, CountersOK, Reportable, Observation
    <2> QED
      BY <1>10, <2>1, <2>2, RecordNoted DEF RequestCancel
  <1>11. CASE \E s \in Stages : RequestRerun(s)
    <2>1. PICK s \in Stages : RequestRerun(s)
      BY <1>11
    <2>2. Observation("manual_rerun", s) \in ObservationType
      BY ObservationTyped DEF Kinds
    <2>3. Reportable(Observation("manual_rerun", s))
      BY <2>1 DEF RequestRerun, CountersOK, Reportable, Observation
    <2> QED
      BY <2>1, <2>2, <2>3, RecordNoted DEF RequestRerun
  <1>12. CASE Crash
    BY <1>12 DEF Crash, Quiet, Dropped, storeVars
  <1> QED
    BY <1>2, <1>3, <1>4, <1>5, <1>6, <1>7, <1>8, <1>9, <1>10, <1>11, <1>12 DEF Next

LEMMA CountersKept == CountersOK /\ [Next]_vars => CountersOK'
  <1> SUFFICES ASSUME CountersOK, [Next]_vars PROVE CountersOK'
    OBVIOUS
  <1> USE DEF CountersOK, envVars
  <1>1. CASE TickSteps
    BY <1>1, Zenon DEF TickSteps, AttemptStarted, AttemptWaiting, AttemptSucceeded, CancellationSettled,
       Observe, AttemptFailed, RecoveryApproved, RecoveryRejected, Consume, CancelObserved,
       EvaluatorDecided, ManualRerun, CancelAndRearm, AskEvaluators, Release, Queue, Apply
  <1>2. CASE Tick \/ Claims \/ Starts \/ Finishes \/ DeadlinePasses \/ UNCHANGED vars
    BY <1>2 DEF Tick, Claims, ClaimDispatch, Starts, StartRunner, Finishes, FinishSucceeded,
       FinishFailed, SettleSucceeded, SettleFailed, DeadlinePasses, vars
  <1>3. CASE DrivesCancel
    BY <1>3 DEF DrivesCancel, CancelRunner, CancelTooLate, CancelWithoutRunner, SettleSucceeded,
       SettleFailed
  <1>4. CASE \E a \in DOMAIN runner : MarkWaiting(a) \/ LoseRunner(a) \/ CrashBeforeState(a)
    BY <1>4 DEF MarkWaiting, LoseRunner, CrashBeforeState
  <1>5. CASE AnswersProposal \/ AnswersEvaluator \/ Crash
    BY <1>5 DEF AnswersProposal, RecordRecoveryApproval, AnswersEvaluator, DecideEvaluator, Crash
  <1>6. CASE RequestCancel \/ \E s \in Stages : RequestRerun(s)
    BY <1>6 DEF RequestCancel, RequestRerun
  <1> QED
    BY <1>1, <1>2, <1>3, <1>4, <1>5, <1>6 DEF Next

-----------------------------------------------------------------------------
(* The budget: what a stage has been charged for its attempts.               *)

(* Every failure the service reports is classified                           *)
(* (buildClassifiedFailureObservation): the retry rule for unclassified      *)
(* failures, which counts attempts and not repairs, is left to other callers.*)
Classified == \A f \in Failures : f.class # "bare_retryable"

(* The attempts that no repair was charged for. *)
Slack(s) == IF Classified THEN 0 ELSE Budget[s]

Charged(s, st) ==
  /\ st.generation > 0
  /\ st.repairsUsed <= Budget[s]
  /\ st.proposal # None => st.repairsUsed < Budget[s]
  /\ st.state = "pending" => st.ordinal = 0
  /\ st.ordinal <= Slack(s) + st.repairsUsed + (IF st.state \in Unattempted THEN 0 ELSE 1)

ChargeInv ==
  /\ CountersOK
  /\ \A s \in Stages : Charged(s, stages[s]) /\ Charged(s, working[s])
  /\ AllReportable(observations) /\ AllReportable(batch)

LEMMA SlackTyped ==
  ASSUME NEW s \in Stages
  PROVE  Slack(s) \in Nat /\ Budget[s] \in Nat /\ (~Classified => Slack(s) = Budget[s])
  BY DEF Slack

LEMMA TailReportable ==
  ASSUME NEW q \in Seq(ObservationType), q # <<>>, AllReportable(q)
  PROVE  Reportable(Head(q)) /\ AllReportable(Tail(q))
  BY DEF AllReportable

LEMMA AppendReportable ==
  ASSUME NEW q \in Seq(ObservationType), AllReportable(q),
         NEW o \in ObservationType, Reportable(o)
  PROVE  AllReportable(Append(q, o))
  BY DEF AllReportable

LEMMA ConsumedCharged ==
  ASSUME NEW s \in Stages, NEW o \in ObservationType, NEW w \in StageType, NEW n \in StageType,
         Reportable(o), Charged(s, w), Consumed(s, o, w, n)
  PROVE  Charged(s, n)
  <1> USE DEF Charged, SameCharge, SameAttempts, Unattempted
  <1>1. /\ w.ordinal \in Nat /\ w.repairsUsed \in Nat /\ w.generation \in Nat
        /\ n.ordinal \in Nat /\ n.repairsUsed \in Nat
    BY DEF StageType
  <1>2. CASE n = w
    BY <1>2
  <1>3. CASE AttemptShape(s, o, w, n) /\ o.kind # "attempt_failed"
    BY <1>1, <1>3, SlackTyped DEF AttemptShape, InFlightStates
  <1>4. CASE AttemptShape(s, o, w, n) /\ o.kind = "attempt_failed"
    <2>1. o.failure \in Failures /\ FailureShape(s, o.failure, w, n)
      BY <1>4 DEF AttemptShape, Reportable
    <2>2. o.failure.class = "bare_retryable" => Slack(s) = Budget[s]
      BY <2>1, SlackTyped DEF Classified
    <2> HIDE DEF Slack
    <2> QED
      BY <1>1, <2>1, <2>2, SlackTyped DEF FailureShape
  <1>5. CASE AnswerShape(o, w, n)
    <2>1. o.kind = "recovery_approved" => w.proposal # None
      BY <1>5 DEF AnswerShape, Reportable
    <2> HIDE DEF Slack
    <2> QED
      BY <1>1, <1>5, <2>1, SlackTyped DEF AnswerShape
  <1> QED
    BY <1>2, <1>3, <1>4, <1>5 DEF Consumed

LEMMA PassCharged ==
  ASSUME NEW s \in Stages, NEW w \in StageType, NEW n \in StageType, Charged(s, w),
         Swept(w, n) \/ Renewed(w, n) \/ Released(s, w, n) \/ Queued(w, n)
  PROVE  Charged(s, n)
  <1> USE DEF Charged, SameCharge, SameAttempts, Unattempted
  <1>1. /\ w.ordinal \in Nat /\ w.repairsUsed \in Nat /\ w.generation \in Nat
        /\ n.ordinal \in Nat /\ n.repairsUsed \in Nat /\ Slack(s) \in Nat /\ Budget[s] \in Nat
    BY SlackTyped DEF StageType
  <1> HIDE DEF Slack
  <1>2. CASE Swept(w, n)
    BY <1>1, <1>2 DEF Swept
  <1>3. CASE Renewed(w, n)
    BY <1>1, <1>3 DEF Renewed
  <1>4. CASE Released(s, w, n)
    BY <1>1, <1>4 DEF Released
  <1>5. CASE Queued(w, n)
    BY <1>1, <1>5 DEF Queued
  <1> QED
    BY <1>2, <1>3, <1>4, <1>5

(* What every step of the tick is, seen from the stages. *)
LEMMA TickStepsShape ==
  ASSUME IInv, TickSteps
  PROVE  \/ PlainStep
         \/ HeadConsumed /\ \A t \in Stages : Renewed(working[t], working'[t])
         \/ /\ batch # <<>> /\ batch' = Tail(batch) /\ phase = "observe"
            /\ UNCHANGED <<storeVars, runner, phase, envVars, working>>
            /\ plan'.dispatch = plan.dispatch /\ plan'.cancels = plan.cancels
            /\ \/ cancelRequested' = cancelRequested /\ Head(batch).kind = "evaluator_decided"
               \/ Head(batch).kind = "cancel_requested"
         \/ CancelAndRearm
         \/ /\ UNCHANGED <<storeVars, runner, phase, envVars, working, batch, cancelRequested>>
            /\ plan'.dispatch = plan.dispatch /\ plan'.cancels = plan.cancels
            /\ phase = "release"
         \/ ReleaseStep \/ QueueStep \/ Apply
  <1>1. PlanOK(plan)
    BY DEF IInv, TypeOK, TickTypeOK
  <1>2. CASE CancelObserved
    BY <1>2 DEF CancelObserved, Observed
  <1>3. CASE EvaluatorDecided
    <2> DEFINE decided == Put(plan.decided, Head(batch).edge, Head(batch).answer)
    <2>1. plan' = [plan EXCEPT !.decided = decided]
      BY <1>3 DEF EvaluatorDecided
    <2> HIDE DEF decided
    <2>2. plan'.dispatch = plan.dispatch /\ plan'.cancels = plan.cancels
      BY <1>1, <2>1 DEF PlanOK
    <2> QED
      BY <1>3, <2>2 DEF EvaluatorDecided, Observed
  <1>4. CASE ManualRerun
    BY <1>4, RerunShape DEF ManualRerun, HeadConsumed, Observed
  <1>5. CASE AskEvaluators
    <2>1. plan' = [plan EXCEPT !.asked = plan.asked \cup ToAsk]
      BY <1>5 DEF AskEvaluators
    <2>2. plan'.dispatch = plan.dispatch /\ plan'.cancels = plan.cancels
      BY <1>1, <2>1 DEF PlanOK
    <2> QED
      BY <1>5, <2>2 DEF AskEvaluators
  <1> QED
    BY <1>2, <1>3, <1>4, <1>5, PlainSteps, ReleaseSteps, QueueSteps DEF TickSteps

LEMMA SweptTwice ==
  ASSUME NEW w \in [Stages -> StageType], NEW s \in Stages
  PROVE  \E m \in StageType : Swept(w[s], m) /\ Swept(m, Rearm(CancelInactive(w))[s])
  <1>1. CancelInactive(w) \in [Stages -> StageType]
    BY CancelInactiveTyped
  <1>2. Swept(w[s], CancelInactive(w)[s])
    BY SweepShape
  <1>3. Swept(CancelInactive(w)[s], Rearm(CancelInactive(w))[s])
    BY <1>1, SweepShape
  <1> QED
    BY <1>1, <1>2, <1>3

LEMMA ChargeKept == IInv /\ IInv' /\ ChargeInv /\ [Next]_vars => ChargeInv'
  <1> SUFFICES ASSUME IInv, IInv', ChargeInv, [Next]_vars PROVE ChargeInv'
    OBVIOUS
  <1>1. /\ \A s \in Stages : /\ stages[s] \in StageType /\ working[s] \in StageType
                             /\ stages'[s] \in StageType /\ working'[s] \in StageType
        /\ observations \in Seq(ObservationType) /\ batch \in Seq(ObservationType)
        /\ working \in [Stages -> StageType]
    BY DEF IInv, TypeOK, StoreTypeOK, TickTypeOK
  <1>2. /\ CountersOK' /\ AllReportable(observations) /\ AllReportable(batch)
        /\ \A s \in Stages : Charged(s, stages[s]) /\ Charged(s, working[s])
    BY CountersKept DEF ChargeInv
  <1> HIDE DEF CountersOK
  <1>3. CASE Quiet \/ \E o \in ObservationType : Reportable(o) /\ Noted(o)
    <2>1. AllReportable(observations')
      <3>1. CASE Quiet
        BY <1>2, <3>1 DEF Quiet
      <3>2. CASE \E o \in ObservationType : Reportable(o) /\ Noted(o)
        <4>1. PICK o \in ObservationType : Reportable(o) /\ Noted(o)
          BY <3>2
        <4>2. observations' = Append(observations, o)
          BY <4>1 DEF Noted
        <4> QED
          BY <1>1, <1>2, <4>1, <4>2, AppendReportable
      <3> QED
        BY <1>3, <3>1, <3>2
    <2>2. AllReportable(<<>>)
      BY DEF AllReportable
    <2>3. AllReportable(batch')
      BY <1>2, <1>3, <2>1, <2>2 DEF Quiet, Noted, Load, Dropped, tickVars
    <2>4. \A s \in Stages : Charged(s, stages'[s]) /\ Charged(s, working'[s])
      <3> HIDE DEF Charged
      <3> QED
        BY <1>2, <1>3 DEF Quiet, Noted, Load, Dropped, tickVars
    <2> QED
      BY <1>2, <2>1, <2>3, <2>4 DEF ChargeInv
  <1>4. CASE TickSteps
    <2>1. AllReportable(<<>>)
      BY DEF AllReportable
    <2>2. batch # <<>> => AllReportable(Tail(batch))
      BY <1>1, <1>2, TailReportable
    <2> HIDE DEF Charged, AllReportable
    <2>3. CASE PlainStep
      <3> DEFINE o == Head(batch)
                 s == o.stage
      <3>1. o \in ObservationType /\ s \in Stages /\ Reportable(o)
        BY <1>1, <1>2, <2>3, BatchTyped, TailReportable DEF PlainStep, HeadConsumed
      <3>2. Charged(s, working'[s])
        BY <1>1, <1>2, <2>3, <3>1, ConsumedCharged DEF PlainStep
      <3>3. \A t \in Stages : t # s => working'[t] = working[t]
        BY <2>3 DEF PlainStep
      <3>4. \A t \in Stages : Charged(t, working'[t])
        <4> HIDE DEF s
        <4> QED
          BY <1>2, <3>2, <3>3
      <3> QED
        BY <1>2, <2>2, <2>3, <3>4 DEF ChargeInv, PlainStep, HeadConsumed, storeVars
    <2>4. CASE HeadConsumed /\ \A t \in Stages : Renewed(working[t], working'[t])
      <3>1. \A t \in Stages : Charged(t, working'[t])
        BY <1>1, <1>2, <2>4, PassCharged
      <3> QED
        BY <1>2, <2>2, <2>4, <3>1 DEF ChargeInv, HeadConsumed, storeVars
    <2>5. CASE UNCHANGED <<storeVars, working>> 
                  /\ \/ batch # <<>> /\ batch' = Tail(batch)
                     \/ batch' = batch
      BY <1>2, <2>2, <2>5 DEF ChargeInv, storeVars
    <2>6. CASE CancelAndRearm
      <3>1. ASSUME NEW t \in Stages PROVE Charged(t, working'[t])
        <4>1. PICK m \in StageType :
                Swept(working[t], m) /\ Swept(m, Rearm(CancelInactive(working))[t])
          BY <1>1, SweptTwice
        <4>2. Charged(t, m)
          BY <1>1, <1>2, <4>1, PassCharged
        <4>3. working'[t] = Rearm(CancelInactive(working))[t]
          BY <2>6 DEF CancelAndRearm
        <4> QED
          BY <1>1, <4>1, <4>2, <4>3, PassCharged
      <3> QED
        BY <1>2, <2>6, <3>1 DEF ChargeInv, CancelAndRearm, storeVars
    <2>7. CASE ReleaseStep
      <3>1. \A t \in Stages : Charged(t, working'[t])
        BY <1>1, <1>2, <2>7, PassCharged DEF ReleaseStep
      <3> QED
        BY <1>2, <2>7, <3>1 DEF ChargeInv, ReleaseStep, storeVars
    <2>8. CASE QueueStep
      <3>1. \A t \in Stages : Charged(t, working'[t])
        BY <1>1, <1>2, <2>8, PassCharged DEF QueueStep
      <3> QED
        BY <1>2, <2>8, <3>1 DEF ChargeInv, QueueStep, storeVars
    <2>9. CASE Apply
      <3>1. /\ working' = CancelInactive(working) /\ stages' = working'
            /\ batch' = <<>> /\ observations' = <<>>
        BY <2>9 DEF Apply
      <3>2. \A t \in Stages : Charged(t, working'[t])
        BY <1>1, <1>2, <3>1, SweepShape, PassCharged
      <3> QED
        BY <1>2, <2>1, <3>1, <3>2 DEF ChargeInv
    <2> QED
      BY <1>4, <2>3, <2>4, <2>5, <2>6, <2>7, <2>8, <2>9, TickStepsShape
  <1> QED
    BY <1>2, <1>3, <1>4, OutsideSteps DEF ChargeInv

LEMMA InitCharge == Init => ChargeInv
  <1> SUFFICES ASSUME Init PROVE ChargeInv
    OBVIOUS
  <1>1. \A s \in Stages : stages[s] = NewStage /\ working[s] = NewStage
    BY DEF Init
  <1>2. \A s \in Stages : Charged(s, NewStage)
    BY SlackTyped DEF Charged, NewStage
  <1> QED
    BY <1>1, <1>2 DEF Init, ChargeInv, CountersOK, AllReportable

LEMMA ChargeInvariance == Spec => []ChargeInv
  BY InitCharge, ChargeKept, Invariance, PTL DEF Spec

(* A generation of a stage makes no more attempts than its repair budget      *)
(* allows, however its failures, proposals, answers, lost runners and        *)
(* restarts are interleaved (decideRecovery, processRecoveryApproved): an    *)
(* attempt is paid for by a repair, a repair is charged once, and a pending  *)
(* proposal holds one back.                                                  *)
THEOREM BudgetKept ==
  ASSUME Classified
  PROVE  Spec => []AttemptsBounded
  <1>1. IInv /\ ChargeInv => AttemptsBounded
    <2> SUFFICES ASSUME IInv, ChargeInv, NEW s \in Stages
                 PROVE  stages[s].ordinal <= Budget[s] + 1
      BY DEF AttemptsBounded
    <2>1. stages[s].ordinal \in Nat /\ stages[s].repairsUsed \in Nat /\ Budget[s] \in Nat
      BY DEF IInv, TypeOK, StoreTypeOK, StageType
    <2>2. Charged(s, stages[s]) /\ Slack(s) = 0
      BY DEF ChargeInv, Slack
    <2> QED
      BY <2>1, <2>2 DEF Charged
  <1> QED
    BY <1>1, Invariance, ChargeInvariance, PTL

(* Whatever is reported, unclassified failures too, the two retry rules        *)
(* together never allow more than twice the budget: each of them counts with *)
(* its own counter (processAttemptFailed).                                    *)
AttemptsAtMostDoubled == \A s \in Stages : stages[s].ordinal <= 2 * Budget[s] + 1

(* No policy and no mix of classified and unclassified failures makes a      *)
(* stage retry for ever (processAttemptFailed).                              *)
THEOREM AttemptsFinite == Spec => []AttemptsAtMostDoubled
  <1>1. IInv /\ ChargeInv => AttemptsAtMostDoubled
    <2> SUFFICES ASSUME IInv, ChargeInv, NEW s \in Stages
                 PROVE  stages[s].ordinal <= 2 * Budget[s] + 1
      BY DEF AttemptsAtMostDoubled
    <2>1. stages[s].ordinal \in Nat /\ stages[s].repairsUsed \in Nat /\ Budget[s] \in Nat
      BY DEF IInv, TypeOK, StoreTypeOK, StageType
    <2>2. Charged(s, stages[s]) /\ Slack(s) \in {0, Budget[s]}
      BY DEF ChargeInv, Slack
    <2> HIDE DEF Slack
    <2> QED
      BY <2>1, <2>2 DEF Charged
  <1> QED
    BY <1>1, Invariance, ChargeInvariance, PTL

-----------------------------------------------------------------------------
(* The inputs of a stage that was released.                                  *)

Begun(st) == st.state \in {"ready", "retrying"} \cup InFlightStates \/ st.ordinal > 0

RanSettled(s, w) == Begun(w[s]) /\ Incoming(s) # {} => InputsSettled(s, w)

InputsInv == \A s \in Stages : RanSettled(s, stages) /\ RanSettled(s, working)

(* Without reruns what has settled stays settled. *)
Lasting(w, n) == \A s \in Stages : w[s].state \in TerminalStates => n[s].state = w[s].state

LEMMA InputsLast ==
  ASSUME NEW w, NEW n, Lasting(w, n), NEW s \in Stages, InputsSettled(s, w)
  PROVE  InputsSettled(s, n)
  <1>1. \A e \in Incoming(s) : e[1] \in Stages
    BY DEF Incoming
  <1>2. \A t \in Stages : w[t].state = "succeeded" => n[t].state = "succeeded"
    BY DEF Lasting, TerminalStates
  <1>3. \A e \in Incoming(s) : n[e[1]].state \in TerminalStates
    BY <1>1 DEF Lasting, InputsSettled
  <1>4. \E e \in Incoming(s) : n[e[1]].state = "succeeded"
    BY <1>1, <1>2 DEF InputsSettled
  <1>5. ASSUME NEW name \in Reads[s], \E t \in Stages \ {s} : name \in Writes[t]
        PROVE  \E t \in Stages \ {s} : name \in Writes[t] /\ n[t].state = "succeeded"
    <2>1. PICK t \in Stages \ {s} : name \in Writes[t] /\ w[t].state = "succeeded"
      BY <1>5 DEF InputsSettled
    <2> QED
      BY <1>2, <2>1
  <1> QED
    BY <1>3, <1>4, <1>5 DEF InputsSettled

(* A step that begins no stage keeps the inputs. *)
LEMMA NoneBegun ==
  ASSUME NEW w, NEW n, Lasting(w, n), \A s \in Stages : RanSettled(s, w),
         \A s \in Stages : Begun(n[s]) => Begun(w[s])
  PROVE  \A s \in Stages : RanSettled(s, n)
  BY InputsLast DEF RanSettled

LEMMA ConsumedLasts ==
  ASSUME NEW s, NEW o, NEW w \in StageType, NEW n \in StageType, Consumed(s, o, w, n)
  PROVE  /\ w.state \in TerminalStates => n.state = w.state
         /\ Begun(n) => Begun(w)
  BY DEF Consumed, AttemptShape, FailureShape, AnswerShape, SameCharge, SameAttempts,
     TerminalStates, InFlightStates, Begun

LEMMA SweptLasts ==
  ASSUME NEW w \in StageType, NEW n \in StageType, Swept(w, n)
  PROVE  /\ w.state \in TerminalStates => n.state = w.state
         /\ Begun(n) => Begun(w)
  BY DEF Swept, SameCharge, SameAttempts, TerminalStates, InFlightStates, Begun, Unattempted

LEMMA InputsKept ==
  ASSUME MaxReruns = 0
  PROVE  IInv /\ IInv' /\ ChargeInv /\ InputsInv /\ [Next]_vars => InputsInv'
  <1> SUFFICES ASSUME IInv, IInv', ChargeInv, InputsInv, [Next]_vars PROVE InputsInv'
    OBVIOUS
  <1>1. /\ \A s \in Stages : /\ stages[s] \in StageType /\ working[s] \in StageType
                             /\ stages'[s] \in StageType /\ working'[s] \in StageType
        /\ working \in [Stages -> StageType] /\ batch \in Seq(ObservationType)
    BY DEF IInv, TypeOK, StoreTypeOK, TickTypeOK
  <1>2. \A s \in Stages : RanSettled(s, stages) /\ RanSettled(s, working)
    BY DEF InputsInv
  <1>3. CASE Quiet \/ \E o \in ObservationType : Reportable(o) /\ Noted(o)
    <2>1. stages' = stages /\ working' \in {working, stages}
      BY <1>3 DEF Quiet, Noted, Load, Dropped, tickVars
    <2> QED
      BY <1>2, <2>1 DEF InputsInv
  <1>4. CASE TickSteps
    <2>1. CASE PlainStep
      <3> DEFINE o == Head(batch)
                 s == o.stage
      <3>1. Consumed(s, o, working[s], working'[s]) /\ s \in Stages
            /\ \A t \in Stages : t # s => working'[t] = working[t]
        BY <2>1, BatchTyped DEF PlainStep, HeadConsumed
      <3> HIDE DEF s, o
      <3>2. /\ working[s].state \in TerminalStates => working'[s].state = working[s].state
            /\ Begun(working'[s]) => Begun(working[s])
        BY <1>1, <3>1, ConsumedLasts
      <3>3. Lasting(working, working') /\ \A t \in Stages : Begun(working'[t]) => Begun(working[t])
        BY <3>1, <3>2 DEF Lasting
      <3>4. \A t \in Stages : RanSettled(t, working')
        BY <1>2, <3>3, NoneBegun
      <3> QED
        BY <1>2, <2>1, <3>4 DEF InputsInv, PlainStep, HeadConsumed, storeVars
    <2>2. CASE ManualRerun
      <3>1. Reportable(Head(batch)) /\ Head(batch).kind = "manual_rerun"
        BY <1>1, <2>2, TailReportable DEF ChargeInv, ManualRerun, Observed
      <3> QED
        BY <3>1 DEF Reportable
    <2>3. CASE UNCHANGED <<storeVars, working>>
      BY <1>2, <2>3 DEF InputsInv, storeVars
    <2>4. CASE CancelAndRearm
      <3>1. working' = Rearm(CancelInactive(working)) /\ UNCHANGED storeVars
        BY <2>4 DEF CancelAndRearm
      <3>2. ASSUME NEW t \in Stages
            PROVE  /\ working[t].state \in TerminalStates => working'[t].state = working[t].state
                   /\ Begun(working'[t]) => Begun(working[t])
        <4>1. PICK m \in StageType : Swept(working[t], m) /\ Swept(m, working'[t])
          BY <1>1, <3>1, SweptTwice
        <4> QED
          BY <1>1, <4>1, SweptLasts
      <3>3. Lasting(working, working') /\ \A t \in Stages : Begun(working'[t]) => Begun(working[t])
        BY <3>2 DEF Lasting
      <3>4. \A t \in Stages : RanSettled(t, working')
        BY <1>2, <3>3, NoneBegun
      <3> QED
        BY <1>2, <3>1, <3>4 DEF InputsInv, storeVars
    <2>5. CASE ReleaseStep
      <3>1. PICK s \in Stages : /\ Released(s, working[s], working'[s])
                                /\ \A t \in Stages : t # s => working'[t] = working[t]
        BY <2>5 DEF ReleaseStep
      <3>2. Lasting(working, working')
        BY <3>1 DEF Lasting, Released, TerminalStates
      <3>3. ASSUME NEW t \in Stages PROVE RanSettled(t, working')
        <4>1. CASE t # s
          <5>1. working'[t] = working[t]
            BY <3>1, <4>1
          <5> QED
            BY <1>2, <3>2, <5>1, InputsLast DEF RanSettled
        <4>2. CASE t = s
          <5>1. working[s].ordinal = 0 /\ working[s].state = "pending"
            BY <3>1 DEF Released, ChargeInv, Charged
          <5>2. Begun(working'[s]) => working'[s].state = "ready"
            BY <3>1, <5>1 DEF Released, Begun, SameCharge, SameAttempts, InFlightStates
          <5>3. Begun(working'[s]) /\ Incoming(s) # {} => InputsSettled(s, working)
            BY <3>1, <5>2 DEF Released
          <5> QED
            BY <3>2, <4>2, <5>3, InputsLast DEF RanSettled
        <4> QED
          BY <4>1, <4>2
      <3> QED
        BY <1>2, <2>5, <3>3 DEF InputsInv, ReleaseStep, storeVars
    <2>6. CASE QueueStep
      <3>1. PICK s \in Stages : /\ Queued(working[s], working'[s])
                                /\ \A t \in Stages : t # s => working'[t] = working[t]
        BY <2>6 DEF QueueStep
      <3>2. Lasting(working, working') /\ \A t \in Stages : Begun(working'[t]) => Begun(working[t])
        BY <3>1 DEF Lasting, Queued, TerminalStates, Begun
      <3>3. \A t \in Stages : RanSettled(t, working')
        BY <1>2, <3>2, NoneBegun
      <3> QED
        BY <1>2, <2>6, <3>3 DEF InputsInv, QueueStep, storeVars
    <2>7. CASE Apply
      <3>1. working' = CancelInactive(working) /\ stages' = working'
        BY <2>7 DEF Apply
      <3>2. Lasting(working, working') /\ \A t \in Stages : Begun(working'[t]) => Begun(working[t])
        BY <1>1, <3>1, SweepShape, SweptLasts DEF Lasting
      <3>3. \A t \in Stages : RanSettled(t, working')
        BY <1>2, <3>2, NoneBegun
      <3> QED
        BY <3>1, <3>3 DEF InputsInv
    <2>8. CASE CancelObserved \/ EvaluatorDecided \/ AskEvaluators
      BY <2>3, <2>8 DEF CancelObserved, EvaluatorDecided, AskEvaluators
    <2> QED
      BY <1>4, <2>1, <2>2, <2>4, <2>5, <2>6, <2>7, <2>8, PlainSteps, ReleaseSteps, QueueSteps
      DEF TickSteps
  <1> QED
    BY <1>3, <1>4, OutsideSteps DEF ChargeInv

(* Without manual reruns a stage is attempted on settled inputs only,        *)
(* whatever is retried, cancelled, lost or restarted meanwhile: what         *)
(* maybeReleaseStage found stays true while the stage waits, runs and is     *)
(* retried, because nothing else moves a settled stage.                      *)
THEOREM SettledInputs ==
  ASSUME MaxReruns = 0
  PROVE  Spec => []RanOnSettledInputs
  <1>1. Init => InputsInv
    BY DEF Init, InputsInv, RanSettled, Begun, NewStage, InFlightStates
  <1>2. IInv /\ InputsInv => RanOnSettledInputs
    <2> SUFFICES ASSUME IInv, InputsInv, NEW s \in Stages, stages[s].ordinal > 0, Incoming(s) # {}
                 PROVE  InputsSettled(s, stages)
      BY DEF RanOnSettledInputs, InputsSettled
    <2> QED
      BY DEF InputsInv, RanSettled, Begun
  <1> QED
    BY <1>1, <1>2, InputsKept, Invariance, ChargeInvariance, PTL DEF Spec

-----------------------------------------------------------------------------
(* The attempt ledger and the dispatch intents.                              *)

OpenPhases == {"prepare", "observe", "waiting"}
LivePhases == {"observe", "waiting"}
Reporting == {"attempt_started", "attempt_waiting"}

(* The attempt an observation names, and the attempt a stage is at. *)
Named(o) == <<o.stage, o.attempt[1], o.attempt[2]>>
Current(s, st) == <<s, st.attempt[1], st.attempt[2]>>

Pending(a) == a \in DOMAIN dispatch /\ dispatch[a] = "pending"

(* Nothing cancels a run that has no deadline and that nobody cancels. *)
Uncancelled == MaxCancels = 0 /\ ~HasDeadline

(* An attempt that succeeded.  Only a cancel intent delivered after the fact *)
(* writes over its phase.                                                   *)
Final(a) ==
  /\ a \in DOMAIN runner /\ a \in DOMAIN dispatch /\ dispatch[a] = "delivered"
  /\ runner[a] = "succeeded" \/ (~Uncancelled /\ runner[a] = "recovery_required")

(* An attempt of this generation or of a former one. *)
NotAfter(a, st) ==
  /\ a[3] > 0
  /\ a[2] < st.generation \/ (a[2] = st.generation /\ a[3] <= st.ordinal)

UncancelledInv ==
  Uncancelled => DOMAIN cancels = {} /\ plan.cancels = {} /\ ~cancelRequested /\ ~overdue

LedgerInv ==
  /\ \A a \in DOMAIN runner : runner[a] \in OpenPhases => dispatch[a] = "pending"
  /\ \A a \in DOMAIN dispatch : NotAfter(a, stages[a[1]]) /\ NotAfter(a, working[a[1]])
  /\ \A a \in plan.dispatch : NotAfter(a, working[a[1]]) /\ a \notin DOMAIN dispatch

(* What a recorded observation says is true. *)
Truthful(o) ==
  /\ o.kind \in Settling \cup Reporting => o.attempt # None /\ Named(o) \in DOMAIN dispatch
  /\ o.kind \in Reporting => Pending(Named(o))
  /\ o.kind = "attempt_succeeded" => Final(Named(o))

(* What a step outside the tick that records the observations `os' does to   *)
(* the ledger.                                                              *)
LedgerStep(os) ==
  /\ DOMAIN dispatch' = DOMAIN dispatch
  /\ \A a \in DOMAIN runner' : runner'[a] \in OpenPhases => dispatch'[a] = "pending"
  /\ \A a \in DOMAIN dispatch : Final(a) => Final(a)'
  /\ \A a \in DOMAIN runner' : a[1] \notin Operation /\ runner'[a] \in LivePhases =>
         \/ a \in DOMAIN runner /\ runner[a] \in LivePhases
         \/ \E o \in os : o.kind = "attempt_started" /\ Named(o) = a
  /\ \A a \in DOMAIN dispatch : Pending(a) =>
       \/ Pending(a)'
       \/ /\ a \in DOMAIN runner /\ runner[a] \in LivePhases
          /\ \E o \in os : o.kind \in Settling /\ Named(o) = a
  /\ \A o \in os : Truthful(o)'

LEMMA NamesAttempt ==
  ASSUME NEW kind \in Kinds, NEW a \in AttemptType
  PROVE  /\ OfAttempt(kind, a).kind = kind /\ Named(OfAttempt(kind, a)) = a
         /\ a[3] > 0 => OfAttempt(kind, a).attempt # None
  BY DEF OfAttempt, Observation, Named, AttemptType, None

LEMMA LedgerFacts ==
  ASSUME IInv, LedgerInv
  PROVE  /\ DOMAIN runner \subseteq DOMAIN dispatch
         /\ \A a \in DOMAIN dispatch : a \in AttemptType /\ a[3] > 0
         /\ \A a \in DOMAIN runner : runner[a] \in OpenPhases => dispatch[a] = "pending"
  BY DEF IInv, TypeOK, LedgerTypeOK, IntentsOK, LedgerInv, NotAfter

(* The ledger is left alone. *)
LEMMA LedgerRests ==
  ASSUME IInv, LedgerInv, UNCHANGED <<dispatch, runner>>,
         NEW os, \A o \in os : o.kind \notin Settling \cup Reporting
  PROVE  LedgerStep(os)
  <1> USE DEF Final, Pending
  <1>1. \A o \in os : Truthful(o)'
    BY DEF Truthful, Settling
  <1> QED
    BY <1>1, LedgerFacts DEF LedgerStep

(* An attempt that is driven says that it started or waits. *)
LEMMA LedgerReports ==
  ASSUME IInv, LedgerInv, NEW a \in DOMAIN runner, NEW kind \in Reporting, NEW to \in LivePhases,
         runner[a] \in OpenPhases, runner[a] \in LivePhases \/ kind = "attempt_started",
         runner' = [runner EXCEPT ![a] = to], UNCHANGED dispatch
  PROVE  LedgerStep({OfAttempt(kind, a)})
  <1> DEFINE o == OfAttempt(kind, a)
  <1>1. a \in DOMAIN dispatch /\ a \in AttemptType /\ a[3] > 0 /\ dispatch[a] = "pending"
    BY LedgerFacts
  <1>2. o.kind = kind /\ Named(o) = a /\ o.attempt # None
    BY <1>1, NamesAttempt DEF Reporting, Kinds
  <1> SUFFICES LedgerStep({o})
    OBVIOUS
  <1> HIDE DEF o
  <1>3. \A p \in {o} : Truthful(p)'
    <2>1. Named(o)' = Named(o)
      OBVIOUS
    <2> QED
      BY <1>1, <1>2, <2>1 DEF Truthful, Reporting, Pending
  <1>4. \A b \in DOMAIN dispatch : Final(b) => Final(b)'
    BY <1>1 DEF Final
  <1>5. \A b \in DOMAIN runner' : runner'[b] \in OpenPhases => dispatch'[b] = "pending"
    BY <1>1, LedgerFacts DEF OpenPhases, LivePhases
  <1>6. \A b \in DOMAIN runner' : runner'[b] \in LivePhases =>
          \/ b \in DOMAIN runner /\ runner[b] \in LivePhases
          \/ \E p \in {o} : p.kind = "attempt_started" /\ Named(p) = b
    <2>1. \A b \in DOMAIN runner' : b \in DOMAIN runner /\ (b = a \/ runner'[b] = runner[b])
      OBVIOUS
    <2>2. runner[a] \in LivePhases \/ (o.kind = "attempt_started" /\ Named(o) = a)
      BY <1>2
    <2> QED
      BY <2>1, <2>2
  <1>7. \A b \in DOMAIN dispatch : Pending(b) => Pending(b)'
    BY DEF Pending
  <1> QED
    BY <1>1, <1>3, <1>4, <1>5, <1>6, <1>7 DEF LedgerStep

(* An attempt is given up. *)
LEMMA LedgerGivesUp ==
  ASSUME IInv, LedgerInv, NEW a \in DOMAIN runner,
         runner[a] \in OpenPhases \/ ~Uncancelled,
         runner' = [runner EXCEPT ![a] = "recovery_required"], UNCHANGED dispatch,
         NEW os, \A o \in os : o.kind = "cancellation_settled" /\ o.attempt # None /\ Named(o) = a
  PROVE  LedgerStep(os)
  <1>1. a \in DOMAIN dispatch
    BY LedgerFacts
  <1>2. \A o \in os : Truthful(o)'
    BY <1>1 DEF Truthful, Reporting, Named
  <1>3. \A b \in DOMAIN dispatch : Final(b) => Final(b)'
    BY LedgerFacts DEF Final, OpenPhases
  <1>4. \A b \in DOMAIN runner' : runner'[b] \in OpenPhases => dispatch'[b] = "pending"
    BY LedgerFacts DEF OpenPhases
  <1>5. \A b \in DOMAIN runner' : runner'[b] \in LivePhases =>
                                    b \in DOMAIN runner /\ runner[b] \in LivePhases
    BY DEF LivePhases
  <1>6. \A b \in DOMAIN dispatch : Pending(b) => Pending(b)'
    BY DEF Pending
  <1> QED
    BY <1>2, <1>3, <1>4, <1>5, <1>6 DEF LedgerStep

(* An attempt settles with its intent and its observation. *)
LEMMA LedgerSettles ==
  ASSUME IInv, LedgerInv, NEW a \in DOMAIN runner, runner[a] \in LivePhases,
         DOMAIN runner' = DOMAIN runner, runner'[a] \in {"succeeded", "failed", "cancelled"},
         \A b \in DOMAIN runner : b # a =>
           \/ runner'[b] = runner[b]
           \/ runner[b] \in OpenPhases /\ runner'[b] = "recovery_required"
           \/ runner[b] \in OpenPhases /\ runner'[b] = "observe" /\ b[1] \in Operation,
         dispatch' = [dispatch EXCEPT ![a] = "delivered"],
         NEW o, o.kind \in Settling, o.kind = "attempt_succeeded" => runner'[a] = "succeeded",
         o.attempt # None, Named(o) = a
  PROVE  LedgerStep({o})
  <1>1. a \in DOMAIN dispatch /\ dispatch[a] = "pending"
    BY LedgerFacts DEF LivePhases, OpenPhases
  <1>2. \A p \in {o} : Truthful(p)'
    BY <1>1 DEF Truthful, Reporting, Settling, Final, Named
  <1>3. \A b \in DOMAIN dispatch : Final(b) => Final(b)'
    BY <1>1 DEF Final, OpenPhases
  <1>4. DOMAIN dispatch' = DOMAIN dispatch
    OBVIOUS
  <1>5. ASSUME NEW b \in DOMAIN dispatch, Pending(b), b # a PROVE Pending(b)'
    BY <1>5 DEF Pending
  <1>6. \A b \in DOMAIN dispatch : Pending(b) =>
       \/ Pending(b)'
       \/ /\ b \in DOMAIN runner /\ runner[b] \in LivePhases
          /\ \E p \in {o} : p.kind \in Settling /\ Named(p) = b
    BY <1>5
  <1>7. ASSUME NEW b \in DOMAIN runner, b # a, runner'[b] \in OpenPhases
        PROVE  runner[b] \in OpenPhases
    BY <1>7 DEF OpenPhases
  <1>8. ASSUME NEW b \in DOMAIN runner', runner'[b] \in OpenPhases
        PROVE  dispatch'[b] = "pending"
    <2>1. b \in DOMAIN runner /\ b # a
      BY <1>8 DEF OpenPhases
    <2>2. b \in DOMAIN dispatch /\ dispatch[b] = "pending"
      BY <1>7, <1>8, <2>1, LedgerFacts
    <2> QED
      BY <2>1, <2>2
  <1>9. ASSUME NEW b \in DOMAIN runner', b[1] \notin Operation, runner'[b] \in LivePhases
        PROVE  b \in DOMAIN runner /\ runner[b] \in LivePhases
    BY <1>9 DEF LivePhases
  <1> QED
    BY <1>2, <1>3, <1>4, <1>6, <1>8, <1>9 DEF LedgerStep

LEMMA FinalizeLedger ==
  ASSUME IInv, LedgerInv, NEW a \in DOMAIN runner,
         NEW outcome \in {"succeeded", "failed", "cancelled"},
         NEW o, Finalize(a, outcome, o), o.kind \in Settling,
         o.kind = "attempt_succeeded" => outcome = "succeeded",
         o.attempt # None, Named(o) = a
  PROVE  LedgerStep({o}) /\ Noted(o) /\ phase = "idle"
  <1>1. /\ runner[a] \in LivePhases /\ runner' = [runner EXCEPT ![a] = outcome]
        /\ dispatch' = [dispatch EXCEPT ![a] = "delivered"] /\ RecordAndTick(o)
    BY DEF Finalize, LivePhases
  <1>2. /\ DOMAIN runner' = DOMAIN runner /\ runner'[a] = outcome
        /\ \A b \in DOMAIN runner : b # a => runner'[b] = runner[b]
    BY <1>1
  <1>3. LedgerStep({o})
    BY <1>1, <1>2, LedgerSettles
  <1> QED
    BY <1>1, <1>3, RecordNoted DEF RecordAndTick, Record

(* A step outside the tick, seen from the queue and from the ledger. *)
OutsideStep ==
  /\ DOMAIN cancels' = DOMAIN cancels /\ (overdue' = overdue \/ HasDeadline)
  /\ \/ Quiet /\ LedgerStep({})
     \/ /\ phase = "idle"
        /\ \E o \in ObservationType : Reportable(o) /\ Noted(o) /\ LedgerStep({o})

LEMMA SettleLedger ==
  ASSUME IInv, LedgerInv, NEW a \in DOMAIN runner, SettleSucceeded(a) \/ SettleFailed(a)
  PROVE  /\ phase = "idle" /\ UNCHANGED overdue
         /\ \E o \in ObservationType : Reportable(o) /\ Noted(o) /\ LedgerStep({o})
  <1>1. a \in AttemptType /\ a[3] > 0
    BY LedgerFacts
  <1>2. CASE SettleSucceeded(a)
    <2> DEFINE o == OfAttempt("attempt_succeeded", a)
    <2>1. Finalize(a, "succeeded", o) /\ UNCHANGED overdue
      BY <1>2 DEF SettleSucceeded, envVars
    <2>2. o \in ObservationType /\ Reportable(o)
      BY KindsDiffer, ClaimedTyped, OfAttemptTyped DEF Kinds
    <2>3. o.kind = "attempt_succeeded" /\ Named(o) = a /\ o.attempt # None
      BY <1>1, NamesAttempt DEF Kinds
    <2> HIDE DEF o
    <2>4. LedgerStep({o}) /\ Noted(o) /\ phase = "idle"
      BY <2>1, <2>3, FinalizeLedger DEF Settling
    <2> QED
      BY <2>1, <2>2, <2>4
  <1>3. CASE SettleFailed(a)
    <2>1. PICK f \in Failures :
            Finalize(a, "failed", [OfAttempt("attempt_failed", a) EXCEPT !.failure = f])
      BY <1>3 DEF SettleFailed
    <2> DEFINE o == [OfAttempt("attempt_failed", a) EXCEPT !.failure = f]
    <2>2. OfAttempt("attempt_failed", a) \in ObservationType /\ f \in FailureType
      BY ClaimedTyped, OfAttemptTyped DEF Kinds
    <2>3. o \in ObservationType
      BY <2>2 DEF ObservationType
    <2>4. Reportable(o)
      BY FailureReportable
    <2>5. o.kind = "attempt_failed" /\ Named(o) = a /\ o.attempt # None
      BY <1>1 DEF OfAttempt, Observation, Named, AttemptType, None
    <2> HIDE DEF o
    <2>6. Finalize(a, "failed", o)
      BY <2>1 DEF o
    <2>7. LedgerStep({o}) /\ Noted(o) /\ phase = "idle"
      BY <2>5, <2>6, FinalizeLedger DEF Settling
    <2>8. UNCHANGED overdue
      BY <1>3 DEF SettleFailed, envVars
    <2> QED
      BY <2>3, <2>4, <2>7, <2>8
  <1> QED
    BY <1>2, <1>3

LEMMA OutsideLedger ==
  ASSUME IInv, CountersOK, LedgerInv, UncancelledInv, [Next]_vars
  PROVE  TickSteps \/ OutsideStep
  <1> DEFINE Goal == \E o \in ObservationType : Reportable(o) /\ Noted(o) /\ LedgerStep({o})
  <1>1. ASSUME NEW o \in ObservationType, Reportable(o), LedgerStep({o}),
               (Record(o) /\ UNCHANGED <<phase, tickVars>>) \/ RecordAndTick(o)
        PROVE  Goal /\ phase = "idle"
    BY <1>1, RecordNoted DEF Record, RecordAndTick
  <1>2. ASSUME NEW o \in ObservationType, Reportable(o), o.kind \notin Settling \cup Reporting,
               UNCHANGED <<dispatch, runner, cancels>>, overdue' = overdue,
               (Record(o) /\ UNCHANGED <<phase, tickVars>>) \/ RecordAndTick(o)
        PROVE  OutsideStep
    <2>1. LedgerStep({o})
      BY <1>2, LedgerRests
    <2> QED
      BY <1>1, <1>2, <2>1 DEF OutsideStep
  <1>3. UNCHANGED <<dispatch, runner>> => LedgerStep({})
    BY LedgerRests
  <1>4. ASSUME NEW a \in DOMAIN runner
        PROVE  /\ a \in DOMAIN dispatch /\ a \in AttemptType /\ a[3] > 0
               /\ \A kind \in {"attempt_started", "attempt_waiting", "cancellation_settled"} :
                    /\ OfAttempt(kind, a) \in ObservationType /\ Reportable(OfAttempt(kind, a))
                    /\ OfAttempt(kind, a).kind = kind /\ Named(OfAttempt(kind, a)) = a
                    /\ OfAttempt(kind, a).attempt # None
    BY LedgerFacts, NamesAttempt, OfAttemptTyped, ClaimedTyped, KindsDiffer DEF Kinds
  <1> HIDE DEF Goal
  <1>5. CASE Tick \/ DeadlinePasses \/ UNCHANGED vars
    <2>1. Quiet /\ DOMAIN cancels' = DOMAIN cancels /\ (overdue' = overdue \/ HasDeadline)
          /\ UNCHANGED <<dispatch, runner>>
      BY <1>5 DEF Tick, DeadlinePasses, Quiet, storeVars, envVars, vars
    <2> QED
      BY <1>3, <2>1 DEF OutsideStep
  <1>6. CASE Claims
    <2>1. PICK a \in DOMAIN dispatch : ClaimDispatch(a)
      BY <1>6 DEF Claims
    <2>2. runner' = Put(runner, a, "prepare") /\ dispatch[a] = "pending" /\ dispatch' = dispatch
      BY <2>1 DEF ClaimDispatch, storeVars
    <2>3. DOMAIN runner' = DOMAIN runner \cup {a} /\ runner'[a] = "prepare"
          /\ \A b \in DOMAIN runner : b # a => runner'[b] = runner[b]
      BY <2>2 DEF Put
    <2>4. \A b \in DOMAIN dispatch : Final(b) => Final(b)'
      BY <2>2, <2>3 DEF Final
    <2>5. \A b \in DOMAIN runner' : runner'[b] \in OpenPhases => dispatch'[b] = "pending"
      BY <2>2, <2>3, LedgerFacts
    <2>6. \A b \in DOMAIN runner' : runner'[b] \in LivePhases =>
                                      b \in DOMAIN runner /\ runner[b] \in LivePhases
      BY <2>3 DEF LivePhases
    <2>7. \A b \in DOMAIN dispatch : Pending(b) => Pending(b)'
      BY <2>2 DEF Pending
    <2>8. LedgerStep({})
      BY <2>2, <2>4, <2>5, <2>6, <2>7 DEF LedgerStep
    <2> QED
      BY <2>1, <2>8 DEF ClaimDispatch, OutsideStep, Quiet, storeVars, envVars
  <1>7. CASE Starts
    <2>1. PICK a \in DOMAIN runner : StartRunner(a)
      BY <1>7 DEF Starts
    <2>2. LedgerStep({OfAttempt("attempt_started", a)})
      BY <2>1, LedgerReports DEF StartRunner, OpenPhases, LivePhases, Reporting
    <2> QED
      BY <1>1, <1>4, <2>1, <2>2 DEF StartRunner, OutsideStep, Goal, envVars
  <1>8. CASE Finishes
    BY <1>8, SettleLedger DEF Finishes, FinishSucceeded, FinishFailed, OutsideStep
  <1>9. CASE DrivesCancel
    <2>1. PICK a : CancelRunner(a) \/ CancelTooLate(a) \/ CancelWithoutRunner(a)
      BY <1>9 DEF DrivesCancel
    <2>2. a \in DOMAIN runner /\ DOMAIN cancels' = DOMAIN cancels /\ Draining /\ a \in DOMAIN cancels
      BY <1>9, <2>1 DEF CancelRunner, CancelTooLate, CancelWithoutRunner, Delivered, DrivesCancel
    <2> DEFINE o == OfAttempt("cancellation_settled", a)
    <2>3. o \in ObservationType /\ Reportable(o) /\ o.kind = "cancellation_settled"
          /\ Named(o) = a /\ o.attempt # None
      BY <1>4, <2>2
    <2> HIDE DEF o
    <2>4. CASE CancelTooLate(a)
      BY <2>2, <2>4, SettleLedger DEF CancelTooLate, OutsideStep
    <2>5. CASE CancelRunner(a)
      <3>1. Finalize(a, "cancelled", o) /\ UNCHANGED overdue
        BY <2>5 DEF CancelRunner, o, envVars
      <3>2. LedgerStep({o}) /\ Noted(o) /\ phase = "idle"
        BY <2>2, <2>3, <3>1, FinalizeLedger DEF Settling
      <3> QED
        BY <2>2, <2>3, <3>1, <3>2 DEF OutsideStep
    <2>6. CASE CancelWithoutRunner(a)
      <3>1. RecordAndTick(o) /\ UNCHANGED <<overdue, dispatch>>
            /\ runner' = [runner EXCEPT ![a] = "recovery_required"]
        BY <2>6 DEF CancelWithoutRunner, o, envVars
      <3>2. ~Uncancelled
        BY <2>2 DEF UncancelledInv
      <3>3. LedgerStep({o})
        BY <2>2, <2>3, <3>1, <3>2, LedgerGivesUp
      <3> QED
        BY <1>1, <2>2, <2>3, <3>1, <3>3 DEF OutsideStep, Goal
    <2> QED
      BY <2>1, <2>4, <2>5, <2>6
  <1>10. CASE \E a \in DOMAIN runner : MarkWaiting(a) \/ LoseRunner(a) \/ CrashBeforeState(a)
    <2>1. PICK a \in DOMAIN runner : MarkWaiting(a) \/ LoseRunner(a) \/ CrashBeforeState(a)
      BY <1>10
    <2>2. CASE MarkWaiting(a)
      <3>1. LedgerStep({OfAttempt("attempt_waiting", a)})
        BY <2>2, LedgerReports DEF MarkWaiting, OpenPhases, LivePhases, Reporting
      <3> QED
        BY <1>1, <1>4, <2>2, <3>1 DEF MarkWaiting, OutsideStep, Goal, envVars
    <2>3. CASE LoseRunner(a)
      <3>1. LedgerStep({})
        BY <2>3, LedgerGivesUp DEF LoseRunner, OpenPhases, storeVars
      <3> QED
        BY <2>3, <3>1 DEF LoseRunner, OutsideStep, Quiet, storeVars
    <2>4. CASE CrashBeforeState(a)
      <3> DEFINE o == OfAttempt("attempt_succeeded", a)
                 rebuilt == {c \in DOMAIN runner : c[1] \in Operation}
      <3>1. /\ phase = "idle" /\ runner[a] \in LivePhases
            /\ runner' = [b \in DOMAIN runner |-> IF b = a THEN "succeeded" ELSE Recovered(b, rebuilt)]
            /\ dispatch' = [dispatch EXCEPT ![a] = "delivered"]
            /\ Noted(o) /\ UNCHANGED <<overdue, cancels>>
        BY <2>4 DEF CrashBeforeState, LivePhases, Noted
      <3>2. o \in ObservationType /\ Reportable(o) /\ o.kind = "attempt_succeeded"
            /\ Named(o) = a /\ o.attempt # None
        BY <1>4, NamesAttempt, OfAttemptTyped, KindsDiffer DEF Kinds
      <3>3. \A b \in rebuilt : b[1] \in Operation
        OBVIOUS
      <3> HIDE DEF o, rebuilt
      <3>4. DOMAIN runner' = DOMAIN runner /\ runner'[a] = "succeeded"
        BY <3>1
      <3>5. \A b \in DOMAIN runner : b # a =>
              \/ runner'[b] = runner[b]
              \/ runner[b] \in OpenPhases /\ runner'[b] = "recovery_required"
              \/ runner[b] \in OpenPhases /\ runner'[b] = "observe" /\ b[1] \in Operation
        BY <3>1, <3>3 DEF Recovered, OpenPhases
      <3>6. LedgerStep({o})
        <4>1. runner[a] \in LivePhases /\ o.kind \in Settling
          BY <3>1, <3>2 DEF Settling
        <4>2. runner'[a] \in {"succeeded", "failed", "cancelled"}
          BY <3>4
        <4> QED
          BY <3>1, <3>2, <3>4, <3>5, <4>1, <4>2, LedgerSettles
      <3> QED
        BY <3>1, <3>2, <3>6 DEF OutsideStep
    <2> QED
      BY <2>1, <2>2, <2>3, <2>4
  <1>11. CASE AnswersProposal
    <2>1. PICK s \in Stages, kind \in {"recovery_approved", "recovery_rejected"} :
            RecordRecoveryApproval(s, kind)
      BY <1>11 DEF AnswersProposal
    <2> DEFINE o == [Observation(kind, s) EXCEPT !.proposal = stages[s].proposal]
    <2>2. stages[s].proposal \in Nat \X Nat /\ Observation(kind, s) \in ObservationType
      BY ObservationTyped DEF IInv, TypeOK, StoreTypeOK, StageType, Kinds
    <2>3. o \in ObservationType
      BY <2>2 DEF ObservationType
    <2>4. Reportable(o) /\ o.kind \notin Settling \cup Reporting
      BY <2>1 DEF RecordRecoveryApproval, Reportable, Observation, Settling, Reporting
    <2>5. Record(o) /\ UNCHANGED <<phase, tickVars>> /\ UNCHANGED <<dispatch, runner, cancels, overdue>>
      BY <2>1 DEF RecordRecoveryApproval, envVars
    <2> HIDE DEF o
    <2> QED
      BY <1>2, <2>3, <2>4, <2>5
  <1>12. CASE AnswersEvaluator
    <2>1. PICK e \in EvaluatorEdges, yes \in {"selected", "rejected"} :
            /\ Record([Observation("evaluator_decided", e[2]) EXCEPT !.edge = e, !.answer = yes])
            /\ UNCHANGED <<phase, tickVars>> /\ UNCHANGED <<dispatch, runner, cancels, overdue>>
      BY <1>12 DEF AnswersEvaluator, DecideEvaluator, envVars
    <2> DEFINE o == [Observation("evaluator_decided", e[2]) EXCEPT !.edge = e, !.answer = yes]
    <2>2. e \in Edges /\ e[2] \in Stages /\ yes \in Answers
      BY DEF EvaluatorEdges, Answers
    <2>3. Observation("evaluator_decided", e[2]) \in ObservationType
      BY <2>2, ObservationTyped DEF Kinds
    <2>4. o \in ObservationType
      BY <2>2, <2>3 DEF ObservationType
    <2>5. Reportable(o) /\ o.kind \notin Settling \cup Reporting
      BY DEF Reportable, Observation, Settling, Reporting
    <2>6. Record(o)
      BY <2>1
    <2> HIDE DEF o
    <2> QED
      BY <1>2, <2>1, <2>4, <2>5, <2>6
  <1>13. CASE RequestCancel
    <2> DEFINE o == Observation("cancel_requested", 1)
    <2>1. o \in ObservationType
      BY ObservationTyped DEF Kinds, Stages
    <2>2. Reportable(o) /\ o.kind \notin Settling \cup Reporting
      BY <1>13 DEF RequestCancel, CountersOK, Reportable, Observation, Settling, Reporting
    <2>3. RecordAndTick(o) /\ UNCHANGED <<dispatch, runner, cancels, overdue>>
      BY <1>13 DEF RequestCancel
    <2> HIDE DEF o
    <2> QED
      BY <1>2, <2>1, <2>2, <2>3
  <1>14. CASE \E s \in Stages : RequestRerun(s)
    <2>1. PICK s \in Stages : RequestRerun(s)
      BY <1>14
    <2> DEFINE o == Observation("manual_rerun", s)
    <2>2. o \in ObservationType
      BY ObservationTyped DEF Kinds
    <2>3. Reportable(o) /\ o.kind \notin Settling \cup Reporting
      BY <2>1 DEF RequestRerun, CountersOK, Reportable, Observation, Settling, Reporting
    <2>4. RecordAndTick(o) /\ UNCHANGED <<dispatch, runner, cancels, overdue>>
      BY <2>1 DEF RequestRerun
    <2> HIDE DEF o
    <2> QED
      BY <1>2, <2>2, <2>3, <2>4
  <1>15. CASE Crash
    <2>1. PICK rebuilt \in SUBSET {a \in DOMAIN runner : a[1] \in Operation} :
            runner' = [a \in DOMAIN runner |-> Recovered(a, rebuilt)]
      BY <1>15 DEF Crash
    <2>2. Dropped /\ UNCHANGED <<dispatch, cancels, overdue, stages, observations>>
      BY <1>15 DEF Crash, Dropped, storeVars
    <2>3. \A b \in DOMAIN dispatch : Final(b) => Final(b)'
      BY <2>1, <2>2 DEF Final, Recovered
    <2>4. ASSUME NEW b \in DOMAIN runner', runner'[b] \in OpenPhases
          PROVE  /\ dispatch'[b] = "pending" /\ b \in DOMAIN runner
                 /\ b[1] \in Operation \/ runner[b] = runner'[b]
      <3>1. b \in DOMAIN runner /\ runner'[b] = Recovered(b, rebuilt)
        BY <2>1
      <3>2. runner[b] \in OpenPhases /\ (runner'[b] = runner[b] \/ b \in rebuilt)
        BY <2>4, <3>1 DEF Recovered, OpenPhases
      <3> QED
        BY <2>2, <3>1, <3>2, LedgerFacts
    <2>5. \A b \in DOMAIN dispatch : Pending(b) => Pending(b)'
      BY <2>2 DEF Pending
    <2>6. \A b \in DOMAIN runner' : runner'[b] \in OpenPhases => dispatch'[b] = "pending"
      BY <2>4
    <2>7. \A b \in DOMAIN runner' : b[1] \notin Operation /\ runner'[b] \in LivePhases =>
                                      b \in DOMAIN runner /\ runner[b] \in LivePhases
      BY <2>1, <2>4 DEF LivePhases, OpenPhases
    <2>8. LedgerStep({})
      BY <2>2, <2>3, <2>5, <2>6, <2>7 DEF LedgerStep
    <2> QED
      BY <2>2, <2>8 DEF OutsideStep, Quiet
  <1> QED
    BY <1>5, <1>6, <1>7, <1>8, <1>9, <1>10, <1>11, <1>12, <1>13, <1>14, <1>15 DEF Next

(* A stage never falls back to a former attempt. *)
Onward(w, n) ==
  \/ n.generation > w.generation
  \/ n.generation = w.generation /\ n.ordinal >= w.ordinal

LEMMA OnwardSteps ==
  ASSUME NEW s, NEW o, NEW w \in StageType, NEW n \in StageType,
         Consumed(s, o, w, n) \/ Swept(w, n) \/ Renewed(w, n) \/ Released(s, w, n) \/ Queued(w, n)
  PROVE  Onward(w, n)
  <1>1. w.generation \in Nat /\ w.ordinal \in Nat /\ n.generation \in Nat /\ n.ordinal \in Nat
    BY DEF StageType
  <1>2. n = w \/ SameAttempts(w, n) => Onward(w, n)
    BY <1>1 DEF Onward, SameAttempts
  <1>3. Consumed(s, o, w, n) \/ Swept(w, n) \/ Released(s, w, n) => n = w \/ SameAttempts(w, n)
    BY DEF Consumed, AttemptShape, FailureShape, AnswerShape, Swept, Released, SameCharge
  <1>4. Renewed(w, n) \/ Queued(w, n) => n = w \/ Onward(w, n)
    BY <1>1 DEF Renewed, Queued, Onward
  <1> QED
    BY <1>2, <1>3, <1>4

LEMMA OnwardTwice ==
  ASSUME NEW w \in StageType, NEW m \in StageType, NEW n \in StageType, Onward(w, m), Onward(m, n)
  PROVE  Onward(w, n)
  BY DEF Onward, StageType

LEMMA StillNotAfter ==
  ASSUME NEW a \in AttemptType, NEW w \in StageType, NEW n \in StageType,
         NotAfter(a, w), Onward(w, n)
  PROVE  NotAfter(a, n)
  BY DEF NotAfter, Onward, StageType, AttemptType

(* Every step of a tick moves every stage onward. *)
LEMMA TickOnward ==
  ASSUME IInv, IInv', TickSteps
  PROVE  \A t \in Stages : Onward(working[t], working'[t])
  <1>1. /\ \A s \in Stages : working[s] \in StageType /\ working'[s] \in StageType
        /\ working \in [Stages -> StageType]
    BY DEF IInv, TypeOK, TickTypeOK
  <1>2. \A t \in Stages : working'[t] = working[t] => Onward(working[t], working'[t])
    BY <1>1 DEF Onward, StageType
  <1>3. CASE PlainStep
    BY <1>1, <1>2, <1>3, OnwardSteps DEF PlainStep
  <1>4. CASE \A t \in Stages : Renewed(working[t], working'[t])
    BY <1>1, <1>4, OnwardSteps
  <1>5. CASE UNCHANGED working
    BY <1>2, <1>5
  <1>6. CASE CancelAndRearm
    <2>1. working' = Rearm(CancelInactive(working))
      BY <1>6 DEF CancelAndRearm
    <2>2. ASSUME NEW t \in Stages PROVE Onward(working[t], working'[t])
      <3>1. PICK m \in StageType : Swept(working[t], m) /\ Swept(m, working'[t])
        BY <1>1, <2>1, SweptTwice
      <3> QED
        BY <1>1, <3>1, OnwardSteps, OnwardTwice
    <2> QED
      BY <2>2
  <1>7. CASE ReleaseStep
    BY <1>1, <1>2, <1>7, OnwardSteps DEF ReleaseStep
  <1>8. CASE QueueStep
    BY <1>1, <1>2, <1>8, OnwardSteps DEF QueueStep
  <1>9. CASE Apply
    <2>1. working' = CancelInactive(working)
      BY <1>9 DEF Apply
    <2> QED
      BY <1>1, <2>1, SweepShape, OnwardSteps
  <1> QED
    BY <1>3, <1>4, <1>5, <1>6, <1>7, <1>8, <1>9, TickStepsShape

(* How the ledger grows when a plan is applied. *)
LEMMA AppliedIntents ==
  ASSUME IInv, Apply
  PROVE  /\ DOMAIN dispatch' = DOMAIN dispatch \cup plan.dispatch
         /\ \A a \in DOMAIN dispatch : dispatch'[a] = dispatch[a]
         /\ \A a \in plan.dispatch \ DOMAIN dispatch : dispatch'[a] = "pending"
         /\ runner' = runner
  <1>1. dispatch' = Merge(dispatch, [a \in plan.dispatch |-> "pending"]) /\ runner' = runner
    BY DEF Apply
  <1> QED
    BY <1>1 DEF Merge

LEMMA OutsideFrame ==
  ASSUME OutsideStep
  PROVE  /\ stages' = stages
         /\ \/ UNCHANGED <<phase, working, batch, plan, cancelRequested>>
            \/ /\ working' = stages /\ batch' = observations' /\ phase' = "observe"
               /\ plan'.dispatch = {} /\ plan'.cancels = {} /\ ~cancelRequested'
            \/ /\ working' = stages /\ phase' = "idle"
               /\ plan'.dispatch = {} /\ plan'.cancels = {} /\ ~cancelRequested'
  <1>1. EmptyPlan.dispatch = {} /\ EmptyPlan.cancels = {}
    BY DEF EmptyPlan
  <1> HIDE DEF EmptyPlan
  <1>2. CASE Quiet
    <2>1. CASE Load(observations)
      BY <1>1, <1>2, <2>1 DEF Quiet, Load
    <2>2. CASE Dropped \/ UNCHANGED <<phase, tickVars>>
      BY <1>1, <1>2, <2>2 DEF Quiet, Dropped, tickVars
    <2> QED
      BY <1>2, <2>1, <2>2 DEF Quiet
  <1>3. ASSUME NEW o, Noted(o)
        PROVE  stages' = stages /\ (UNCHANGED <<phase, tickVars>> \/ Load(observations'))
    BY <1>3 DEF Noted
  <1>4. CASE \E o \in ObservationType : Noted(o)
    <2>1. CASE Load(observations')
      BY <1>1, <1>3, <1>4, <2>1 DEF Load
    <2>2. CASE UNCHANGED <<phase, tickVars>>
      BY <1>3, <1>4, <2>2 DEF tickVars
    <2> QED
      BY <1>3, <1>4, <2>1, <2>2
  <1> QED
    BY <1>2, <1>4 DEF OutsideStep

LEMMA LedgerKept == IInv /\ IInv' /\ CountersOK /\ UncancelledInv /\ LedgerInv /\ [Next]_vars => LedgerInv'
  <1> SUFFICES ASSUME IInv, IInv', CountersOK, UncancelledInv, LedgerInv, [Next]_vars PROVE LedgerInv'
    OBVIOUS
  <1>1. /\ \A s \in Stages : /\ stages[s] \in StageType /\ working[s] \in StageType
                             /\ stages'[s] \in StageType /\ working'[s] \in StageType
        /\ working \in [Stages -> StageType]
        /\ DOMAIN runner \subseteq DOMAIN dispatch /\ DOMAIN runner' \subseteq DOMAIN dispatch'
        /\ DOMAIN dispatch \subseteq AttemptType /\ plan.dispatch \subseteq AttemptType
        /\ \A a \in AttemptType : a[1] \in Stages
    BY DEF IInv, TypeOK, StoreTypeOK, TickTypeOK, LedgerTypeOK, IntentsOK, PlanOK, AttemptType
  <1>2. /\ \A a \in DOMAIN runner : runner[a] \in OpenPhases => dispatch[a] = "pending"
        /\ \A a \in DOMAIN dispatch : NotAfter(a, stages[a[1]]) /\ NotAfter(a, working[a[1]])
        /\ \A a \in plan.dispatch : NotAfter(a, working[a[1]]) /\ a \notin DOMAIN dispatch
    BY DEF LedgerInv
  <1>3. CASE OutsideStep
    <2>1. /\ DOMAIN dispatch' = DOMAIN dispatch
          /\ \A a \in DOMAIN runner' : runner'[a] \in OpenPhases => dispatch'[a] = "pending"
      BY <1>3 DEF OutsideStep, LedgerStep
    <2>2. /\ stages' = stages
          /\ \/ working' = working /\ plan' = plan
             \/ working' = stages /\ plan'.dispatch = {}
      BY <1>3, OutsideFrame
    <2> QED
      BY <1>2, <2>1, <2>2 DEF LedgerInv
  <1>4. CASE TickSteps /\ ~Apply
    <2>1. UNCHANGED <<storeVars, runner>>
      BY <1>4, TickStepsShape DEF PlainStep, HeadConsumed, CancelAndRearm, ReleaseStep, QueueStep
    <2>2. \A t \in Stages : Onward(working[t], working'[t])
      BY <1>4, TickOnward
    <2>3. ASSUME NEW a \in AttemptType, NotAfter(a, working[a[1]])
          PROVE  NotAfter(a, working'[a[1]])
      BY <1>1, <2>2, <2>3, StillNotAfter
    <2>4. ASSUME NEW a \in plan'.dispatch
          PROVE  NotAfter(a, working'[a[1]]) /\ a \notin DOMAIN dispatch
      <3>1. CASE a \in plan.dispatch
        BY <1>1, <1>2, <2>3, <3>1
      <3>2. CASE a \notin plan.dispatch
        <4>1. plan'.dispatch # plan.dispatch
          BY <2>4, <3>2
        <4>2. CASE QueueStep
          <5>1. PICK s \in Stages :
                  /\ Queued(working[s], working'[s])
                  /\ plan'.dispatch = plan.dispatch \cup
                       {<<s, working[s].generation, working[s].ordinal + 1>>}
            BY <4>2 DEF QueueStep
          <5>2. a = <<s, working[s].generation, working[s].ordinal + 1>>
            BY <2>4, <3>2, <5>1
          <5>3. /\ working[s].generation \in Nat /\ working[s].ordinal \in Nat
                /\ working'[s].generation = working[s].generation
                /\ working'[s].ordinal = working[s].ordinal + 1
            BY <1>1, <5>1 DEF Queued, StageType
          <5>4. NotAfter(a, working'[s]) /\ ~NotAfter(a, working[s])
            BY <5>2, <5>3 DEF NotAfter
          <5> QED
            BY <1>2, <5>2, <5>4
        <4>3. CASE CancelAndRearm
          <5>1. plan' = [plan EXCEPT !.cancels = CancelIntents(working)] /\ PlanOK(plan)
            BY <4>3 DEF CancelAndRearm, IInv, TypeOK, TickTypeOK
          <5>2. plan'.dispatch = plan.dispatch
            BY <5>1 DEF PlanOK
          <5> QED
            BY <4>1, <5>2
        <4> QED
          BY <1>4, <4>1, <4>2, <4>3, TickStepsShape DEF PlainStep, HeadConsumed, ReleaseStep
      <3> QED
        BY <3>1, <3>2
    <2> QED
      BY <1>1, <1>2, <2>1, <2>3, <2>4 DEF LedgerInv, storeVars
  <1>5. CASE Apply
    <2>1. /\ DOMAIN dispatch' = DOMAIN dispatch \cup plan.dispatch
          /\ \A a \in DOMAIN dispatch : dispatch'[a] = dispatch[a]
          /\ runner' = runner
      BY <1>5, AppliedIntents
    <2>2. stages' = working' /\ plan'.dispatch = {}
      BY <1>5 DEF Apply, EmptyPlan
    <2>3. \A t \in Stages : Onward(working[t], working'[t])
      BY <1>5, TickOnward DEF TickSteps
    <2>4. ASSUME NEW a \in AttemptType, NotAfter(a, working[a[1]])
          PROVE  NotAfter(a, working'[a[1]]) /\ NotAfter(a, stages'[a[1]])
      BY <1>1, <2>2, <2>3, <2>4, StillNotAfter
    <2> QED
      BY <1>1, <1>2, <2>1, <2>2, <2>4 DEF LedgerInv
  <1> QED
    BY <1>3, <1>4, <1>5, OutsideLedger

LEMMA UncancelledKept ==
  IInv /\ ChargeInv /\ UncancelledInv /\ LedgerInv /\ [Next]_vars => UncancelledInv'
  <1> SUFFICES ASSUME IInv, ChargeInv, UncancelledInv, LedgerInv, [Next]_vars, Uncancelled
               PROVE  DOMAIN cancels' = {} /\ plan'.cancels = {} /\ ~cancelRequested' /\ ~overdue'
    BY DEF UncancelledInv
  <1>1. DOMAIN cancels = {} /\ plan.cancels = {} /\ ~cancelRequested /\ ~overdue /\ ~HasDeadline
        /\ MaxCancels = 0
    BY DEF UncancelledInv, Uncancelled
  <1>2. \A w : CancelIntents(w) = {}
    BY <1>1 DEF CancelIntents, Stopping
  <1>3. CASE OutsideStep
    <2>1. DOMAIN cancels' = {} /\ ~overdue'
      BY <1>1, <1>3 DEF OutsideStep
    <2>2. plan'.cancels = {} /\ ~cancelRequested'
      BY <1>1, <1>3, OutsideFrame
    <2> QED
      BY <2>1, <2>2
  <1>4. CASE Apply
    <2>1. cancels' = Merge(cancels, [a \in plan.cancels \cup CancelIntents(working) |-> "pending"])
          /\ plan' = EmptyPlan /\ cancelRequested' = FALSE /\ overdue' = overdue
      BY <1>4 DEF Apply, envVars
    <2>2. DOMAIN cancels' = {}
      BY <1>1, <1>2, <2>1 DEF Merge
    <2> QED
      BY <1>1, <2>1, <2>2 DEF EmptyPlan
  <1>5. CASE CancelAndRearm
    <2>1. plan' = [plan EXCEPT !.cancels = CancelIntents(working)] /\ PlanOK(plan)
          /\ UNCHANGED <<storeVars, envVars, cancelRequested>>
      BY <1>5 DEF CancelAndRearm, IInv, TypeOK, TickTypeOK
    <2>2. plan'.cancels = {}
      BY <1>2, <2>1 DEF PlanOK
    <2> QED
      BY <1>1, <2>1, <2>2 DEF storeVars, envVars
  <1>6. CASE batch # <<>> /\ UNCHANGED <<storeVars, envVars>> /\ plan'.cancels = plan.cancels
             /\ (cancelRequested' = cancelRequested \/ Head(batch).kind = "cancel_requested")
    <2>1. Reportable(Head(batch))
      BY <1>6, TailReportable DEF ChargeInv, IInv, TypeOK, TickTypeOK
    <2> QED
      BY <1>1, <1>6, <2>1 DEF Reportable, storeVars, envVars
  <1>7. CASE UNCHANGED <<storeVars, envVars, cancelRequested>> /\ plan'.cancels = plan.cancels
    BY <1>1, <1>7 DEF storeVars, envVars
  <1>8. TickSteps => Apply \/ CancelAndRearm
           \/ (batch # <<>> /\ UNCHANGED <<storeVars, envVars>> /\ plan'.cancels = plan.cancels
                /\ (cancelRequested' = cancelRequested \/ Head(batch).kind = "cancel_requested"))
           \/ (UNCHANGED <<storeVars, envVars, cancelRequested>> /\ plan'.cancels = plan.cancels)
    BY TickStepsShape DEF PlainStep, HeadConsumed, ReleaseStep, QueueStep
  <1> QED
    BY <1>3, <1>4, <1>5, <1>6, <1>7, <1>8, OutsideLedger DEF ChargeInv

LEMMA LedgerInvariance == Spec => [](UncancelledInv /\ LedgerInv)
  <1>1. Init => UncancelledInv /\ LedgerInv
    BY DEF Init, UncancelledInv, LedgerInv, EmptyPlan
  <1> QED
    BY <1>1, LedgerKept, UncancelledKept, Invariance, ChargeInvariance, PTL DEF Spec, ChargeInv

-----------------------------------------------------------------------------
(* The queue of observations: what it still holds for the stages.            *)

(* What the queue needs to know of the ledger. *)
Ledger ==
  [known |-> DOMAIN dispatch,
   pending |-> {a \in DOMAIN dispatch : Pending(a)},
   final |-> {a \in DOMAIN dispatch : Final(a)},
   live |-> {a \in DOMAIN runner : a[1] \notin Operation /\ runner[a] \in LivePhases}]

(* A report of an attempt is about one that is still pending, or its outcome  *)
(* follows; the outcome of an attempt is one of a dispatched attempt.        *)
Followed(l, q) ==
  \A i \in DOMAIN q :
    /\ q[i].kind \in Settling \cup Reporting => q[i].attempt # None /\ Named(q[i]) \in l.known
    /\ q[i].kind \in Reporting =>
         \/ Named(q[i]) \in l.pending
         \/ \E j \in DOMAIN q : j > i /\ q[j].kind \in Settling /\ Named(q[j]) = Named(q[i])
    /\ q[i].kind = "attempt_succeeded" => Named(q[i]) \in l.final

(* A stage in state "succeeded" got there by an attempt that did. *)
Won(l, s, st) == st.state = "succeeded" => Current(s, st) \in l.final

(* The stage of an attempt that has started hears of it. *)
StartHeard(l, w, q) ==
  \A a \in l.live :
    w[a[1]].state = "queued" /\ Current(a[1], w[a[1]]) = a =>
      \E i \in DOMAIN q : q[i].kind = "attempt_started" /\ Named(q[i]) = a

(* The queue holds an outcome that will move the stage when it is read. *)
WillSettle(s, st, q) ==
  \E i \in DOMAIN q :
    /\ q[i].kind \in Settling /\ Named(q[i]) = Current(s, st)
    /\ \/ q[i].kind = "cancellation_settled" \/ st.state # "queued"
       \/ \E j \in DOMAIN q : j < i /\ q[j].kind = "attempt_started" /\ Named(q[j]) = Current(s, st)

Driven(l, s, st, q, planned) ==
  st.state \in InFlightStates =>
    \/ Current(s, st) \in l.pending \cup planned
    \/ st.proposal # None
    \/ WillSettle(s, st, q)

World(l, w, q, planned) ==
  /\ Followed(l, q)
  /\ \A s \in Stages : Won(l, s, w[s])
  /\ StartHeard(l, w, q)
  /\ \A s \in Stages \ Operation : Driven(l, s, w[s], q, planned)

QueuesInv ==
  /\ World(Ledger, stages, observations, {})
  /\ phase # "idle" => World(Ledger, working, batch, plan.dispatch)
  /\ phase = "release" => batch = <<>>

(* How the ledger moves from l to m in a step that records `os'. *)
Moves(l, m, os) ==
  /\ m.known = l.known /\ l.final \subseteq m.final
  /\ \A a \in m.live :
       a \in l.live \/ \E o \in os : o.kind = "attempt_started" /\ Named(o) = a
  /\ \A a \in l.pending :
       \/ a \in m.pending
       \/ (a[1] \in Operation \/ a \in l.live) /\ \E o \in os : o.kind \in Settling /\ Named(o) = a
  /\ \A o \in os :
       /\ o.kind \in Settling \cup Reporting => o.attempt # None /\ Named(o) \in m.known
       /\ o.kind \in Reporting => Named(o) \in m.pending
       /\ o.kind = "attempt_succeeded" => Named(o) \in m.final

LEMMA LedgerMoves ==
  ASSUME NEW os, LedgerStep(os)
  PROVE  Moves(Ledger, Ledger', os)
  <1> DEFINE l == Ledger
             m == Ledger'
  <1>1. /\ l.known = DOMAIN dispatch /\ m.known = DOMAIN dispatch'
        /\ l.pending = {a \in DOMAIN dispatch : Pending(a)}
        /\ m.pending = {a \in DOMAIN dispatch' : Pending(a)'}
        /\ l.final = {a \in DOMAIN dispatch : Final(a)}
        /\ m.final = {a \in DOMAIN dispatch' : Final(a)'}
        /\ l.live = {a \in DOMAIN runner : a[1] \notin Operation /\ runner[a] \in LivePhases}
        /\ m.live = {a \in DOMAIN runner' : a[1] \notin Operation /\ runner'[a] \in LivePhases}
    BY DEF Ledger
  <1> HIDE DEF l, m
  <1>2. DOMAIN dispatch' = DOMAIN dispatch
    BY DEF LedgerStep
  <1>3. l.final \subseteq m.final
    BY <1>1, <1>2 DEF LedgerStep
  <1>4. \A a \in m.live :
          a \in l.live \/ \E o \in os : o.kind = "attempt_started" /\ Named(o) = a
    BY <1>1 DEF LedgerStep
  <1>5. \A a \in l.pending :
          \/ a \in m.pending
          \/ (a[1] \in Operation \/ a \in l.live) /\ \E o \in os : o.kind \in Settling /\ Named(o) = a
    BY <1>1, <1>2 DEF LedgerStep
  <1>6. ASSUME NEW o \in os
        PROVE  /\ o.kind \in Settling \cup Reporting => o.attempt # None /\ Named(o) \in m.known
               /\ o.kind \in Reporting => Named(o) \in m.pending
               /\ o.kind = "attempt_succeeded" => Named(o) \in m.final
    <2>1. Truthful(o)'
      BY DEF LedgerStep
    <2> QED
      BY <1>1, <2>1 DEF Truthful, Pending, Final, Named
  <1> QED
    BY <1>1, <1>2, <1>3, <1>4, <1>5, <1>6 DEF Moves, l, m

LEMMA AppendIndex ==
  ASSUME NEW q \in Seq(ObservationType), NEW o \in ObservationType
  PROVE  LET r == Append(q, o) IN
         /\ DOMAIN r = DOMAIN q \cup {Len(q) + 1} /\ r[Len(q) + 1] = o
         /\ \A i \in DOMAIN q : r[i] = q[i] /\ i < Len(q) + 1 /\ i \in Nat
  OBVIOUS

LEMMA TailIndex ==
  ASSUME NEW q \in Seq(ObservationType), q # <<>>
  PROVE  /\ Head(q) = q[1] /\ 1 \in DOMAIN q
         /\ \A i \in DOMAIN Tail(q) : i \in Nat /\ i + 1 \in DOMAIN q /\ Tail(q)[i] = q[i + 1]
         /\ \A i \in DOMAIN q : i \in Nat /\ (i = 1 \/ (i > 1 /\ i - 1 \in DOMAIN Tail(q) /\ Tail(q)[i - 1] = q[i]))
  OBVIOUS

(* The world after a step that records one observation. *)
LEMMA RecordedWorld ==
  ASSUME NEW l, NEW m, NEW w, NEW q \in Seq(ObservationType), NEW o \in ObservationType,
         World(l, w, q, {}), Moves(l, m, {o}), \A a \in l.live : a[1] \in Stages
  PROVE  World(m, w, Append(q, o), {})
  <1> DEFINE r == Append(q, o)
             k == Len(q) + 1
  <1>1. /\ DOMAIN r = DOMAIN q \cup {k} /\ r[k] = o
        /\ \A i \in DOMAIN q : r[i] = q[i] /\ i < k
    BY AppendIndex
  <1> HIDE DEF r, k
  <1>2. Followed(m, r)
    <2> SUFFICES ASSUME NEW i \in DOMAIN r
                 PROVE  /\ r[i].kind \in Settling \cup Reporting => r[i].attempt # None /\ Named(r[i]) \in m.known
                        /\ r[i].kind \in Reporting =>
                             \/ Named(r[i]) \in m.pending
                             \/ \E j \in DOMAIN r : j > i /\ r[j].kind \in Settling /\ Named(r[j]) = Named(r[i])
                        /\ r[i].kind = "attempt_succeeded" => Named(r[i]) \in m.final
      BY DEF Followed
    <2>1. CASE i = k
      BY <1>1, <2>1 DEF Moves
    <2>2. CASE i \in DOMAIN q
      <3>1. r[i] = q[i] /\ k > i
        BY <1>1, <2>2, AppendIndex DEF k
      <3>2. /\ q[i].kind \in Settling \cup Reporting => q[i].attempt # None /\ Named(q[i]) \in l.known
            /\ q[i].kind \in Reporting =>
                             \/ Named(q[i]) \in l.pending
                             \/ \E j \in DOMAIN q : j > i /\ q[j].kind \in Settling /\ Named(q[j]) = Named(q[i])
            /\ q[i].kind = "attempt_succeeded" => Named(q[i]) \in l.final
        BY <2>2 DEF World, Followed
      <3>3. \A j \in DOMAIN q : j \in DOMAIN r /\ r[j] = q[j]
        BY <1>1
      <3>4. Named(q[i]) \in l.pending =>
              Named(q[i]) \in m.pending \/ (o.kind \in Settling /\ Named(o) = Named(q[i]))
        BY DEF Moves
      <3>5. m.known = l.known /\ l.final \subseteq m.final
        BY DEF Moves
      <3>6. o.kind \in Settling /\ Named(o) = Named(q[i]) =>
              \E j \in DOMAIN r : j > i /\ r[j].kind \in Settling /\ Named(r[j]) = Named(r[i])
        BY <1>1, <3>1
      <3>7. q[i].kind \in Reporting => 
                 \/ Named(q[i]) \in m.pending
                 \/ \E j \in DOMAIN r : j > i /\ r[j].kind \in Settling /\ Named(r[j]) = Named(q[i])
        BY <3>1, <3>2, <3>3, <3>4, <3>6
      <3> QED
        BY <3>1, <3>2, <3>5, <3>7
    <2> QED
      BY <1>1, <2>1, <2>2
  <1>3. \A s \in Stages : Won(m, s, w[s])
    BY DEF World, Won, Moves
  <1>4. StartHeard(m, w, r)
    <2> SUFFICES ASSUME NEW a \in m.live, w[a[1]].state = "queued", Current(a[1], w[a[1]]) = a
                 PROVE  \E i \in DOMAIN r : r[i].kind = "attempt_started" /\ Named(r[i]) = a
      BY DEF StartHeard
    <2>1. a \in l.live \/ (o.kind = "attempt_started" /\ Named(o) = a)
      BY DEF Moves
    <2>2. CASE a \in l.live
      BY <1>1, <2>2 DEF World, StartHeard
    <2> QED
      BY <1>1, <2>1, <2>2
  <1>5. ASSUME NEW s \in Stages \ Operation, w[s].state \in InFlightStates, w[s].proposal = None,
               Current(s, w[s]) \notin m.pending
        PROVE  WillSettle(s, w[s], r)
    <2> DEFINE a == Current(s, w[s])
    <2>1. a[1] = s
      BY DEF Current
    <2>2. a \in l.pending \/ WillSettle(s, w[s], q)
      BY <1>5 DEF World, Driven
    <2>3. CASE a \in l.pending
      <3>1. a \in l.live /\ o.kind \in Settling /\ Named(o) = a
        BY <1>5, <2>1, <2>3 DEF Moves
      <3>2. w[s].state = "queued" => \E j \in DOMAIN q : q[j].kind = "attempt_started" /\ Named(q[j]) = a
        BY <1>5, <2>1, <3>1 DEF World, StartHeard
      <3>3. w[s].state = "queued" =>
              \E j \in DOMAIN r : j < k /\ r[j].kind = "attempt_started" /\ Named(r[j]) = a
        BY <1>1, <3>2
      <3>4. k \in DOMAIN r /\ r[k] = o
        BY <1>1
      <3> QED
        BY <3>1, <3>3, <3>4 DEF WillSettle
    <2>4. CASE WillSettle(s, w[s], q)
      <3>1. PICK i \in DOMAIN q :
              /\ q[i].kind \in Settling /\ Named(q[i]) = a
              /\ \/ q[i].kind = "cancellation_settled" \/ w[s].state # "queued"
                 \/ \E j \in DOMAIN q : j < i /\ q[j].kind = "attempt_started" /\ Named(q[j]) = a
        BY <2>4 DEF WillSettle
      <3>2. \A j \in DOMAIN q : j \in DOMAIN r /\ r[j] = q[j]
        BY <1>1
      <3> QED
        BY <3>1, <3>2 DEF WillSettle
    <2> QED
      BY <2>2, <2>3, <2>4
  <1>6. \A s \in Stages \ Operation : Driven(m, s, w[s], r, {})
    BY <1>5 DEF Driven
  <1> QED
    BY <1>2, <1>3, <1>4, <1>6 DEF World, r

(* The world after a step that records nothing. *)
LEMMA QuietWorld ==
  ASSUME NEW l, NEW m, NEW w, NEW q, NEW p, World(l, w, q, p), Moves(l, m, {})
  PROVE  World(m, w, q, p)
  <1>1. /\ m.known = l.known /\ l.final \subseteq m.final /\ l.pending \subseteq m.pending
        /\ m.live \subseteq l.live
    BY DEF Moves
  <1>2. Followed(m, q)
    BY <1>1 DEF World, Followed
  <1>3. \A s \in Stages : Won(m, s, w[s])
    BY <1>1 DEF World, Won
  <1>4. StartHeard(m, w, q)
    BY <1>1 DEF World, StartHeard
  <1>5. \A s \in Stages \ Operation : Driven(m, s, w[s], q, p)
    BY <1>1 DEF World, Driven
  <1> QED
    BY <1>2, <1>3, <1>4, <1>5 DEF World

(* Stages that leave the race need nothing from the queue. *)
LEMMA RestedWorld ==
  ASSUME NEW l, NEW w, NEW n, NEW q, NEW p, World(l, w, q, p), \A a \in l.live : a[1] \in Stages,
         \A s \in Stages : n[s] = w[s] \/ n[s].state \notin InFlightStates \cup {"succeeded"}
  PROVE  World(l, n, q, p)
  <1>1. Followed(l, q)
    BY DEF World
  <1>2. \A s \in Stages : Won(l, s, n[s])
    BY DEF World, Won
  <1>3. StartHeard(l, n, q)
    BY DEF World, StartHeard, InFlightStates
  <1>4. \A s \in Stages \ Operation : Driven(l, s, n[s], q, p)
    BY DEF World, Driven
  <1> QED
    BY <1>1, <1>2, <1>3, <1>4 DEF World

LEMMA FollowedTail ==
  ASSUME NEW l, NEW q \in Seq(ObservationType), q # <<>>, Followed(l, q)
  PROVE  Followed(l, Tail(q))
  <1> DEFINE r == Tail(q)
  <1> SUFFICES ASSUME NEW i \in DOMAIN r
               PROVE  /\ r[i].kind \in Settling \cup Reporting => r[i].attempt # None /\ Named(r[i]) \in l.known
                      /\ r[i].kind \in Reporting =>
                           \/ Named(r[i]) \in l.pending
                           \/ \E j \in DOMAIN r : j > i /\ r[j].kind \in Settling /\ Named(r[j]) = Named(r[i])
                      /\ r[i].kind = "attempt_succeeded" => Named(r[i]) \in l.final
    BY DEF Followed
  <1>1. i \in Nat /\ i + 1 \in DOMAIN q /\ r[i] = q[i + 1]
    BY TailIndex
  <1>2. \A j \in DOMAIN q : j > i + 1 => j - 1 \in DOMAIN r /\ r[j - 1] = q[j] /\ j - 1 > i
    BY <1>1, TailIndex
  <1> DEFINE o == q[i + 1]
  <1>3. /\ o.kind \in Settling \cup Reporting => o.attempt # None /\ Named(o) \in l.known
        /\ o.kind \in Reporting =>
             \/ Named(o) \in l.pending
             \/ \E j \in DOMAIN q : j > i + 1 /\ q[j].kind \in Settling /\ Named(q[j]) = Named(o)
        /\ o.kind = "attempt_succeeded" => Named(o) \in l.final
    BY <1>1 DEF Followed
  <1> HIDE DEF r, o
  <1>4. \A j \in DOMAIN q : j > i + 1 /\ q[j].kind \in Settling /\ Named(q[j]) = Named(o) =>
          \E h \in DOMAIN r : h > i /\ r[h].kind \in Settling /\ Named(r[h]) = Named(o)
    BY <1>2
  <1>5. r[i] = o
    BY <1>1 DEF o
  <1> QED
    BY <1>3, <1>4, <1>5

(* An outcome that is not the head stays in the queue; a start that was the   *)
(* head has been heard.                                                      *)
LEMMA SettleTail ==
  ASSUME NEW q \in Seq(ObservationType), q # <<>>, NEW s, NEW st, NEW n,
         WillSettle(s, st, q), Current(s, n) = Current(s, st),
         n.state = "queued" =>
           st.state = "queued" /\ ~(Head(q).kind = "attempt_started" /\ Named(Head(q)) = Current(s, st)),
         Head(q).kind \in Settling /\ Named(Head(q)) = Current(s, st) =>
           Head(q).kind # "cancellation_settled" /\ st.state = "queued"
  PROVE  WillSettle(s, n, Tail(q))
  <1> DEFINE r == Tail(q)
             a == Current(s, st)
  <1>1. PICK i \in DOMAIN q :
          /\ q[i].kind \in Settling /\ Named(q[i]) = a
          /\ \/ q[i].kind = "cancellation_settled" \/ st.state # "queued"
             \/ \E j \in DOMAIN q : j < i /\ q[j].kind = "attempt_started" /\ Named(q[j]) = a
    BY DEF WillSettle
  <1>2. Head(q) = q[1] /\ \A j \in DOMAIN q : j \in Nat /\ j >= 1
    BY TailIndex
  <1>3. \A j \in DOMAIN q : j # 1 => j - 1 \in DOMAIN r /\ r[j - 1] = q[j]
    BY TailIndex
  <1>4. i # 1
    <2>1. ASSUME i = 1, NEW j \in DOMAIN q, j < i PROVE FALSE
      BY <1>2, <2>1
    <2> QED
      BY <1>1, <1>2, <2>1
  <1> HIDE DEF r, a
  <1>5. i - 1 \in DOMAIN r /\ r[i - 1] = q[i]
    BY <1>3, <1>4
  <1>6. n.state = "queued" /\ q[i].kind # "cancellation_settled" =>
          \E h \in DOMAIN r : h < i - 1 /\ r[h].kind = "attempt_started" /\ Named(r[h]) = a
    <2> SUFFICES ASSUME n.state = "queued", q[i].kind # "cancellation_settled"
                 PROVE  \E h \in DOMAIN r : h < i - 1 /\ r[h].kind = "attempt_started" /\ Named(r[h]) = a
      OBVIOUS
    <2>1. PICK j \in DOMAIN q : j < i /\ q[j].kind = "attempt_started" /\ Named(q[j]) = a
      BY <1>1
    <2>2. j # 1
      BY <1>2, <2>1 DEF a
    <2>3. j - 1 \in DOMAIN r /\ r[j - 1] = q[j] /\ j - 1 < i - 1
      BY <1>2, <1>3, <2>1, <2>2
    <2> QED
      BY <2>1, <2>3
  <1>7. Current(s, n) = a
    BY DEF a
  <1> QED
    BY <1>1, <1>5, <1>6, <1>7 DEF WillSettle, r

(* An observation that is not of an attempt is read. *)
LEMMA SkippedWorld ==
  ASSUME NEW l, NEW w, NEW q \in Seq(ObservationType), NEW p, q # <<>>, World(l, w, q, p),
         Head(q).kind \notin Settling \cup Reporting
  PROVE  World(l, w, Tail(q), p)
  <1>1. Followed(l, Tail(q))
    BY FollowedTail DEF World
  <1>2. \A s \in Stages : Won(l, s, w[s])
    BY DEF World
  <1>3. Head(q).kind # "attempt_started" /\ Head(q).kind \notin Settling
    BY DEF Reporting
  <1>4. StartHeard(l, w, Tail(q))
    <2> SUFFICES ASSUME NEW a \in l.live, w[a[1]].state = "queued", Current(a[1], w[a[1]]) = a
                 PROVE  \E i \in DOMAIN Tail(q) : Tail(q)[i].kind = "attempt_started" /\ Named(Tail(q)[i]) = a
      BY DEF StartHeard
    <2>1. PICK i \in DOMAIN q : q[i].kind = "attempt_started" /\ Named(q[i]) = a
      BY DEF World, StartHeard
    <2>2. i - 1 \in DOMAIN Tail(q) /\ Tail(q)[i - 1] = q[i]
      BY <1>3, <2>1, TailIndex
    <2> QED
      BY <2>1, <2>2
  <1>5. ASSUME NEW s \in Stages \ Operation PROVE Driven(l, s, w[s], Tail(q), p)
    <2>1. WillSettle(s, w[s], q) => WillSettle(s, w[s], Tail(q))
      BY <1>3, SettleTail
    <2> QED
      BY <2>1 DEF World, Driven
  <1> QED
    BY <1>1, <1>2, <1>4, <1>5 DEF World

LEMMA ConsumedSuccess ==
  ASSUME NEW l, NEW q \in Seq(ObservationType), q # <<>>, Followed(l, q), NEW s, NEW w, NEW n,
         Head(q).stage = s, Consumed(s, Head(q), w, n), Won(l, s, w)
  PROVE  Won(l, s, n)
  <1> SUFFICES ASSUME n.state = "succeeded" PROVE Current(s, n) \in l.final
    BY DEF Won
  <1>1. CASE n = w
    BY <1>1 DEF Won
  <1>2. CASE n # w
    <2>1. AttemptShape(s, Head(q), w, n) /\ Head(q).kind = "attempt_succeeded"
      BY <1>2 DEF Consumed, AttemptShape, FailureShape, AnswerShape
    <2>2. /\ Head(q).kind \in Settling \cup Reporting => Head(q).attempt # None
          /\ Head(q).kind = "attempt_succeeded" => Named(Head(q)) \in l.final
      BY TailIndex DEF Followed
    <2>3. n.attempt = Head(q).attempt
      BY <2>1, <2>2 DEF AttemptShape, Settling
    <2> QED
      BY <2>1, <2>2, <2>3 DEF Named, Current
  <1> QED
    BY <1>1, <1>2

LEMMA ConsumedStart ==
  ASSUME NEW o, NEW s, NEW w, NEW n, Consumed(s, o, w, n), n.state = "queued"
  PROVE  o.kind # "attempt_started"
  BY DEF Consumed, Ignored, AttemptShape, AnswerShape, FailureShape

LEMMA ConsumedDriven ==
  ASSUME NEW l, NEW q \in Seq(ObservationType), q # <<>>, Followed(l, q), NEW s,
         NEW w \in StageType, NEW n \in StageType, NEW p, w.generation > 0,
         Head(q).stage = s, Consumed(s, Head(q), w, n), Driven(l, s, w, q, p)
  PROVE  Driven(l, s, n, Tail(q), p)
  <1> DEFINE o == Head(q)
  <1> SUFFICES ASSUME n.state \in InFlightStates, Current(s, n) \notin l.pending \cup p, n.proposal = None
               PROVE  WillSettle(s, n, Tail(q))
    BY DEF Driven
  <1>1. CASE n = w /\ Ignored(o, w)
    <2>1. WillSettle(s, w, q)
      BY <1>1 DEF Driven
    <2>2. o.kind # "cancellation_settled"
      BY <1>1 DEF Ignored
    <2>3. o.kind \in Settling => w.state = "queued"
      BY <1>1, <2>2 DEF Ignored, Settling, InFlightStates
    <2>4. n.state = "queued" => w.state = "queued" /\ o.kind # "attempt_started"
      BY <1>1 DEF Ignored
    <2> HIDE DEF o
    <2> QED
      BY <1>1, <2>1, <2>2, <2>3, <2>4, SettleTail DEF o
  <1>2. CASE AttemptShape(s, o, w, n) /\ o.kind \in Reporting
    <2>1. 1 \in DOMAIN q /\ q[1] = o
      BY TailIndex
    <2>2. /\ o.attempt # None
          /\ \/ Named(o) \in l.pending
             \/ \E j \in DOMAIN q : j > 1 /\ q[j].kind \in Settling /\ Named(q[j]) = Named(o)
      <3> HIDE DEF o
      <3> QED
        BY <1>2, <2>1 DEF Followed
    <2>3. n.attempt = o.attempt /\ n.state # "queued"
      BY <1>2, <2>2 DEF AttemptShape, FailureShape
    <2>4. Current(s, n) = Named(o)
      BY <2>3 DEF Named, Current
    <2>5. PICK j \in DOMAIN q : j > 1 /\ q[j].kind \in Settling /\ Named(q[j]) = Named(o)
      BY <2>2, <2>4
    <2>6. j - 1 \in DOMAIN Tail(q) /\ Tail(q)[j - 1] = q[j]
      BY <2>5, TailIndex
    <2> QED
      BY <2>3, <2>4, <2>5, <2>6 DEF WillSettle
  <1>3. CASE AttemptShape(s, o, w, n) /\ o.kind \notin Reporting
    <2>1. o.kind = "attempt_failed" /\ FailureShape(s, o.failure, w, n)
      BY <1>3 DEF AttemptShape, Reporting, InFlightStates
    <2>2. n.state = "waiting"
      BY <2>1 DEF FailureShape, InFlightStates
    <2>3. n.proposal = <<w.generation, w.ordinal>>
      BY <2>1, <2>2 DEF FailureShape
    <2> QED
      BY <2>3 DEF None
  <1>4. CASE AnswerShape(o, w, n)
    BY <1>4 DEF AnswerShape, InFlightStates
  <1> QED
    BY <1>1, <1>2, <1>3, <1>4 DEF Consumed

(* The head of the queue moves its stage. *)
LEMMA ConsumedWorld ==
  ASSUME NEW l, NEW w \in [Stages -> StageType], NEW n \in [Stages -> StageType],
         NEW q \in Seq(ObservationType), NEW p, q # <<>>, World(l, w, q, p),
         NEW s \in Stages, s = Head(q).stage, Consumed(s, Head(q), w[s], n[s]),
         \A t \in Stages : t # s => n[t] = w[t],
         w[s].generation > 0, \A a \in l.live : a[1] \in Stages
  PROVE  World(l, n, Tail(q), p)
  <1>1. Followed(l, q) /\ Followed(l, Tail(q))
    BY FollowedTail DEF World
  <1>2. ASSUME NEW t \in Stages PROVE Won(l, t, n[t])
    BY <1>1, ConsumedSuccess DEF World
  <1>3. StartHeard(l, n, Tail(q))
    <2> SUFFICES ASSUME NEW a \in l.live, n[a[1]].state = "queued", Current(a[1], n[a[1]]) = a
                 PROVE  \E i \in DOMAIN Tail(q) : Tail(q)[i].kind = "attempt_started" /\ Named(Tail(q)[i]) = a
      BY DEF StartHeard
    <2> DEFINE t == a[1]
    <2>1. t \in Stages /\ n[t] = w[t]
      BY DEF Consumed, AttemptShape, AnswerShape, FailureShape
    <2>2. PICK i \in DOMAIN q : q[i].kind = "attempt_started" /\ Named(q[i]) = a
      BY <2>1 DEF World, StartHeard
    <2>3. i # 1
      <3> SUFFICES ASSUME i = 1 PROVE FALSE
        OBVIOUS
      <3>1. Head(q) = q[i]
        BY TailIndex
      <3>2. t = s
        BY <2>2, <3>1 DEF Named
      <3>3. Head(q).kind # "attempt_started"
        BY <3>2, ConsumedStart
      <3> QED
        BY <2>2, <3>1, <3>3
    <2>4. i - 1 \in DOMAIN Tail(q) /\ Tail(q)[i - 1] = q[i]
      BY <2>3, TailIndex
    <2> QED
      BY <2>2, <2>4
  <1>4. ASSUME NEW t \in Stages \ Operation PROVE Driven(l, t, n[t], Tail(q), p)
    <2>1. Driven(l, t, w[t], q, p)
      BY DEF World
    <2>2. CASE t = s
      <3>1. w[s] \in StageType /\ n[s] \in StageType
        OBVIOUS
      <3> QED
        BY <1>1, <2>1, <2>2, <3>1, ConsumedDriven
    <2>3. CASE t # s
      <3>1. n[t] = w[t] /\ Named(Head(q)) # Current(t, w[t])
        BY <2>3 DEF Named, Current
      <3>2. WillSettle(t, w[t], q) => WillSettle(t, n[t], Tail(q))
        BY <3>1, SettleTail
      <3> QED
        BY <2>1, <3>1, <3>2 DEF Driven
    <2> QED
      BY <2>2, <2>3
  <1> QED
    BY <1>1, <1>2, <1>3, <1>4 DEF World

(* A stage is dispatched. *)
LEMMA QueuedWorld ==
  ASSUME NEW l, NEW w \in [Stages -> StageType], NEW n \in [Stages -> StageType], NEW q, NEW p,
         World(l, w, q, p), NEW s \in Stages, Queued(w[s], n[s]),
         \A t \in Stages : t # s => n[t] = w[t],
         \A a \in l.live : a[1] \in Stages /\ NotAfter(a, w[a[1]])
  PROVE  World(l, n, q, p \cup {<<s, w[s].generation, w[s].ordinal + 1>>})
  <1> DEFINE a == <<s, w[s].generation, w[s].ordinal + 1>>
  <1>1. Current(s, n[s]) = a /\ n[s].state = "queued"
    BY DEF Queued, Current
  <1>2. w[s].ordinal \in Nat /\ w[s].generation \in Nat
    BY DEF StageType
  <1>3. ~NotAfter(a, w[s])
    BY <1>2 DEF NotAfter
  <1>4. a[1] = s
    OBVIOUS
  <1> HIDE DEF a
  <1>5. \A t \in Stages : Won(l, t, n[t])
    BY <1>1 DEF World, Won
  <1>6. StartHeard(l, n, q)
    <2> SUFFICES ASSUME NEW b \in l.live, n[b[1]].state = "queued", Current(b[1], n[b[1]]) = b
                 PROVE  \E i \in DOMAIN q : q[i].kind = "attempt_started" /\ Named(q[i]) = b
      BY DEF StartHeard
    <2>1. b[1] # s
      <3> SUFFICES ASSUME b[1] = s PROVE FALSE
        OBVIOUS
      <3>1. b = a
        BY <1>1
      <3> QED
        BY <1>3, <3>1, <1>4
    <2>2. n[b[1]] = w[b[1]]
      BY <2>1
    <2> QED
      BY <2>2 DEF World, StartHeard
  <1>7. ASSUME NEW t \in Stages \ Operation PROVE Driven(l, t, n[t], q, p \cup {a})
    <2>1. CASE t = s
      BY <1>1, <2>1 DEF Driven
    <2>2. CASE t # s
      BY <2>2 DEF World, Driven
    <2> QED
      BY <2>1, <2>2
  <1> QED
    BY <1>5, <1>6, <1>7 DEF World, a

(* The plan becomes the ledger's. *)
LEMMA AppliedWorld ==
  ASSUME NEW l, NEW m, NEW w, NEW p, World(l, w, <<>>, p),
         l.final \subseteq m.final, m.live = l.live, l.pending \cup p \subseteq m.pending
  PROVE  World(m, w, <<>>, {})
  <1>1. Followed(m, <<>>)
    BY DEF Followed
  <1>2. \A s \in Stages : Won(m, s, w[s])
    BY DEF World, Won
  <1>3. StartHeard(m, w, <<>>)
    BY DEF World, StartHeard
  <1>4. \A s \in Stages \ Operation : Driven(m, s, w[s], <<>>, {})
    BY DEF World, Driven, WillSettle
  <1> QED
    BY <1>1, <1>2, <1>3, <1>4 DEF World

LEMMA LiveTyped ==
  ASSUME IInv, LedgerInv
  PROVE  \A a \in Ledger.live : a[1] \in Stages /\ NotAfter(a, working[a[1]])
  BY LedgerFacts DEF Ledger, LedgerInv, AttemptType

LEMMA QueuesKept ==
  IInv /\ IInv' /\ ChargeInv /\ UncancelledInv /\ LedgerInv /\ IdleCopy /\ QueuesInv /\ [Next]_vars
    => QueuesInv'
  <1> SUFFICES ASSUME IInv, IInv', ChargeInv, UncancelledInv, LedgerInv, IdleCopy, QueuesInv, [Next]_vars
               PROVE  QueuesInv'
    OBVIOUS
  <1>1. /\ working \in [Stages -> StageType] /\ working' \in [Stages -> StageType]
        /\ observations \in Seq(ObservationType) /\ batch \in Seq(ObservationType)
    BY DEF IInv, TypeOK, StoreTypeOK, TickTypeOK
  <1>2. /\ World(Ledger, stages, observations, {})
        /\ phase # "idle" => World(Ledger, working, batch, plan.dispatch)
        /\ phase = "release" => batch = <<>>
    BY DEF QueuesInv
  <1>3. \A a \in Ledger.live : a[1] \in Stages /\ NotAfter(a, working[a[1]])
    BY LiveTyped
  <1> HIDE DEF Ledger
  <1>4. CASE OutsideStep
    <2>1. CASE Quiet /\ LedgerStep({})
      <3>1. Moves(Ledger, Ledger', {})
        BY <2>1, LedgerMoves
      <3>2. stages' = stages /\ observations' = observations
        BY <2>1 DEF Quiet
      <3>3. World(Ledger', stages', observations', {})
        BY <1>2, <3>1, <3>2, QuietWorld
      <3>4. phase # "idle" => World(Ledger', working, batch, plan.dispatch)
        BY <1>2, <3>1, QuietWorld
      <3>5. phase' # "idle" => World(Ledger', working', batch', plan'.dispatch)
        BY <1>4, <3>2, <3>3, <3>4, OutsideFrame
      <3>6. phase' = "release" => batch' = <<>>
        BY <1>2, <1>4, OutsideFrame
      <3> QED
        BY <3>3, <3>5, <3>6 DEF QueuesInv
    <2>2. CASE phase = "idle" /\ \E o \in ObservationType : Reportable(o) /\ Noted(o) /\ LedgerStep({o})
      <3>1. PICK o \in ObservationType : Noted(o) /\ LedgerStep({o})
        BY <2>2
      <3>2. Moves(Ledger, Ledger', {o})
        BY <3>1, LedgerMoves
      <3>3. stages' = stages /\ observations' = Append(observations, o)
        BY <3>1 DEF Noted
      <3>4. World(Ledger', stages', observations', {})
        BY <1>1, <1>2, <1>3, <3>2, <3>3, RecordedWorld
      <3>5. phase' # "idle" => World(Ledger', working', batch', plan'.dispatch)
        BY <1>4, <2>2, <3>3, <3>4, OutsideFrame
      <3>6. phase' = "release" => batch' = <<>>
        BY <1>4, <2>2, OutsideFrame
      <3> QED
        BY <3>4, <3>5, <3>6 DEF QueuesInv
    <2> QED
      BY <1>4, <2>1, <2>2 DEF OutsideStep
  <1>5. CASE Apply
    <2>1. /\ phase = "release" /\ working' = CancelInactive(working) /\ stages' = working'
          /\ observations' = <<>> /\ phase' = "idle"
      BY <1>5 DEF Apply
    <2>2. World(Ledger, working, <<>>, plan.dispatch)
      BY <1>2, <2>1
    <2>3. \A s \in Stages : working'[s] = working[s]
                          \/ working'[s].state \notin InFlightStates \cup {"succeeded"}
      BY <1>1, <2>1, SweepShape DEF Swept, InFlightStates
    <2>4. World(Ledger, working', <<>>, plan.dispatch)
      BY <1>3, <2>2, <2>3, RestedWorld
    <2>5. /\ DOMAIN dispatch' = DOMAIN dispatch \cup plan.dispatch
          /\ \A a \in DOMAIN dispatch : dispatch'[a] = dispatch[a]
          /\ \A a \in plan.dispatch \ DOMAIN dispatch : dispatch'[a] = "pending"
          /\ runner' = runner
      BY <1>5, AppliedIntents
    <2>6. \A a \in plan.dispatch : a \notin DOMAIN dispatch
      BY DEF LedgerInv
    <2>7. Ledger.final \subseteq Ledger'.final
      BY <2>5 DEF Ledger, Final
    <2>8. Ledger'.live = Ledger.live
      BY <2>5 DEF Ledger
    <2>9. Ledger.pending \cup plan.dispatch \subseteq Ledger'.pending
      BY <2>5, <2>6 DEF Ledger, Pending
    <2>10. World(Ledger', stages', observations', {})
      BY <2>1, <2>4, <2>7, <2>8, <2>9, AppliedWorld
    <2> QED
      BY <2>1, <2>10 DEF QueuesInv
  <1>6. CASE TickSteps /\ ~Apply
    <2>1. UNCHANGED <<storeVars, runner>> /\ phase # "idle"
      BY <1>6, TickStepsShape DEF PlainStep, HeadConsumed, CancelAndRearm, ReleaseStep, QueueStep
    <2>2. Ledger' = Ledger /\ stages' = stages /\ observations' = observations
      BY <2>1 DEF Ledger, Pending, Final, storeVars
    <2>3. World(Ledger, working, batch, plan.dispatch)
      BY <1>2, <2>1
    <2> SUFFICES World(Ledger, working', batch', plan'.dispatch) /\ (phase' = "release" => batch' = <<>>)
      BY <1>2, <2>2 DEF QueuesInv
    <2>4. CASE PlainStep
      <3> DEFINE o == Head(batch)
                 s == o.stage
      <3>1. /\ batch # <<>> /\ batch' = Tail(batch) /\ plan' = plan /\ phase' = "observe"
            /\ Consumed(s, o, working[s], working'[s])
            /\ \A t \in Stages : t # s => working'[t] = working[t]
        BY <2>4 DEF PlainStep, HeadConsumed
      <3>2. s \in Stages /\ working[s].generation > 0
        BY <3>1, BatchTyped DEF ChargeInv, Charged
      <3> HIDE DEF s, o
      <3>3. World(Ledger, working', Tail(batch), plan.dispatch)
        BY <1>1, <1>3, <2>3, <3>1, <3>2, ConsumedWorld DEF s, o
      <3> QED
        BY <3>1, <3>3
    <2>5. CASE ManualRerun
      <3>1. /\ batch # <<>> /\ batch' = Tail(batch) /\ plan' = plan /\ phase' = "observe"
            /\ Head(batch).kind = "manual_rerun"
        BY <2>5 DEF ManualRerun, Observed
      <3>2. \A t \in Stages : working'[t] = working[t]
                            \/ working'[t].state \notin InFlightStates \cup {"succeeded"}
        BY <2>5, RerunShape DEF Renewed, InFlightStates
      <3>3. World(Ledger, working, Tail(batch), plan.dispatch)
        BY <1>1, <2>3, <3>1, SkippedWorld DEF Settling, Reporting
      <3>4. World(Ledger, working', Tail(batch), plan.dispatch)
        BY <1>3, <3>2, <3>3, RestedWorld
      <3> QED
        BY <3>1, <3>4
    <2>6. CASE CancelObserved \/ EvaluatorDecided
      <3>1. /\ batch # <<>> /\ batch' = Tail(batch) /\ phase' = "observe" /\ working' = working
            /\ Head(batch).kind \in {"cancel_requested", "evaluator_decided"}
        BY <2>6 DEF CancelObserved, EvaluatorDecided, Observed
      <3>2. plan'.dispatch = plan.dispatch
        <4> DEFINE decided == Put(plan.decided, Head(batch).edge, Head(batch).answer)
        <4>1. plan' = plan \/ plan' = [plan EXCEPT !.decided = decided]
          BY <2>6 DEF CancelObserved, EvaluatorDecided
        <4> HIDE DEF decided
        <4>2. PlanOK(plan)
          BY DEF IInv, TypeOK, TickTypeOK
        <4> QED
          BY <4>1, <4>2 DEF PlanOK
      <3>3. World(Ledger, working, Tail(batch), plan.dispatch)
        BY <1>1, <2>3, <3>1, SkippedWorld DEF Settling, Reporting
      <3> QED
        BY <3>1, <3>2, <3>3
    <2>7. CASE CancelAndRearm
      <3>1. working' = Rearm(CancelInactive(working)) /\ batch' = batch /\ batch = <<>>
        BY <2>7 DEF CancelAndRearm
      <3>2. plan'.dispatch = plan.dispatch
        <4>1. plan' = [plan EXCEPT !.cancels = CancelIntents(working)] /\ PlanOK(plan)
          BY <2>7 DEF CancelAndRearm, IInv, TypeOK, TickTypeOK
        <4> QED
          BY <4>1 DEF PlanOK
      <3>3. ASSUME NEW t \in Stages
            PROVE  working'[t] = working[t] \/ working'[t].state \notin InFlightStates \cup {"succeeded"}
        <4>1. PICK m \in StageType : Swept(working[t], m) /\ Swept(m, working'[t])
          BY <1>1, <3>1, SweptTwice
        <4> QED
          BY <4>1 DEF Swept, InFlightStates
      <3>4. World(Ledger, working', batch, plan.dispatch)
        BY <1>3, <2>3, <3>3, RestedWorld
      <3> QED
        BY <3>1, <3>2, <3>4
    <2>8. CASE ReleaseStep
      <3>1. /\ batch' = batch /\ plan' = plan /\ phase' = phase
            /\ \A t \in Stages : working'[t] = working[t]
                             \/ working'[t].state \notin InFlightStates \cup {"succeeded"}
        BY <2>8 DEF ReleaseStep, Released, InFlightStates
      <3>2. World(Ledger, working', batch, plan.dispatch)
        BY <1>3, <2>3, <3>1, RestedWorld
      <3> QED
        BY <1>2, <3>1, <3>2
    <2>9. CASE QueueStep
      <3>1. PICK s \in Stages :
              /\ Queued(working[s], working'[s])
              /\ plan'.dispatch = plan.dispatch \cup {<<s, working[s].generation, working[s].ordinal + 1>>}
              /\ \A t \in Stages : t # s => working'[t] = working[t]
        BY <2>9 DEF QueueStep
      <3>2. World(Ledger, working', batch, plan'.dispatch)
        <4>1. \A a \in Ledger.live : a[1] \in Stages /\ NotAfter(a, working[a[1]])
          BY <1>3
        <4>2. World(Ledger, working', batch,
                    plan.dispatch \cup {<<s, working[s].generation, working[s].ordinal + 1>>})
          BY <1>1, <2>3, <3>1, <4>1, QueuedWorld
        <4> QED
          BY <3>1, <4>2
      <3> QED
        BY <1>2, <2>9, <3>2 DEF QueueStep
    <2>10. CASE AskEvaluators
      <3>1. plan' = [plan EXCEPT !.asked = plan.asked \cup ToAsk] /\ PlanOK(plan)
            /\ UNCHANGED <<working, batch, phase>>
        BY <2>10 DEF AskEvaluators, IInv, TypeOK, TickTypeOK
      <3>2. plan'.dispatch = plan.dispatch
        BY <3>1 DEF PlanOK
      <3> QED
        BY <1>2, <2>3, <3>1, <3>2
    <2> QED
      BY <1>6, <2>4, <2>5, <2>6, <2>7, <2>8, <2>9, <2>10, PlainSteps, ReleaseSteps, QueueSteps
      DEF TickSteps
  <1> QED
    BY <1>4, <1>5, <1>6, OutsideLedger DEF ChargeInv

LEMMA QueuesInvariance == Spec => []QueuesInv
  <1>1. Init => QueuesInv
    <2> SUFFICES ASSUME Init PROVE QueuesInv
      OBVIOUS
    <2>1. observations = <<>> /\ phase = "idle" /\ DOMAIN runner = {}
          /\ \A s \in Stages : stages[s].state = "pending"
      BY DEF Init, NewStage
    <2>2. Ledger.live = {}
      BY <2>1 DEF Ledger
    <2> HIDE DEF Ledger
    <2>3. World(Ledger, stages, observations, {})
      BY <2>1, <2>2 DEF World, Followed, Won, StartHeard, Driven, InFlightStates
    <2> QED
      BY <2>1, <2>3 DEF QueuesInv
  <1> QED
    BY <1>1, QueuesKept, Invariance, ChargeInvariance, LedgerInvariance, IdleCopyHolds, PTL DEF Spec

(* A success is never invented: while nobody cancels the run and it has no    *)
(* deadline, the current attempt of a succeeded stage was finalized as        *)
(* succeeded, whatever is retried, rerun, re-driven, lost or restarted.      *)
(* (Otherwise driveCancel may still mark the finished attempt lost: see      *)
(* SuccessWasDelivered.)                                                     *)
THEOREM NoInventedSuccess ==
  ASSUME Uncancelled
  PROVE  Spec => []SuccessIsFinalized
  <1>1. QueuesInv => SuccessIsFinalized
    BY DEF QueuesInv, World, Won, Ledger, Final, SuccessIsFinalized, Current
  <1> QED
    BY <1>1, QueuesInvariance, PTL

(* Under cancels and deadlines too, the current attempt of a succeeded stage  *)
(* has settled with its dispatch intent: nothing will drive it again          *)
(* (finalizeRunnerAttempt, claimRunnerDispatch).                             *)
SettledWithItsIntent ==
  \A s \in Stages : stages[s].state = "succeeded" =>
    LET a == <<s, stages[s].attempt[1], stages[s].attempt[2]>> IN
    /\ a \in DOMAIN runner /\ runner[a] \in {"succeeded", "recovery_required"}
    /\ a \in DOMAIN dispatch /\ dispatch[a] = "delivered"

(* No success is ever driven a second time, whoever cancels the run. *)
THEOREM SuccessWasDelivered == Spec => []SettledWithItsIntent
  <1>1. QueuesInv => SettledWithItsIntent
    BY DEF QueuesInv, World, Won, Ledger, Final, SettledWithItsIntent, Current
  <1> QED
    BY <1>1, QueuesInvariance, PTL

(* Every stage but the operations', whose attempt may be rebuilt at a restart  *)
(* without the stage being told that it started.                             *)
OthersAreDriven ==
  \A s \in InFlight(stages) \ Operation :
    \/ Pending(Current(s, stages[s]))
    \/ \E i \in DOMAIN observations :
         /\ observations[i].kind \in Settling
         /\ observations[i].stage = s /\ observations[i].attempt = stages[s].attempt
    \/ stages[s].proposal # None

LEMMA QueueDrives == IInv /\ QueuesInv => OthersAreDriven
  <1> SUFFICES ASSUME IInv, QueuesInv, NEW s \in InFlight(stages) \ Operation,
                      stages[s].proposal = None, ~Pending(Current(s, stages[s]))
               PROVE  \E i \in DOMAIN observations :
                        /\ observations[i].kind \in Settling
                        /\ observations[i].stage = s
                        /\ observations[i].attempt = stages[s].attempt
    BY DEF OthersAreDriven
  <1>1. s \in Stages /\ stages[s].state \in InFlightStates /\ stages[s].attempt \in Nat \X Nat
        /\ observations \in Seq(ObservationType)
    BY DEF InFlight, IInv, TypeOK, StoreTypeOK, StageType
  <1>2. Current(s, stages[s]) \notin Ledger.pending
    BY DEF Ledger
  <1>3. WillSettle(s, stages[s], observations)
    BY <1>1, <1>2 DEF QueuesInv, World, Driven
  <1>4. PICK i \in DOMAIN observations : /\ observations[i].kind \in Settling
                                         /\ Named(observations[i]) = Current(s, stages[s])
    BY <1>3 DEF WillSettle
  <1>5. observations[i] \in ObservationType
    BY <1>1
  <1>6. observations[i].attempt \in Nat \X Nat
    BY <1>5 DEF ObservationType
  <1>7. /\ observations[i].stage = s /\ observations[i].attempt[1] = stages[s].attempt[1]
        /\ observations[i].attempt[2] = stages[s].attempt[2]
    BY <1>4 DEF Named, Current
  <1>8. \A x, y \in Nat \X Nat : x[1] = y[1] /\ x[2] = y[2] => x = y
    OBVIOUS
  <1> QED
    BY <1>1, <1>4, <1>6, <1>7, <1>8

(* A stage in flight always waits for somebody, unless its runner is an       *)
(* operation's: its attempt is still to be driven, what settles it is in the  *)
(* queue, or a person is asked.  No interleaving of claims, reports, lost     *)
(* runners, cancels, reruns, ticks and restarts leaves it behind              *)
(* (driveDispatch, finalizeRunnerAttempt, driveCancel, reconcile).           *)
THEOREM NobodyIsLeftBehind == Spec => []OthersAreDriven
  BY QueueDrives, QueuesInvariance, Invariance, PTL

(* In a run whose stages are all commands and agents no stage is ever         *)
(* stranded (driveDispatch, finalizeRunnerAttempt, driveCancel, reconcile).  *)
THEOREM NothingIsStranded ==
  ASSUME Operation = {}
  PROVE  Spec => []InFlightIsDriven
  <1>1. OthersAreDriven => InFlightIsDriven
    BY DEF OthersAreDriven, InFlightIsDriven, Pending, Current
  <1> QED
    BY <1>1, NobodyIsLeftBehind, PTL
=============================================================================
