----------------------- MODULE AccountSchedulingProofs -----------------------
(***************************************************************************)
(* Safety of AccountScheduling for every set of runs, accounts, candidate  *)
(* chains, faults and sweeps: the type invariant, what actors carry over   *)
(* an await, one open attempt per running run, the finality of what is     *)
(* settled, one execution per run at the providers, the artifact of a      *)
(* succeeded attempt, and the lease of every recorded execution.           *)
(***************************************************************************)
EXTENDS AccountScheduling, TLAPS

USE SchedulingConstants

(* What the proofs need to know of an attempt. *)
LEMMA AttemptParts ==
  \A e \in Attempts : /\ e[1] \in Runs
                      /\ e[2] \in Candidates
                      /\ e[2] \in Nat
                      /\ e = <<e[1], e[2]>>
                      /\ e \in AttemptsOf(e[1])
  BY DEF Attempts, Candidates, AttemptsOf

LEMMA AttemptOf == \A r \in Runs : \A i \in Candidates : <<r, i>> \in Attempts
  BY DEF Attempts

LEMMA SameAttempt ==
  \A e, f \in Attempts : e[1] = f[1] /\ e[2] = f[2] => e = f
  BY DEF Attempts

LEMMA PrimaryAttempt ==
  \A r \in Runs : <<r, 0>> \in Attempts /\ <<r, 0>>[1] = r /\ <<r, 0>>[2] = 0
  BY AttemptOf DEF Candidates

(* The inductive invariant. *)
IInv == TypeOK /\ AwaitsStayValid /\ OneLiveAttempt

LEMMA SettledIsFinished == Settled = Finished
  BY DEF Settled, Finished

LEMMA InitIInv == Init => IInv
  <1> SUFFICES ASSUME Init PROVE IInv
    OBVIOUS
  <1>1. TypeOK
    BY DEF Attempts, Init, TypeOK, StoreTypeOK, ProcessTypeOK, ScheduleStates, CandidateStates,
       BackendStates, Positions, Open, NoAttempt, Actors
  <1>2. AwaitsStayValid
    BY DEF Attempts, Init, AwaitsStayValid, SetupIsQueued, StartedExists, SeenIsStarted,
       HeldIsStarted, FinishingIsFinished, HoldsAttempt, Actors
  <1>3. OneLiveAttempt
    BY DEF Init, OneLiveAttempt, AttemptsOf, Open
  <1> QED
    BY <1>1, <1>2, <1>3 DEF IInv

(* The steps that end or go on with an actor keep the process well typed.  *)
LEMMA EndsTyped ==
  ASSUME TypeOK, ProcessEnds
  PROVE  ProcessTypeOK'
  <1>1. seen' \in [Sweepers -> [Attempts -> {"none"} \cup Open]]
    BY DEF ProcessEnds
  <1>2. at' \in [Actors -> Attempts \cup {NoAttempt}]
    BY DEF ProcessEnds
  <1> QED
    BY <1>1, <1>2 DEF TypeOK, ProcessTypeOK, ProcessEnds, Positions

LEMMA ThrowTyped ==
  ASSUME TypeOK, NEW x \in Actors, Throw(x)
  PROVE  ProcessTypeOK'
  <1>1. CASE x \in Sweepers
    BY <1>1, EndsTyped DEF Throw
  <1>2. CASE x \notin Sweepers
    BY <1>2 DEF Throw, TypeOK, ProcessTypeOK, Positions
  <1> QED
    BY <1>1, <1>2

LEMMA ProceedTyped ==
  ASSUME TypeOK, NEW x \in Actors, Proceed(x)
  PROVE  /\ pc' \in [Actors -> Positions]
         /\ at' \in [Actors -> Attempts \cup {NoAttempt}]
         /\ seen' \in [Sweepers -> [Attempts -> {"none"} \cup Open]]
  <1>1. CASE x \in Sweepers
    <2>1. SweepNext(x)
      BY <1>1 DEF Proceed
    <2>2. seen' \in [Sweepers -> [Attempts -> {"none"} \cup Open]]
      BY <2>1, <1>1 DEF SweepNext, TypeOK, ProcessTypeOK
    <2> QED
      BY <2>1, <2>2 DEF SweepNext, TypeOK, ProcessTypeOK, Positions
  <1>2. CASE x \notin Sweepers
    BY <1>2 DEF Proceed, CancelReturns, TypeOK, ProcessTypeOK, Positions
  <1> QED
    BY <1>1, <1>2

LEMMA SetupReturnsTyped ==
  ASSUME TypeOK, NEW e \in Attempts, SetupReturns(e), UNCHANGED <<known, renewedAt>>
  PROVE  ProcessTypeOK'
  BY DEF TypeOK, ProcessTypeOK, SetupReturns, Positions, Actors

LEMMA SetupThrowsTyped ==
  ASSUME TypeOK, NEW e \in Attempts, SetupThrows(e)
  PROVE  ProcessTypeOK'
  BY EndsTyped, SetupReturnsTyped DEF SetupThrows

(* completeExecutionAttempt and restoreAccountLease keep the store typed.  *)
LEMMA EnqueueTyped ==
  ASSUME TypeOK, NEW es \in SUBSET Attempts, Enqueue(es)
  PROVE  /\ queue' \subseteq Attempts
         /\ qSeq' \in [Attempts -> Nat]
         /\ qAt' \in [Attempts -> Nat]
         /\ nextSeq' \in Nat
  BY AttemptParts DEF Enqueue, TypeOK, StoreTypeOK

LEMMA CompleteTyped ==
  ASSUME TypeOK, NEW e \in Attempts, NEW status \in Settled, NEW eligible \in BOOLEAN,
         CompleteAttempt(e, status, eligible), published' \subseteq Runs
  PROVE  StoreTypeOK'
  <1> DEFINE next == IF status = "failed" /\ eligible THEN Remaining(e) ELSE {}
  <1>1. next \subseteq Attempts
    BY DEF Remaining, AttemptsOf
  <1>2. /\ queue' \subseteq Attempts
        /\ qSeq' \in [Attempts -> Nat]
        /\ qAt' \in [Attempts -> Nat]
        /\ nextSeq' \in Nat
    <2> HIDE DEF next
    <2>1. CASE next # {}
      <3>1. Enqueue(next)
        BY <2>1 DEF CompleteAttempt, next
      <3> QED
        BY <1>1, <3>1, EnqueueTyped
    <2>2. CASE next = {}
      <3>1. UNCHANGED <<queue, qSeq, qAt, nextSeq>>
        BY <2>2 DEF CompleteAttempt, next
      <3> QED
        BY <3>1 DEF TypeOK, StoreTypeOK
    <2> QED
      BY <2>1, <2>2
  <1>3. /\ att' \in [Attempts -> {"none"} \cup Open \cup Settled]
        /\ cand' \in [Attempts -> CandidateStates]
        /\ sched' \in [Runs -> ScheduleStates]
        /\ current' \in [Runs -> Candidates \cup {-1}]
    BY AttemptParts DEF CompleteAttempt, TypeOK, StoreTypeOK, CandidateStates, ScheduleStates
  <1>4. /\ lState' \in [Attempts -> {"none", "active", "expired", "released"}]
        /\ lRev' \in [Attempts -> Nat]
    BY DEF CompleteAttempt, ReleaseLease, TypeOK, StoreTypeOK
  <1> QED
    BY <1>2, <1>3, <1>4 DEF CompleteAttempt, ReleaseLease, TypeOK, StoreTypeOK

LEMMA RestoreTyped ==
  ASSUME TypeOK, NEW e \in Attempts, NEW status \in Open, RestoreLease(e, status)
  PROVE  /\ StoreTypeOK'
         /\ known' \in [Attempts -> Nat]
         /\ renewedAt' \in [Attempts -> Nat]
  BY DEF RestoreLease, TypeOK, StoreTypeOK, ProcessTypeOK, scheduleVars

(* Every outcome of a finished execution settles the attempt. *)
LEMMA OutcomeParts ==
  ASSUME NEW e \in Attempts, backend[e] \in Settled, NEW o \in Outcomes(e)
  PROVE  o[1] \in Settled /\ o[2] \in BOOLEAN
  <1>1. \/ o = <<backend[e], FALSE>>
        \/ o = <<"failed", TRUE>>
        \/ o = <<"failed", FALSE>>
    BY Zenon DEF Outcomes
  <1>2. "failed" \in Settled
    BY DEF Settled
  <1>3. CASE o = <<backend[e], FALSE>>
    BY <1>3
  <1>4. CASE o = <<"failed", TRUE>>
    BY <1>2, <1>4
  <1>5. CASE o = <<"failed", FALSE>>
    BY <1>2, <1>5
  <1> QED
    BY <1>1, <1>3, <1>4, <1>5

LEMMA SnapshotTyped ==
  ASSUME TypeOK
  PROVE  Snapshot \in [Attempts -> {"none"} \cup Open]
  BY DEF Snapshot, Recoverable, TypeOK, StoreTypeOK

LEMMA AtAttempt ==
  ASSUME IInv, NEW x \in Actors, pc[x] \in HoldsAttempt
  PROVE  at[x] \in Attempts /\ at[x][1] \in Runs
  BY AttemptParts DEF IInv, AwaitsStayValid, HeldIsStarted, TypeOK, StoreTypeOK

(* Every action keeps every variable in its type. *)
LEMMA TypeStep == IInv /\ [Next]_vars => TypeOK'
  <1> SUFFICES ASSUME IInv, [Next]_vars
               PROVE  TypeOK'
    OBVIOUS
  <1> TypeOK
    BY DEF IInv
  <1> USE AttemptParts
      DEF TypeOK, StoreTypeOK, ProcessTypeOK, ScheduleStates, CandidateStates, BackendStates,
      Positions,
          Open, Settled, Finished, Actors, durable, memory, vars, scheduleVars, leaseVars
  <1>1. ASSUME NEW r \in Runs, StartRun(r)
        PROVE  TypeOK'
    BY <1>1 DEF StartRun, CreateExecutionSchedule, Enrolled, Enqueue, AttemptsOf
  <1>2. ASSUME NEW r \in Runs, CancelQueued(r)
        PROVE  TypeOK'
    <2>1. <<r, 0>> \in Attempts
      BY PrimaryAttempt
    <2>2. att' \in [Attempts -> {"none"} \cup Open \cup Settled] /\ cand' \in [Attempts -> CandidateStates]
      BY <1>2, <2>1 DEF CancelQueued, CancelQueuedInside
    <2>3. current' \in [Runs -> Candidates \cup {-1}] /\ sched' \in [Runs -> ScheduleStates]
      BY <1>2 DEF CancelQueued, CancelQueuedInside, Candidates
    <2>4. queue' \subseteq Attempts /\ qSeq' \in [Attempts -> Nat] /\ qAt' \in [Attempts -> Nat] /\ nextSeq' = nextSeq
      BY <1>2 DEF CancelQueued, CancelQueuedInside, Dequeue
    <2> QED
      BY <1>2, <2>2, <2>3, <2>4 DEF CancelQueued, CancelQueuedInside
  <1>3. ASSUME NEW r \in Runs, CancelRunning(r)
        PROVE  TypeOK'
    BY <1>3 DEF CancelRunning, Finished
  <1>4. ASSUME NEW r \in Runs, AnswerCancel(r)
        PROVE  TypeOK'
    <2>1. <<r, 0>> \in Attempts
      BY PrimaryAttempt
    <2>2. att' \in [Attempts -> {"none"} \cup Open \cup Settled] /\ cand' \in [Attempts -> CandidateStates]
      BY <1>4, <2>1 DEF AnswerCancel, CancelQueuedInside
    <2>3. current' \in [Runs -> Candidates \cup {-1}] /\ sched' \in [Runs -> ScheduleStates]
      BY <1>4 DEF AnswerCancel, CancelQueuedInside, Candidates
    <2>4. queue' \subseteq Attempts /\ qSeq' \in [Attempts -> Nat] /\ qAt' \in [Attempts -> Nat] /\ nextSeq' = nextSeq
      BY <1>4 DEF AnswerCancel, CancelQueuedInside, Dequeue
    <2> QED
      BY <1>4, <2>2, <2>3, <2>4 DEF AnswerCancel, CancelQueuedInside
  <1>5. ASSUME NEW r \in Runs, NEW i \in Candidates, AnswerCandidate(r, i)
        PROVE  TypeOK'
    <2>1. <<r, i>> \in Attempts
      BY AttemptOf
    <2>2. cand' \in [Attempts -> CandidateStates]
      BY <1>5, <2>1 DEF AnswerCandidate
    <2>3. queue' \subseteq Attempts /\ qSeq' \in [Attempts -> Nat] /\ qAt' \in [Attempts -> Nat] /\ nextSeq' \in Nat
      <3>1. Enqueue({<<r, i>>})
        BY <1>5 DEF AnswerCandidate
      <3>2. {<<r, i>>} \in SUBSET Attempts
        BY <2>1
      <3> QED
        BY <3>1, <3>2, EnqueueTyped, Zenon
    <2> QED
      BY <1>5, <2>2, <2>3 DEF AnswerCandidate
  <1>6. ASSUME NEW x \in Sweepers \cup {"rpc"}, ClaimNothing(x)
        PROVE  TypeOK'
    BY <1>6 DEF ClaimNothing, MayDispatch, ExpireLeases, AskQuestions, Dequeue
  <1>7. ASSUME NEW x \in Sweepers \cup {"rpc"}, NEW e \in Attempts, ClaimCandidate(x, e)
        PROVE  TypeOK'
    BY <1>7 DEF ClaimCandidate, MayDispatch, AskQuestions, Dequeue
  <1>8. ASSUME NEW w \in Sweepers, NEW e \in Attempts, ClaimThrows(w, e)
        PROVE  TypeOK'
    <2>1. ProcessTypeOK'
      BY <1>8, EndsTyped DEF ClaimThrows
    <2> QED
      BY <1>8, <2>1 DEF ClaimThrows
  <1>9. ASSUME NEW e \in Attempts, ProvisionFails(e)
        PROVE  TypeOK'
    <2>1. StoreTypeOK'
      BY <1>9, CompleteTyped DEF ProvisionFails, Settled
    <2>2. ProcessTypeOK'
      BY <1>9, SetupThrowsTyped DEF ProvisionFails
    <2> QED
      BY <1>9, <2>1, <2>2 DEF ProvisionFails
  <1>10. ASSUME NEW e \in Attempts, DeadlineExhausted(e)
        PROVE  TypeOK'
    <2>1. StoreTypeOK'
      BY <1>10, CompleteTyped DEF DeadlineExhausted, Settled
    <2>2. ProcessTypeOK'
      BY <1>10, SetupReturnsTyped DEF DeadlineExhausted
    <2> QED
      BY <1>10, <2>1, <2>2 DEF DeadlineExhausted
  <1>11. ASSUME NEW e \in Attempts, ProvisionDone(e)
        PROVE  TypeOK'
    BY <1>11 DEF ProvisionDone
  <1>12. ASSUME NEW e \in Attempts, RecordStart(e)
        PROVE  TypeOK'
    BY <1>12 DEF RecordStart, SetupReturns
  <1>13. ASSUME NEW e \in Attempts, StartUnavailable(e)
        PROVE  TypeOK'
    <2>1. StoreTypeOK'
      BY <1>13, CompleteTyped DEF StartUnavailable, Settled
    <2>2. ProcessTypeOK'
      BY <1>13, SetupReturnsTyped DEF StartUnavailable
    <2> QED
      BY <1>13, <2>1, <2>2 DEF StartUnavailable
  <1>14. ASSUME NEW e \in Attempts, StartFails(e)
        PROVE  TypeOK'
    <2>1. StoreTypeOK'
      BY <1>14, CompleteTyped DEF StartFails, Settled
    <2>2. ProcessTypeOK'
      BY <1>14, SetupThrowsTyped DEF StartFails
    <2> QED
      BY <1>14, <2>1, <2>2 DEF StartFails
  <1>15. ASSUME NEW w \in Sweepers, SweepBegin(w)
        PROVE  TypeOK'
    <2>1. seen' = [seen EXCEPT ![w] = Snapshot]
      BY <1>15 DEF SweepBegin
    <2>2. seen' \in [Sweepers -> [Attempts -> {"none"} \cup Open]]
      BY <2>1, SnapshotTyped
    <2> QED
      BY <1>15, <2>2 DEF SweepBegin
  <1>16. ASSUME NEW w \in Sweepers, SweepEnd(w)
        PROVE  TypeOK'
    BY <1>16 DEF SweepEnd
  <1>17. ASSUME NEW x \in Actors, NEW e \in Attempts, HearStatus(x, e)
        PROVE  TypeOK'
    BY <1>17 DEF HearStatus, Reaction
  <1>18. ASSUME NEW x \in Actors, NEW e \in Attempts, HearNothing(x, e)
        PROVE  TypeOK'
    BY <1>18 DEF HearNothing
  <1>19. ASSUME NEW x \in Actors, FenceUnconfirmed(x)
        PROVE  TypeOK'
    <2>1. at[x] \in Attempts
      BY <1>19, AtAttempt DEF FenceUnconfirmed, HoldsAttempt
    <2>2. StoreTypeOK' /\ known' \in [Attempts -> Nat] /\ renewedAt' \in [Attempts -> Nat]
      BY <1>19, <2>1, RestoreTyped DEF FenceUnconfirmed, Open
    <2> QED
      BY <1>19, <2>2, ProceedTyped DEF FenceUnconfirmed, RestoreLease
  <1>20. ASSUME NEW w \in Sweepers, RestoreLive(w)
        PROVE  TypeOK'
    <2>1. at[w] \in Attempts
      BY <1>20, AtAttempt DEF RestoreLive, HoldsAttempt, Actors
    <2>2. StoreTypeOK' /\ known' \in [Attempts -> Nat] /\ renewedAt' \in [Attempts -> Nat]
      BY <1>20, <2>1, RestoreTyped DEF RestoreLive
    <2> QED
      BY <1>20, <2>2, ProceedTyped DEF RestoreLive, RestoreLease, Proceed, Actors
  <1>21. ASSUME NEW x \in Actors, RestoreThrows(x)
        PROVE  TypeOK'
    <2>1. ProcessTypeOK'
      BY <1>21, ThrowTyped DEF RestoreThrows, Actors
    <2> QED
      BY <1>21, <2>1 DEF RestoreThrows
  <1>22. ASSUME NEW w \in Sweepers, RenewNotDue(w)
        PROVE  TypeOK'
    BY <1>22 DEF RenewNotDue, SweepNext
  <1>23. ASSUME NEW w \in Sweepers, RenewLease(w)
        PROVE  TypeOK'
    <2>1. at[w] \in Attempts
      BY <1>23, AtAttempt DEF RenewLease, RenewDue, HoldsAttempt, Actors
    <2>2. StoreTypeOK' /\ known' \in [Attempts -> Nat] /\ renewedAt' \in [Attempts -> Nat]
      BY <1>23, <2>1 DEF RenewLease
    <2> QED
      BY <1>23, <2>2, ProceedTyped DEF RenewLease, Proceed, Actors
  <1>24. ASSUME NEW w \in Sweepers, RenewThrows(w)
        PROVE  TypeOK'
    <2>1. ProcessTypeOK'
      BY <1>24, ThrowTyped DEF RenewThrows, Actors
    <2> QED
      BY <1>24, <2>1 DEF RenewThrows
  <1>25. ASSUME NEW x \in Actors, FinishThrows(x)
        PROVE  TypeOK'
    <2>1. ProcessTypeOK'
      BY <1>25, ThrowTyped DEF FinishThrows, Actors
    <2> QED
      BY <1>25, <2>1 DEF FinishThrows
  <1>26. ASSUME NEW x \in Actors, FinishCheck(x)
        PROVE  TypeOK'
    BY <1>26 DEF FinishCheck
  <1>27. ASSUME NEW x \in Actors, FinishComplete(x)
        PROVE  TypeOK'
    <2>1. at[x] \in Attempts /\ backend[at[x]] \in Settled
      BY <1>27, AtAttempt, SettledIsFinished DEF FinishComplete, HoldsAttempt, IInv,
         AwaitsStayValid, FinishingIsFinished
    <2>2. PICK o \in Outcomes(at[x]) :
             /\ CompleteAttempt(at[x], o[1], o[2])
             /\ published' = IF o[1] = "succeeded" THEN published \cup {at[x][1]} ELSE published
      BY <1>27 DEF FinishComplete
    <2>3. o[1] \in Settled /\ o[2] \in BOOLEAN
      BY <2>1, OutcomeParts
    <2>4. published' \subseteq Runs
      BY <2>1, <2>2
    <2>5. StoreTypeOK'
      BY <2>1, <2>2, <2>3, <2>4, CompleteTyped
    <2> QED
      BY <1>27, <2>1, <2>5, ProceedTyped DEF FinishComplete
  <1>28. ASSUME NEW x \in Actors, FinishTooLate(x)
        PROVE  TypeOK'
    <2>1. ProcessTypeOK'
      BY <1>28, ThrowTyped DEF FinishTooLate
    <2>2. published' \subseteq Runs
      BY <1>28, AtAttempt DEF FinishTooLate, HoldsAttempt
    <2> QED
      BY <1>28, <2>1, <2>2 DEF FinishTooLate
  <1>29. ASSUME NEW x \in Actors, CrashAfterPublish(x)
        PROVE  TypeOK'
    <2>1. ProcessTypeOK'
      BY <1>29, EndsTyped DEF CrashAfterPublish
    <2>2. published' \subseteq Runs
      BY <1>29, AtAttempt DEF CrashAfterPublish, HoldsAttempt
    <2> QED
      BY <1>29, <2>1, <2>2 DEF CrashAfterPublish
  <1>30. ASSUME NEW e \in Attempts, BackendStarts(e)
        PROVE  TypeOK'
    BY <1>30 DEF BackendStarts
  <1>31. ASSUME NEW e \in Attempts, BackendFinishes(e)
        PROVE  TypeOK'
    BY <1>31 DEF BackendFinishes
  <1>32. ASSUME NEW e \in Attempts, BackendLosesTrack(e)
        PROVE  TypeOK'
    BY <1>32 DEF BackendLosesTrack
  <1>33. CASE Tick
    BY <1>33 DEF Tick
  <1>34. CASE Crash
    <2>1. ProcessTypeOK'
      BY <1>34, EndsTyped DEF Crash
    <2> QED
      BY <1>34, <2>1 DEF Crash
  <1>35. CASE Restart
    <2>1. seen' = [seen EXCEPT ![Boot] = Snapshot]
      BY <1>35 DEF Restart
    <2>2. seen' \in [Sweepers -> [Attempts -> {"none"} \cup Open]]
      BY <2>1, SnapshotTyped
    <2> QED
      BY <1>35, <2>2 DEF Restart
  <1>36. CASE UNCHANGED vars
    BY <1>36
  <1> QED
    BY <1>1, <1>2, <1>3, <1>4, <1>5, <1>6, <1>7, <1>8, <1>9, <1>10, <1>11, <1>12,
       <1>13, <1>14, <1>15, <1>16, <1>17, <1>18, <1>19, <1>20, <1>21, <1>22, <1>23, <1>24,
       <1>25, <1>26, <1>27, <1>28, <1>29, <1>30, <1>31, <1>32, <1>33, <1>34, <1>35, <1>36
    DEF Next, Client, Confirm, Sweep, Dispatch, Setup, Backend, Actors

(* Going on to the next attempt, and an error, drop what was carried. *)
LEMMA ProceedKeepsAwaits ==
  ASSUME TypeOK, AwaitsStayValid, NEW x \in Actors, Proceed(x), UNCHANGED <<started, backend>>,
         SetupIsQueued', StartedExists'
  PROVE  AwaitsStayValid'
  <1> USE DEF TypeOK, StoreTypeOK, ProcessTypeOK, AwaitsStayValid, SeenIsStarted, HeldIsStarted,
          FinishingIsFinished, HoldsAttempt
  <1>1. CASE x \in Sweepers
    <2>1. SweepNext(x)
      BY <1>1 DEF Proceed
    <2>2. SeenIsStarted'
      BY <1>1, <2>1 DEF SweepNext
    <2> QED
      BY <2>1, <2>2 DEF SweepNext
  <1>2. CASE x \notin Sweepers
    <2>1. CancelReturns(x)
      BY <1>2 DEF Proceed
    <2>2. SeenIsStarted'
      BY <2>1 DEF CancelReturns
    <2>3. HeldIsStarted'
      BY <2>1 DEF CancelReturns
    <2>4. FinishingIsFinished'
      BY <2>1 DEF CancelReturns
    <2> QED
      BY <2>2, <2>3, <2>4
  <1> QED
    BY <1>1, <1>2

LEMMA ThrowKeepsAwaits ==
  ASSUME TypeOK, AwaitsStayValid, NEW x \in Actors, Throw(x), UNCHANGED <<att, started, backend>>
  PROVE  AwaitsStayValid'
  <1> USE DEF TypeOK, StoreTypeOK, ProcessTypeOK, AwaitsStayValid, SetupIsQueued, StartedExists,
          SeenIsStarted, HeldIsStarted, FinishingIsFinished, HoldsAttempt
  <1>1. CASE x \in Sweepers
    BY <1>1 DEF Throw, ProcessEnds
  <1>2. CASE x \notin Sweepers
    <2>1. Proceed(x)
      BY <1>2 DEF Throw, Proceed, CancelReturns
    <2>2. SetupIsQueued' /\ StartedExists'
      BY <1>2 DEF Throw
    <2> QED
      BY <2>1, <2>2, ProceedKeepsAwaits
  <1> QED
    BY <1>1, <1>2

LEMMA CancelKeepsAttempts ==
  ASSUME TypeOK, NEW r \in Runs, CancelQueuedInside(r)
  PROVE  \A e \in Attempts : att[e] # "none" => att'[e] = att[e]
  <1>1. PICK p \in Attempts : att[p] = "none" /\ att' = [att EXCEPT ![p] = "cancelled"]
    BY PrimaryAttempt DEF CancelQueuedInside
  <1> QED
    BY <1>1 DEF TypeOK, StoreTypeOK

(* What is carried over an await stays valid under every other step. *)
LEMMA AwaitStep == IInv /\ [Next]_vars => AwaitsStayValid'
  <1> SUFFICES ASSUME IInv, [Next]_vars
               PROVE  AwaitsStayValid'
    OBVIOUS
  <1> TypeOK /\ AwaitsStayValid
    BY DEF IInv
  <1> USE DEF TypeOK, StoreTypeOK, ProcessTypeOK, AwaitsStayValid, SetupIsQueued, StartedExists,
          SeenIsStarted, HeldIsStarted, FinishingIsFinished, HoldsAttempt, Finished, Actors,
          durable, memory, vars, scheduleVars
  <1>1. ASSUME NEW r \in Runs, StartRun(r)
        PROVE  AwaitsStayValid'
    BY <1>1 DEF StartRun, CreateExecutionSchedule, Enrolled, Enqueue, AttemptsOf
  <1>2. ASSUME NEW r \in Runs, CancelQueued(r)
        PROVE  AwaitsStayValid'
    <2>1. UNCHANGED <<started, memory, backend>>
      BY <1>2 DEF CancelQueued
    <2>2. \A e \in Attempts : att[e] # "none" => att'[e] = att[e]
      BY <1>2, CancelKeepsAttempts DEF CancelQueued
    <2>3. SetupIsQueued'
      BY <2>1, <2>2
    <2>4. StartedExists'
      BY <2>1, <2>2
    <2> QED
      BY <2>1, <2>3, <2>4
  <1>3. ASSUME NEW r \in Runs, CancelRunning(r)
        PROVE  AwaitsStayValid'
    BY <1>3 DEF CancelRunning, Finished
  <1>4. ASSUME NEW r \in Runs, AnswerCancel(r)
        PROVE  AwaitsStayValid'
    <2>1. UNCHANGED <<started, memory, backend>>
      BY <1>4 DEF AnswerCancel
    <2>2. \A e \in Attempts : att[e] # "none" => att'[e] = att[e]
      BY <1>4, CancelKeepsAttempts DEF AnswerCancel
    <2>3. SetupIsQueued'
      BY <2>1, <2>2
    <2>4. StartedExists'
      BY <2>1, <2>2
    <2> QED
      BY <2>1, <2>3, <2>4
  <1>5. ASSUME NEW r \in Runs, NEW i \in Candidates, AnswerCandidate(r, i)
        PROVE  AwaitsStayValid'
    BY <1>5 DEF AnswerCandidate, Answerable, Enqueue
  <1>6. ASSUME NEW x \in Sweepers \cup {"rpc"}, ClaimNothing(x)
        PROVE  AwaitsStayValid'
    BY <1>6 DEF ClaimNothing, MayDispatch, ExpireLeases, AskQuestions, Dequeue
  <1>7. ASSUME NEW x \in Sweepers \cup {"rpc"}, NEW e \in Attempts, ClaimCandidate(x, e)
        PROVE  AwaitsStayValid'
    BY <1>7 DEF ClaimCandidate, MayDispatch, AskQuestions, Dequeue
  <1>8. ASSUME NEW w \in Sweepers, NEW e \in Attempts, ClaimThrows(w, e)
        PROVE  AwaitsStayValid'
    BY <1>8 DEF ClaimThrows, ProcessEnds
  <1>9. ASSUME NEW e \in Attempts, ProvisionFails(e)
        PROVE  AwaitsStayValid'
    BY <1>9 DEF ProvisionFails, CompleteAttempt, ReleaseLease, Enqueue, Remaining, AttemptsOf,
       SetupThrows, SetupReturns, ProcessEnds
  <1>10. ASSUME NEW e \in Attempts, DeadlineExhausted(e)
        PROVE  AwaitsStayValid'
    BY <1>10 DEF DeadlineExhausted, CompleteAttempt, ReleaseLease, Enqueue, Remaining, AttemptsOf,
       SetupReturns
  <1>11. ASSUME NEW e \in Attempts, ProvisionDone(e)
        PROVE  AwaitsStayValid'
    BY <1>11 DEF ProvisionDone
  <1>12. ASSUME NEW e \in Attempts, RecordStart(e)
        PROVE  AwaitsStayValid'
    BY <1>12 DEF RecordStart, SetupReturns
  <1>13. ASSUME NEW e \in Attempts, StartUnavailable(e)
        PROVE  AwaitsStayValid'
    BY <1>13 DEF StartUnavailable, CompleteAttempt, ReleaseLease, Enqueue, Remaining, AttemptsOf,
       SetupReturns
  <1>14. ASSUME NEW e \in Attempts, StartFails(e)
        PROVE  AwaitsStayValid'
    BY <1>14 DEF StartFails, CompleteAttempt, ReleaseLease, Enqueue, Remaining, AttemptsOf,
       SetupThrows, SetupReturns, ProcessEnds
  <1>15. ASSUME NEW w \in Sweepers, SweepBegin(w)
        PROVE  AwaitsStayValid'
    BY <1>15 DEF SweepBegin, Snapshot
  <1>16. ASSUME NEW w \in Sweepers, SweepEnd(w)
        PROVE  AwaitsStayValid'
    BY <1>16 DEF SweepEnd
  <1>17. ASSUME NEW x \in Actors, NEW e \in Attempts, HearStatus(x, e)
        PROVE  AwaitsStayValid'
    BY <1>17 DEF HearStatus, Reaction
  <1>18. ASSUME NEW x \in Actors, NEW e \in Attempts, HearNothing(x, e)
        PROVE  AwaitsStayValid'
    BY <1>18 DEF HearNothing
  <1>19. ASSUME NEW x \in Actors, FenceUnconfirmed(x)
        PROVE  AwaitsStayValid'
    <2>1. at[x] \in started
      BY <1>19 DEF FenceUnconfirmed
    <2>2. SetupIsQueued' /\ StartedExists'
      BY <1>19, <2>1 DEF FenceUnconfirmed, RestoreLease
    <2> QED
      BY <1>19, <2>2, ProceedKeepsAwaits DEF FenceUnconfirmed, RestoreLease
  <1>20. ASSUME NEW w \in Sweepers, RestoreLive(w)
        PROVE  AwaitsStayValid'
    BY <1>20 DEF RestoreLive, RestoreLease, SweepNext
  <1>21. ASSUME NEW x \in Actors, RestoreThrows(x)
        PROVE  AwaitsStayValid'
    BY <1>21, ThrowKeepsAwaits DEF RestoreThrows
  <1>22. ASSUME NEW w \in Sweepers, RenewNotDue(w)
        PROVE  AwaitsStayValid'
    BY <1>22 DEF RenewNotDue, SweepNext
  <1>23. ASSUME NEW w \in Sweepers, RenewLease(w)
        PROVE  AwaitsStayValid'
    BY <1>23 DEF RenewLease, RenewDue, SweepNext
  <1>24. ASSUME NEW w \in Sweepers, RenewThrows(w)
        PROVE  AwaitsStayValid'
    BY <1>24, ThrowKeepsAwaits DEF RenewThrows
  <1>25. ASSUME NEW x \in Actors, FinishThrows(x)
        PROVE  AwaitsStayValid'
    BY <1>25, ThrowKeepsAwaits DEF FinishThrows
  <1>26. ASSUME NEW x \in Actors, FinishCheck(x)
        PROVE  AwaitsStayValid'
    BY <1>26 DEF FinishCheck
  <1>27. ASSUME NEW x \in Actors, FinishComplete(x)
        PROVE  AwaitsStayValid'
    <2>1. at[x] \in started /\ backend[at[x]] \in Settled
      BY <1>27, SettledIsFinished DEF FinishComplete
    <2>2. PICK o \in Outcomes(at[x]) : CompleteAttempt(at[x], o[1], o[2])
      BY <1>27 DEF FinishComplete
    <2>3. o[1] \in Settled
      BY <2>1, OutcomeParts
    <2>4. SetupIsQueued' /\ StartedExists'
      BY <1>27, <2>1, <2>2, <2>3 DEF FinishComplete, CompleteAttempt, Settled
    <2>5. started' = started
      BY <2>2 DEF CompleteAttempt
    <2> QED
      BY <1>27, <2>4, <2>5, ProceedKeepsAwaits DEF FinishComplete
  <1>28. ASSUME NEW x \in Actors, FinishTooLate(x)
        PROVE  AwaitsStayValid'
    BY <1>28, ThrowKeepsAwaits DEF FinishTooLate
  <1>29. ASSUME NEW x \in Actors, CrashAfterPublish(x)
        PROVE  AwaitsStayValid'
    BY <1>29 DEF CrashAfterPublish, ProcessEnds
  <1>30. ASSUME NEW e \in Attempts, BackendStarts(e)
        PROVE  AwaitsStayValid'
    BY <1>30 DEF BackendStarts
  <1>31. ASSUME NEW e \in Attempts, BackendFinishes(e)
        PROVE  AwaitsStayValid'
    BY <1>31 DEF BackendFinishes
  <1>32. ASSUME NEW e \in Attempts, BackendLosesTrack(e)
        PROVE  AwaitsStayValid'
    BY <1>32 DEF BackendLosesTrack
  <1>33. CASE Tick
    BY <1>33 DEF Tick
  <1>34. CASE Crash
    BY <1>34 DEF Crash, ProcessEnds
  <1>35. CASE Restart
    BY <1>35 DEF Restart, Snapshot
  <1>36. CASE UNCHANGED vars
    BY <1>36
  <1> QED
    BY <1>1, <1>2, <1>3, <1>4, <1>5, <1>6, <1>7, <1>8, <1>9, <1>10, <1>11, <1>12,
       <1>13, <1>14, <1>15, <1>16, <1>17, <1>18, <1>19, <1>20, <1>21, <1>22, <1>23, <1>24,
       <1>25, <1>26, <1>27, <1>28, <1>29, <1>30, <1>31, <1>32, <1>33, <1>34, <1>35, <1>36
    DEF Next, Client, Confirm, Sweep, Dispatch, Setup, Backend, Actors

(* OneLiveAttempt, attempt by attempt: the form the steps are proved in. *)
LiveIsCurrent ==
  /\ \A e \in Attempts : att[e] \in Open <=> sched[e[1]] = "running" /\ current[e[1]] = e[2]
  /\ \A r \in Runs : sched[r] = "running" => current[r] \in Candidates

LEMMA OneLivePointwise ==
  ASSUME TypeOK
  PROVE  OneLiveAttempt <=> LiveIsCurrent
  <1>1. ASSUME OneLiveAttempt
        PROVE  LiveIsCurrent
    <2>1. ASSUME NEW r \in Runs, sched[r] = "running"
          PROVE  /\ \A e \in AttemptsOf(r) : att[e] \in Open <=> e = <<r, current[r]>>
                 /\ <<r, current[r]>> \in AttemptsOf(r)
      BY <1>1, <2>1 DEF OneLiveAttempt
    <2>2. ASSUME NEW r \in Runs, sched[r] # "running"
          PROVE  \A e \in AttemptsOf(r) : att[e] \notin Open
      BY <1>1, <2>2 DEF OneLiveAttempt
    <2>3. ASSUME NEW r \in Runs, sched[r] = "running"
          PROVE  current[r] \in Candidates
      BY <2>1, <2>3 DEF AttemptsOf, Attempts
    <2>4. ASSUME NEW e \in Attempts
          PROVE  att[e] \in Open <=> sched[e[1]] = "running" /\ current[e[1]] = e[2]
      <3>1. CASE sched[e[1]] = "running"
        <4>1. att[e] \in Open <=> e = <<e[1], current[e[1]]>>
          BY <2>1, <3>1, AttemptParts
        <4> QED
          BY <3>1, <4>1, AttemptParts
      <3>2. CASE sched[e[1]] # "running"
        BY <2>2, <3>2, AttemptParts
      <3> QED
        BY <3>1, <3>2
    <2> QED
      BY <2>3, <2>4 DEF LiveIsCurrent
  <1>2. ASSUME LiveIsCurrent
        PROVE  OneLiveAttempt
    <2> SUFFICES ASSUME NEW r \in Runs
                 PROVE  /\ sched[r] = "running" =>
                             {e \in AttemptsOf(r) : att[e] \in Open} = {<<r, current[r]>>}
                        /\ sched[r] # "running" => {e \in AttemptsOf(r) : att[e] \in Open} = {}
      BY DEF OneLiveAttempt
    <2>1. \A e \in AttemptsOf(r) : e \in Attempts /\ e[1] = r
      BY DEF AttemptsOf
    <2>2. CASE sched[r] = "running"
      <3>1. <<r, current[r]>> \in AttemptsOf(r)
        BY <1>2, <2>2, AttemptOf DEF LiveIsCurrent, AttemptsOf
      <3>2. \A e \in AttemptsOf(r) : att[e] \in Open <=> e = <<r, current[r]>>
        BY <1>2, <2>1, <2>2, AttemptParts DEF LiveIsCurrent
      <3> QED
        BY <2>2, <3>1, <3>2
    <2>3. CASE sched[r] # "running"
      BY <1>2, <2>1, <2>3 DEF LiveIsCurrent
    <2> QED
      BY <2>2, <2>3
  <1> QED
    BY <1>1, <1>2

(* A claim and a question only touch queued runs. *)
LEMMA SelectedIsQueued ==
  ASSUME NEW e \in Attempts, Selected(e)
  PROVE  e \in queue /\ cand[e] = "queued" /\ sched[e[1]] = "queued"
  BY DEF Selected, EarliestPerRun, Available, Heads, Claimable

LEMMA AskedIsQueued == \A r \in AskedRuns : r \in Runs /\ sched[r] = "queued"
  BY DEF AskedRuns, Heads, Claimable

LEMMA CompleteKeepsOneLive ==
  ASSUME TypeOK, LiveIsCurrent, NEW e \in Attempts, att[e] \in Open, NEW status \in Settled,
         NEW eligible \in BOOLEAN, CompleteAttempt(e, status, eligible)
  PROVE  LiveIsCurrent'
  <1> DEFINE next == IF status = "failed" /\ eligible THEN Remaining(e) ELSE {}
  <1>1. /\ att' = [att EXCEPT ![e] = status]
        /\ sched' = [sched EXCEPT ![e[1]] = IF next # {} THEN "queued" ELSE "terminal"]
        /\ current' = [current EXCEPT ![e[1]] = IF next # {} THEN -1 ELSE @]
    BY DEF CompleteAttempt
  <1>2. status \notin Open
    BY DEF Open, Settled
  <1> HIDE DEF next
  <1>3. \A f \in Attempts : f[1] # e[1] => f # e
    OBVIOUS
  <1>4. \A f \in Attempts : f[1] = e[1] /\ f # e => att[f] \notin Open
    BY AttemptParts DEF LiveIsCurrent
  <1>5. sched'[e[1]] # "running" /\ \A r \in Runs : r # e[1] => sched'[r] = sched[r] /\ current'[r] = current[r]
    BY <1>1, AttemptParts DEF TypeOK, StoreTypeOK
  <1>6. att'[e] \notin Open /\ \A f \in Attempts : f # e => att'[f] = att[f]
    BY <1>1, <1>2 DEF TypeOK, StoreTypeOK
  <1> QED
    BY <1>3, <1>4, <1>5, <1>6, AttemptParts DEF LiveIsCurrent

(* A run is running exactly while its current candidate has an open attempt, *)
(* under every action. *)
LEMMA OneLiveStep == IInv /\ [Next]_vars => OneLiveAttempt'
  <1> SUFFICES ASSUME IInv, [Next]_vars
               PROVE  LiveIsCurrent'
    BY TypeStep, OneLivePointwise, PTL
  <1> TypeOK /\ LiveIsCurrent
    BY OneLivePointwise DEF IInv
  <1> USE AttemptParts
      DEF TypeOK, StoreTypeOK, LiveIsCurrent, Open, durable, memory, vars, scheduleVars
  <1>1. ASSUME NEW r \in Runs, StartRun(r)
        PROVE  LiveIsCurrent'
    BY <1>1 DEF StartRun, CreateExecutionSchedule
  <1>2. ASSUME NEW r \in Runs, CancelQueued(r)
        PROVE  LiveIsCurrent'
    BY <1>2, PrimaryAttempt DEF CancelQueued, CancelQueuedInside
  <1>3. ASSUME NEW r \in Runs, CancelRunning(r)
        PROVE  LiveIsCurrent'
    BY <1>3 DEF CancelRunning
  <1>4. ASSUME NEW r \in Runs, AnswerCancel(r)
        PROVE  LiveIsCurrent'
    BY <1>4, PrimaryAttempt DEF AnswerCancel, Answerable, CancelQueuedInside
  <1>5. ASSUME NEW r \in Runs, NEW i \in Candidates, AnswerCandidate(r, i)
        PROVE  LiveIsCurrent'
    BY <1>5 DEF AnswerCandidate, Answerable
  <1>6. ASSUME NEW x \in Sweepers \cup {"rpc"}, ClaimNothing(x)
        PROVE  LiveIsCurrent'
    BY <1>6, AskedIsQueued DEF ClaimNothing
  <1>7. ASSUME NEW x \in Sweepers \cup {"rpc"}, NEW e \in Attempts, ClaimCandidate(x, e)
        PROVE  LiveIsCurrent'
    <2>1. sched[e[1]] = "queued" /\ e[1] \in Runs
      BY <1>7, SelectedIsQueued DEF ClaimCandidate
    <2>2. /\ sched'[e[1]] = "running" /\ current'[e[1]] = e[2] /\ current'[e[1]] \in Candidates
          /\ \A r \in Runs : r # e[1] =>
               /\ current'[r] = current[r]
               /\ sched'[r] = "running" <=> sched[r] = "running"
      BY <1>7, <2>1, AskedIsQueued DEF ClaimCandidate
    <2>3. att'[e] \in Open /\ \A f \in Attempts : f # e => att'[f] = att[f]
      BY <1>7 DEF ClaimCandidate
    <2>4. \A f \in Attempts : f[1] = e[1] => att[f] \notin Open
      BY <2>1
    <2>5. \A f \in Attempts : f[1] = e[1] /\ f[2] = e[2] => f = e
      BY SameAttempt
    <2>6. ASSUME NEW f \in Attempts
          PROVE  att'[f] \in Open <=> sched'[f[1]] = "running" /\ current'[f[1]] = f[2]
      <3>1. CASE f = e
        BY <2>2, <2>3, <3>1
      <3>2. CASE f # e /\ f[1] = e[1]
        BY <2>2, <2>3, <2>4, <2>5, <3>2
      <3>3. CASE f[1] # e[1]
        BY <2>2, <2>3, <3>3
      <3> QED
        BY <3>1, <3>2, <3>3
    <2>7. \A r \in Runs : sched'[r] = "running" => current'[r] \in Candidates
      BY <2>2
    <2> QED
      BY <2>6, <2>7
  <1>8. ASSUME NEW w \in Sweepers, NEW e \in Attempts, ClaimThrows(w, e)
        PROVE  LiveIsCurrent'
    BY <1>8 DEF ClaimThrows
  <1>9. ASSUME NEW e \in Attempts, ProvisionFails(e)
        PROVE  LiveIsCurrent'
    <2>1. att[e] \in Open
      BY <1>9 DEF ProvisionFails, IInv, AwaitsStayValid, SetupIsQueued
    <2> QED
      BY <1>9, <2>1, CompleteKeepsOneLive DEF ProvisionFails, Settled
  <1>10. ASSUME NEW e \in Attempts, DeadlineExhausted(e)
        PROVE  LiveIsCurrent'
    <2>1. att[e] \in Open
      BY <1>10 DEF DeadlineExhausted, IInv, AwaitsStayValid, SetupIsQueued
    <2> QED
      BY <1>10, <2>1, CompleteKeepsOneLive DEF DeadlineExhausted, Settled
  <1>11. ASSUME NEW e \in Attempts, ProvisionDone(e)
        PROVE  LiveIsCurrent'
    BY <1>11 DEF ProvisionDone
  <1>12. ASSUME NEW e \in Attempts, RecordStart(e)
        PROVE  LiveIsCurrent'
    BY <1>12 DEF RecordStart
  <1>13. ASSUME NEW e \in Attempts, StartUnavailable(e)
        PROVE  LiveIsCurrent'
    <2>1. att[e] \in Open
      BY <1>13 DEF StartUnavailable, IInv, AwaitsStayValid, SetupIsQueued
    <2> QED
      BY <1>13, <2>1, CompleteKeepsOneLive DEF StartUnavailable, Settled
  <1>14. ASSUME NEW e \in Attempts, StartFails(e)
        PROVE  LiveIsCurrent'
    <2>1. att[e] \in Open
      BY <1>14 DEF StartFails, IInv, AwaitsStayValid, SetupIsQueued
    <2> QED
      BY <1>14, <2>1, CompleteKeepsOneLive DEF StartFails, Settled
  <1>15. ASSUME NEW w \in Sweepers, SweepBegin(w)
        PROVE  LiveIsCurrent'
    BY <1>15 DEF SweepBegin
  <1>16. ASSUME NEW w \in Sweepers, SweepEnd(w)
        PROVE  LiveIsCurrent'
    BY <1>16 DEF SweepEnd
  <1>17. ASSUME NEW x \in Actors, NEW e \in Attempts, HearStatus(x, e)
        PROVE  LiveIsCurrent'
    BY <1>17 DEF HearStatus
  <1>18. ASSUME NEW x \in Actors, NEW e \in Attempts, HearNothing(x, e)
        PROVE  LiveIsCurrent'
    BY <1>18 DEF HearNothing
  <1>19. ASSUME NEW x \in Actors, FenceUnconfirmed(x)
        PROVE  LiveIsCurrent'
    <2>1. at[x] \in Attempts
      BY <1>19, AtAttempt DEF FenceUnconfirmed, HoldsAttempt
    <2> QED
      BY <1>19, <2>1 DEF FenceUnconfirmed, RestoreLease
  <1>20. ASSUME NEW w \in Sweepers, RestoreLive(w)
        PROVE  LiveIsCurrent'
    <2>1. at[w] \in Attempts
      BY <1>20, AtAttempt DEF RestoreLive, HoldsAttempt, Actors
    <2> QED
      BY <1>20, <2>1 DEF RestoreLive, RestoreLease
  <1>21. ASSUME NEW x \in Actors, RestoreThrows(x)
        PROVE  LiveIsCurrent'
    BY <1>21 DEF RestoreThrows
  <1>22. ASSUME NEW w \in Sweepers, RenewNotDue(w)
        PROVE  LiveIsCurrent'
    BY <1>22 DEF RenewNotDue
  <1>23. ASSUME NEW w \in Sweepers, RenewLease(w)
        PROVE  LiveIsCurrent'
    BY <1>23 DEF RenewLease
  <1>24. ASSUME NEW w \in Sweepers, RenewThrows(w)
        PROVE  LiveIsCurrent'
    BY <1>24 DEF RenewThrows
  <1>25. ASSUME NEW x \in Actors, FinishThrows(x)
        PROVE  LiveIsCurrent'
    BY <1>25 DEF FinishThrows
  <1>26. ASSUME NEW x \in Actors, FinishCheck(x)
        PROVE  LiveIsCurrent'
    BY <1>26 DEF FinishCheck
  <1>27. ASSUME NEW x \in Actors, FinishComplete(x)
        PROVE  LiveIsCurrent'
    <2>1. at[x] \in Attempts /\ backend[at[x]] \in Settled
      BY <1>27, AtAttempt, SettledIsFinished DEF FinishComplete, HoldsAttempt, IInv,
         AwaitsStayValid, FinishingIsFinished
    <2>2. PICK o \in Outcomes(at[x]) : CompleteAttempt(at[x], o[1], o[2])
      BY <1>27 DEF FinishComplete
    <2>3. o[1] \in Settled /\ o[2] \in BOOLEAN
      BY <2>1, OutcomeParts
    <2> QED
      BY <1>27, <2>1, <2>2, <2>3, CompleteKeepsOneLive DEF FinishComplete
  <1>28. ASSUME NEW x \in Actors, FinishTooLate(x)
        PROVE  LiveIsCurrent'
    BY <1>28 DEF FinishTooLate
  <1>29. ASSUME NEW x \in Actors, CrashAfterPublish(x)
        PROVE  LiveIsCurrent'
    BY <1>29 DEF CrashAfterPublish
  <1>30. ASSUME NEW e \in Attempts, BackendStarts(e)
        PROVE  LiveIsCurrent'
    BY <1>30 DEF BackendStarts
  <1>31. ASSUME NEW e \in Attempts, BackendFinishes(e)
        PROVE  LiveIsCurrent'
    BY <1>31 DEF BackendFinishes
  <1>32. ASSUME NEW e \in Attempts, BackendLosesTrack(e)
        PROVE  LiveIsCurrent'
    BY <1>32 DEF BackendLosesTrack
  <1>33. CASE Tick
    BY <1>33 DEF Tick
  <1>34. CASE Crash
    BY <1>34 DEF Crash
  <1>35. CASE Restart
    BY <1>35 DEF Restart
  <1>36. CASE UNCHANGED vars
    BY <1>36
  <1> QED
    BY <1>1, <1>2, <1>3, <1>4, <1>5, <1>6, <1>7, <1>8, <1>9, <1>10, <1>11, <1>12,
       <1>13, <1>14, <1>15, <1>16, <1>17, <1>18, <1>19, <1>20, <1>21, <1>22, <1>23, <1>24,
       <1>25, <1>26, <1>27, <1>28, <1>29, <1>30, <1>31, <1>32, <1>33, <1>34, <1>35, <1>36
    DEF Next, Client, Confirm, Sweep, Dispatch, Setup, Backend, Actors

THEOREM Invariance == Spec => []IInv
  <1>1. IInv /\ [Next]_vars => IInv'
    BY TypeStep, AwaitStep, OneLiveStep DEF IInv
  <1> QED
    BY InitIInv, <1>1, PTL DEF Spec

(* Every column of the store and every map of the service holds a value of  *)
(* its type, in every interleaving of the service's handlers with crashes.  *)
THEOREM TypeCorrect == Spec => []TypeOK
  <1>1. IInv => TypeOK
    BY DEF IInv
  <1> QED
    BY Invariance, <1>1, PTL

(* What reconcile(), cancel() and provisionAndStart carry over an await is  *)
(* still true of the store when they go on.                                 *)
THEOREM AwaitsValid == Spec => []AwaitsStayValid
  <1>1. IInv => AwaitsStayValid
    BY DEF IInv
  <1> QED
    BY Invariance, <1>1, PTL

(* A run is "running" exactly while its current candidate has the run's one *)
(* open attempt.                                                            *)
THEOREM OneLive == Spec => []OneLiveAttempt
  <1>1. IInv => OneLiveAttempt
    BY DEF IInv
  <1> QED
    BY Invariance, <1>1, PTL

LEMMA CompleteSettles ==
  ASSUME TypeOK, LiveIsCurrent, NEW e \in Attempts, att[e] \in Open, NEW status, NEW eligible,
         CompleteAttempt(e, status, eligible)
  PROVE  /\ \A f \in Attempts : att[f] \in Settled => att'[f] = att[f]
         /\ \A r \in Runs : sched[r] = "terminal" => sched'[r] = "terminal"
  <1>1. \A f \in Attempts : f # e => att'[f] = att[f]
    BY DEF CompleteAttempt, TypeOK, StoreTypeOK
  <1>2. att[e] \notin Settled
    BY DEF Open, Settled
  <1>3. sched[e[1]] # "terminal"
    BY DEF LiveIsCurrent
  <1>4. \A r \in Runs : r # e[1] => sched'[r] = sched[r]
    BY DEF CompleteAttempt, TypeOK, StoreTypeOK
  <1> QED
    BY <1>1, <1>2, <1>3, <1>4

(* Nothing reopens or rewrites a settled attempt or a terminal schedule,    *)
(* neither a late finisher, a stale sweep, an answer nor a restart.         *)
THEOREM SettledFinal == Spec => SettledIsFinal
  <1> DEFINE Final == /\ \A e \in Attempts : att[e] \in Settled => att'[e] = att[e]
                      /\ \A r \in Runs : sched[r] = "terminal" => sched'[r] = "terminal"
  <1>1. IInv /\ [Next]_vars => [Final]_vars
    <2> SUFFICES ASSUME IInv, [Next]_vars
                 PROVE  Final
      OBVIOUS
    <2> TypeOK /\ LiveIsCurrent
      BY OneLivePointwise DEF IInv
    <2> USE AttemptParts DEF TypeOK, StoreTypeOK, durable, memory, vars, scheduleVars
    <2>1. ASSUME NEW r \in Runs, StartRun(r)
          PROVE  Final
      BY <2>1 DEF StartRun, CreateExecutionSchedule
    <2>2. ASSUME NEW r \in Runs, CancelQueued(r)
          PROVE  Final
      BY <2>2, PrimaryAttempt DEF CancelQueued, CancelQueuedInside, Settled
    <2>3. ASSUME NEW r \in Runs, CancelRunning(r)
          PROVE  Final
      BY <2>3 DEF CancelRunning
    <2>4. ASSUME NEW r \in Runs, AnswerCancel(r)
          PROVE  Final
      BY <2>4, PrimaryAttempt DEF AnswerCancel, Answerable, CancelQueuedInside, Settled
    <2>5. ASSUME NEW r \in Runs, NEW i \in Candidates, AnswerCandidate(r, i)
          PROVE  Final
      BY <2>5 DEF AnswerCandidate, Answerable
    <2>6. ASSUME NEW x \in Sweepers \cup {"rpc"}, ClaimNothing(x)
          PROVE  Final
      BY <2>6, AskedIsQueued DEF ClaimNothing
    <2>7. ASSUME NEW x \in Sweepers \cup {"rpc"}, NEW e \in Attempts, ClaimCandidate(x, e)
          PROVE  Final
      BY <2>7, AskedIsQueued, SelectedIsQueued DEF ClaimCandidate, Settled
    <2>8. ASSUME NEW w \in Sweepers, NEW e \in Attempts, ClaimThrows(w, e)
          PROVE  Final
      BY <2>8 DEF ClaimThrows
    <2>9. ASSUME NEW e \in Attempts, ProvisionFails(e)
          PROVE  Final
      <3>1. att[e] \in Open
        BY <2>9 DEF ProvisionFails, IInv, AwaitsStayValid, SetupIsQueued, Open
      <3> QED
        BY <2>9, <3>1, CompleteSettles DEF ProvisionFails
    <2>10. ASSUME NEW e \in Attempts, DeadlineExhausted(e)
          PROVE  Final
      <3>1. att[e] \in Open
        BY <2>10 DEF DeadlineExhausted, IInv, AwaitsStayValid, SetupIsQueued, Open
      <3> QED
        BY <2>10, <3>1, CompleteSettles DEF DeadlineExhausted
    <2>11. ASSUME NEW e \in Attempts, ProvisionDone(e)
          PROVE  Final
      BY <2>11 DEF ProvisionDone
    <2>12. ASSUME NEW e \in Attempts, RecordStart(e)
          PROVE  Final
      BY <2>12 DEF RecordStart, Settled
    <2>13. ASSUME NEW e \in Attempts, StartUnavailable(e)
          PROVE  Final
      <3>1. att[e] \in Open
        BY <2>13 DEF StartUnavailable, IInv, AwaitsStayValid, SetupIsQueued, Open
      <3> QED
        BY <2>13, <3>1, CompleteSettles DEF StartUnavailable
    <2>14. ASSUME NEW e \in Attempts, StartFails(e)
          PROVE  Final
      <3>1. att[e] \in Open
        BY <2>14 DEF StartFails, IInv, AwaitsStayValid, SetupIsQueued, Open
      <3> QED
        BY <2>14, <3>1, CompleteSettles DEF StartFails
    <2>15. ASSUME NEW w \in Sweepers, SweepBegin(w)
          PROVE  Final
      BY <2>15 DEF SweepBegin
    <2>16. ASSUME NEW w \in Sweepers, SweepEnd(w)
          PROVE  Final
      BY <2>16 DEF SweepEnd
    <2>17. ASSUME NEW x \in Actors, NEW e \in Attempts, HearStatus(x, e)
          PROVE  Final
      BY <2>17 DEF HearStatus
    <2>18. ASSUME NEW x \in Actors, NEW e \in Attempts, HearNothing(x, e)
          PROVE  Final
      BY <2>18 DEF HearNothing
    <2>19. ASSUME NEW x \in Actors, FenceUnconfirmed(x)
          PROVE  Final
      BY <2>19 DEF FenceUnconfirmed, RestoreLease, Open, Settled
    <2>20. ASSUME NEW w \in Sweepers, RestoreLive(w)
          PROVE  Final
      BY <2>20 DEF RestoreLive, RestoreLease
    <2>21. ASSUME NEW x \in Actors, RestoreThrows(x)
          PROVE  Final
      BY <2>21 DEF RestoreThrows
    <2>22. ASSUME NEW w \in Sweepers, RenewNotDue(w)
          PROVE  Final
      BY <2>22 DEF RenewNotDue
    <2>23. ASSUME NEW w \in Sweepers, RenewLease(w)
          PROVE  Final
      BY <2>23 DEF RenewLease
    <2>24. ASSUME NEW w \in Sweepers, RenewThrows(w)
          PROVE  Final
      BY <2>24 DEF RenewThrows
    <2>25. ASSUME NEW x \in Actors, FinishThrows(x)
          PROVE  Final
      BY <2>25 DEF FinishThrows
    <2>26. ASSUME NEW x \in Actors, FinishCheck(x)
          PROVE  Final
      BY <2>26 DEF FinishCheck
    <2>27. ASSUME NEW x \in Actors, FinishComplete(x)
          PROVE  Final
      <3>1. at[x] \in Attempts /\ att[at[x]] \in Open
        BY <2>27, AtAttempt DEF FinishComplete, HoldsAttempt
      <3>2. PICK o \in Outcomes(at[x]) : CompleteAttempt(at[x], o[1], o[2])
        BY <2>27 DEF FinishComplete
      <3> QED
        BY <3>1, <3>2, CompleteSettles
    <2>28. ASSUME NEW x \in Actors, FinishTooLate(x)
          PROVE  Final
      BY <2>28 DEF FinishTooLate
    <2>29. ASSUME NEW x \in Actors, CrashAfterPublish(x)
          PROVE  Final
      BY <2>29 DEF CrashAfterPublish
    <2>30. ASSUME NEW e \in Attempts, BackendStarts(e)
          PROVE  Final
      BY <2>30 DEF BackendStarts
    <2>31. ASSUME NEW e \in Attempts, BackendFinishes(e)
          PROVE  Final
      BY <2>31 DEF BackendFinishes
    <2>32. ASSUME NEW e \in Attempts, BackendLosesTrack(e)
          PROVE  Final
      BY <2>32 DEF BackendLosesTrack
    <2>33. CASE Tick
      BY <2>33 DEF Tick
    <2>34. CASE Crash
      BY <2>34 DEF Crash
    <2>35. CASE Restart
      BY <2>35 DEF Restart
    <2>36. CASE UNCHANGED vars
      BY <2>36
    <2> QED
      BY <2>1, <2>2, <2>3, <2>4, <2>5, <2>6, <2>7, <2>8, <2>9, <2>10, <2>11, <2>12,
         <2>13, <2>14, <2>15, <2>16, <2>17, <2>18, <2>19, <2>20, <2>21, <2>22, <2>23, <2>24,
         <2>25, <2>26, <2>27, <2>28, <2>29, <2>30, <2>31, <2>32, <2>33, <2>34, <2>35, <2>36
      DEF Next, Client, Confirm, Sweep, Dispatch, Setup, Backend, Actors
  <1> QED
    BY Invariance, <1>1, PTL DEF Spec, SettledIsFinal


(* completeExecutionAttempt finds no membership of its run in a queue, and  *)
(* enters only candidates of a run it requeues.                             *)
LEMMA CompleteKeepsQueue ==
  ASSUME TypeOK, LiveIsCurrent, QueueMatchesSchedule, NEW e \in Attempts, att[e] \in Open,
         NEW status, NEW eligible, CompleteAttempt(e, status, eligible)
  PROVE  QueueMatchesSchedule'
  <1> DEFINE next == IF status = "failed" /\ eligible THEN Remaining(e) ELSE {}
  <1>1. \A f \in queue : f \in Attempts /\ f[1] \in Runs /\ f[1] # e[1] /\ f # e
    BY AttemptParts DEF LiveIsCurrent, QueueMatchesSchedule, TypeOK, StoreTypeOK
  <1>2. \A f \in next : f \in Attempts /\ f[1] = e[1] /\ f # e
    BY AttemptParts DEF Remaining, AttemptsOf, Candidates
  <1>3. /\ cand' = [f \in Attempts |->
                     IF f = e THEN (IF status = "succeeded" THEN "succeeded" ELSE "failed")
                     ELSE IF f \in next THEN "queued" ELSE cand[f]]
        /\ sched' = [sched EXCEPT ![e[1]] = IF next # {} THEN "queued" ELSE "terminal"]
        /\ queue' = queue \cup next
    BY DEF CompleteAttempt, Enqueue
  <1> HIDE DEF next
  <1>4. ASSUME NEW f \in queue
        PROVE  sched'[f[1]] = "queued" /\ cand'[f] = "queued"
    BY <1>1, <1>3 DEF QueueMatchesSchedule, TypeOK, StoreTypeOK
  <1>5. ASSUME NEW f \in next
        PROVE  sched'[f[1]] = "queued" /\ cand'[f] = "queued"
    BY <1>2, <1>3, AttemptParts DEF TypeOK, StoreTypeOK
  <1> QED
    BY <1>3, <1>4, <1>5 DEF QueueMatchesSchedule

LEMMA QueueStep == IInv /\ QueueMatchesSchedule /\ [Next]_vars => QueueMatchesSchedule'
  <1> SUFFICES ASSUME IInv, QueueMatchesSchedule, [Next]_vars
               PROVE  QueueMatchesSchedule'
    OBVIOUS
  <1> TypeOK /\ LiveIsCurrent
    BY OneLivePointwise DEF IInv
  <1> USE AttemptParts
      DEF TypeOK, StoreTypeOK, QueueMatchesSchedule, durable, memory, vars, scheduleVars
  <1>1. ASSUME NEW r \in Runs, StartRun(r)
        PROVE  QueueMatchesSchedule'
    BY <1>1 DEF StartRun, CreateExecutionSchedule, Enrolled, Enqueue, AttemptsOf
  <1>2. ASSUME NEW r \in Runs, CancelQueued(r)
        PROVE  QueueMatchesSchedule'
    BY <1>2, PrimaryAttempt DEF CancelQueued, CancelQueuedInside, Dequeue
  <1>3. ASSUME NEW r \in Runs, CancelRunning(r)
        PROVE  QueueMatchesSchedule'
    BY <1>3 DEF CancelRunning
  <1>4. ASSUME NEW r \in Runs, AnswerCancel(r)
        PROVE  QueueMatchesSchedule'
    BY <1>4, PrimaryAttempt DEF AnswerCancel, Answerable, CancelQueuedInside, Dequeue
  <1>5. ASSUME NEW r \in Runs, NEW i \in Candidates, AnswerCandidate(r, i)
        PROVE  QueueMatchesSchedule'
    <2>1. <<r, i>> \in Attempts /\ <<r, i>>[1] = r
      BY AttemptOf
    <2>2. \A f \in queue : f[1] # r
      BY <1>5 DEF AnswerCandidate, Answerable
    <2>3. queue' = queue \cup {<<r, i>>}
      BY <1>5 DEF AnswerCandidate, Enqueue
    <2>4. sched'[r] = "queued" /\ cand'[<<r, i>>] = "queued"
      BY <1>5, <2>1 DEF AnswerCandidate
    <2>5. \A f \in queue : sched'[f[1]] = sched[f[1]] /\ cand'[f] = cand[f]
      BY <1>5, <2>1, <2>2 DEF AnswerCandidate
    <2> QED
      BY <2>1, <2>3, <2>4, <2>5
  <1>6. ASSUME NEW x \in Sweepers \cup {"rpc"}, ClaimNothing(x)
        PROVE  QueueMatchesSchedule'
    BY <1>6 DEF ClaimNothing, Dequeue
  <1>7. ASSUME NEW x \in Sweepers \cup {"rpc"}, NEW e \in Attempts, ClaimCandidate(x, e)
        PROVE  QueueMatchesSchedule'
    BY <1>7 DEF ClaimCandidate, Dequeue
  <1>8. ASSUME NEW w \in Sweepers, NEW e \in Attempts, ClaimThrows(w, e)
        PROVE  QueueMatchesSchedule'
    BY <1>8 DEF ClaimThrows
  <1>9. ASSUME NEW e \in Attempts, ProvisionFails(e)
        PROVE  QueueMatchesSchedule'
    <2>1. att[e] \in Open
      BY <1>9 DEF ProvisionFails, IInv, AwaitsStayValid, SetupIsQueued, Open
    <2> QED
      BY <1>9, <2>1, CompleteKeepsQueue DEF ProvisionFails
  <1>10. ASSUME NEW e \in Attempts, DeadlineExhausted(e)
        PROVE  QueueMatchesSchedule'
    <2>1. att[e] \in Open
      BY <1>10 DEF DeadlineExhausted, IInv, AwaitsStayValid, SetupIsQueued, Open
    <2> QED
      BY <1>10, <2>1, CompleteKeepsQueue DEF DeadlineExhausted
  <1>11. ASSUME NEW e \in Attempts, ProvisionDone(e)
        PROVE  QueueMatchesSchedule'
    BY <1>11 DEF ProvisionDone
  <1>12. ASSUME NEW e \in Attempts, RecordStart(e)
        PROVE  QueueMatchesSchedule'
    BY <1>12 DEF RecordStart
  <1>13. ASSUME NEW e \in Attempts, StartUnavailable(e)
        PROVE  QueueMatchesSchedule'
    <2>1. att[e] \in Open
      BY <1>13 DEF StartUnavailable, IInv, AwaitsStayValid, SetupIsQueued, Open
    <2> QED
      BY <1>13, <2>1, CompleteKeepsQueue DEF StartUnavailable
  <1>14. ASSUME NEW e \in Attempts, StartFails(e)
        PROVE  QueueMatchesSchedule'
    <2>1. att[e] \in Open
      BY <1>14 DEF StartFails, IInv, AwaitsStayValid, SetupIsQueued, Open
    <2> QED
      BY <1>14, <2>1, CompleteKeepsQueue DEF StartFails
  <1>15. ASSUME NEW w \in Sweepers, SweepBegin(w)
        PROVE  QueueMatchesSchedule'
    BY <1>15 DEF SweepBegin
  <1>16. ASSUME NEW w \in Sweepers, SweepEnd(w)
        PROVE  QueueMatchesSchedule'
    BY <1>16 DEF SweepEnd
  <1>17. ASSUME NEW x \in Actors, NEW e \in Attempts, HearStatus(x, e)
        PROVE  QueueMatchesSchedule'
    BY <1>17 DEF HearStatus
  <1>18. ASSUME NEW x \in Actors, NEW e \in Attempts, HearNothing(x, e)
        PROVE  QueueMatchesSchedule'
    BY <1>18 DEF HearNothing
  <1>19. ASSUME NEW x \in Actors, FenceUnconfirmed(x)
        PROVE  QueueMatchesSchedule'
    BY <1>19 DEF FenceUnconfirmed, RestoreLease
  <1>20. ASSUME NEW w \in Sweepers, RestoreLive(w)
        PROVE  QueueMatchesSchedule'
    BY <1>20 DEF RestoreLive, RestoreLease
  <1>21. ASSUME NEW x \in Actors, RestoreThrows(x)
        PROVE  QueueMatchesSchedule'
    BY <1>21 DEF RestoreThrows
  <1>22. ASSUME NEW w \in Sweepers, RenewNotDue(w)
        PROVE  QueueMatchesSchedule'
    BY <1>22 DEF RenewNotDue
  <1>23. ASSUME NEW w \in Sweepers, RenewLease(w)
        PROVE  QueueMatchesSchedule'
    BY <1>23 DEF RenewLease
  <1>24. ASSUME NEW w \in Sweepers, RenewThrows(w)
        PROVE  QueueMatchesSchedule'
    BY <1>24 DEF RenewThrows
  <1>25. ASSUME NEW x \in Actors, FinishThrows(x)
        PROVE  QueueMatchesSchedule'
    BY <1>25 DEF FinishThrows
  <1>26. ASSUME NEW x \in Actors, FinishCheck(x)
        PROVE  QueueMatchesSchedule'
    BY <1>26 DEF FinishCheck
  <1>27. ASSUME NEW x \in Actors, FinishComplete(x)
        PROVE  QueueMatchesSchedule'
    <2>1. at[x] \in Attempts /\ att[at[x]] \in Open
      BY <1>27, AtAttempt DEF FinishComplete, HoldsAttempt
    <2>2. PICK o \in Outcomes(at[x]) : CompleteAttempt(at[x], o[1], o[2])
      BY <1>27 DEF FinishComplete
    <2> QED
      BY <2>1, <2>2, CompleteKeepsQueue
  <1>28. ASSUME NEW x \in Actors, FinishTooLate(x)
        PROVE  QueueMatchesSchedule'
    BY <1>28 DEF FinishTooLate
  <1>29. ASSUME NEW x \in Actors, CrashAfterPublish(x)
        PROVE  QueueMatchesSchedule'
    BY <1>29 DEF CrashAfterPublish
  <1>30. ASSUME NEW e \in Attempts, BackendStarts(e)
        PROVE  QueueMatchesSchedule'
    BY <1>30 DEF BackendStarts
  <1>31. ASSUME NEW e \in Attempts, BackendFinishes(e)
        PROVE  QueueMatchesSchedule'
    BY <1>31 DEF BackendFinishes
  <1>32. ASSUME NEW e \in Attempts, BackendLosesTrack(e)
        PROVE  QueueMatchesSchedule'
    BY <1>32 DEF BackendLosesTrack
  <1>33. CASE Tick
    BY <1>33 DEF Tick
  <1>34. CASE Crash
    BY <1>34 DEF Crash
  <1>35. CASE Restart
    BY <1>35 DEF Restart
  <1>36. CASE UNCHANGED vars
    BY <1>36
  <1> QED
    BY <1>1, <1>2, <1>3, <1>4, <1>5, <1>6, <1>7, <1>8, <1>9, <1>10, <1>11, <1>12,
       <1>13, <1>14, <1>15, <1>16, <1>17, <1>18, <1>19, <1>20, <1>21, <1>22, <1>23, <1>24,
       <1>25, <1>26, <1>27, <1>28, <1>29, <1>30, <1>31, <1>32, <1>33, <1>34, <1>35, <1>36
    DEF Next, Client, Confirm, Sweep, Dispatch, Setup, Backend, Actors

(* Every membership of an account queue is a queued candidate of a queued   *)
(* run: none outlives the claim, question, cancel or end of its run.        *)
THEOREM QueueMatches == Spec => []QueueMatchesSchedule
  <1>1. Init => QueueMatchesSchedule
    BY DEF Init, QueueMatchesSchedule
  <1> QED
    BY Invariance, <1>1, QueueStep, PTL DEF Spec


-----------------------------------------------------------------------------
(* Executions and leases: a run never has two executions at its providers, a *)
(* succeeded attempt has its artifact, and a serving daemon holds the lease   *)
(* of every execution it has recorded.                                     *)

Live(e) == backend[e] \in {"running", "recovery_required"}

(* An execution at a provider belongs to an open attempt, unless the run is *)
(* over (an attempt failed closed may leave one behind).                    *)
LiveIsAccounted ==
  \A e \in Attempts : Live(e) => att[e] \in Open \/ sched[e[1]] = "terminal"

(* completeExecutionAttempt goes to a fallback only from an execution that  *)
(* has ended or never began.                                                *)
LEMMA CompleteAccounts ==
  ASSUME TypeOK, LiveIsCurrent, LiveIsAccounted, NEW e \in Attempts, att[e] \in Open,
         NEW status, NEW eligible, CompleteAttempt(e, status, eligible),
         ~eligible \/ ~Live(e), UNCHANGED backend
  PROVE  LiveIsAccounted'
  <1> USE AttemptParts DEF TypeOK, StoreTypeOK, Live
  <1> DEFINE next == IF status = "failed" /\ eligible THEN Remaining(e) ELSE {}
  <1>1. /\ att' = [att EXCEPT ![e] = status]
        /\ sched' = [sched EXCEPT ![e[1]] = IF next # {} THEN "queued" ELSE "terminal"]
    BY DEF CompleteAttempt
  <1>2. ASSUME NEW f \in Attempts, Live(f)'
        PROVE  att'[f] \in Open \/ sched'[f[1]] = "terminal"
    <2>1. att[f] \in Open \/ sched[f[1]] = "terminal"
      BY <1>2 DEF LiveIsAccounted
    <2>2. CASE f = e
      <3>1. next = {}
        BY <1>2, <2>2
      <3> QED
        BY <1>1, <2>2, <3>1
    <2>3. CASE f # e /\ f[1] = e[1]
      BY <2>1, <2>3, SameAttempt DEF LiveIsCurrent
    <2>4. CASE f[1] # e[1]
      BY <1>1, <2>1, <2>4
    <2> QED
      BY <2>2, <2>3, <2>4
  <1> QED
    BY <1>2 DEF LiveIsAccounted

LEMMA AccountedStep == IInv /\ LiveIsAccounted /\ [Next]_vars => LiveIsAccounted'
  <1> SUFFICES ASSUME IInv, LiveIsAccounted, [Next]_vars
               PROVE  LiveIsAccounted'
    OBVIOUS
  <1> TypeOK /\ LiveIsCurrent
    BY OneLivePointwise DEF IInv
  <1> USE AttemptParts
      DEF TypeOK, StoreTypeOK, LiveIsAccounted, Live, durable, memory, vars, scheduleVars
  <1>1. ASSUME NEW r \in Runs, StartRun(r)
        PROVE  LiveIsAccounted'
    BY <1>1 DEF StartRun, CreateExecutionSchedule, LiveIsCurrent
  <1>2. ASSUME NEW r \in Runs, CancelQueued(r)
        PROVE  LiveIsAccounted'
    BY <1>2, PrimaryAttempt, CancelKeepsAttempts DEF CancelQueued, CancelQueuedInside, Open
  <1>3. ASSUME NEW r \in Runs, CancelRunning(r)
        PROVE  LiveIsAccounted'
    BY <1>3 DEF CancelRunning, Finished
  <1>4. ASSUME NEW r \in Runs, AnswerCancel(r)
        PROVE  LiveIsAccounted'
    BY <1>4, PrimaryAttempt, CancelKeepsAttempts DEF AnswerCancel, Answerable, CancelQueuedInside,
       Open
  <1>5. ASSUME NEW r \in Runs, NEW i \in Candidates, AnswerCandidate(r, i)
        PROVE  LiveIsAccounted'
    BY <1>5 DEF AnswerCandidate, Answerable
  <1>6. ASSUME NEW x \in Sweepers \cup {"rpc"}, ClaimNothing(x)
        PROVE  LiveIsAccounted'
    BY <1>6, AskedIsQueued DEF ClaimNothing
  <1>7. ASSUME NEW x \in Sweepers \cup {"rpc"}, NEW e \in Attempts, ClaimCandidate(x, e)
        PROVE  LiveIsAccounted'
    <2>1. sched[e[1]] = "queued" /\ e[1] \in Runs
      BY <1>7, SelectedIsQueued DEF ClaimCandidate
    <2> QED
      BY <1>7, <2>1, AskedIsQueued DEF ClaimCandidate, Open
  <1>8. ASSUME NEW w \in Sweepers, NEW e \in Attempts, ClaimThrows(w, e)
        PROVE  LiveIsAccounted'
    BY <1>8 DEF ClaimThrows
  <1>9. ASSUME NEW e \in Attempts, ProvisionFails(e)
        PROVE  LiveIsAccounted'
    <2>1. att[e] \in Open
      BY <1>9 DEF ProvisionFails, IInv, AwaitsStayValid, SetupIsQueued, Open
    <2> QED
      BY <1>9, <2>1, CompleteAccounts DEF ProvisionFails
  <1>10. ASSUME NEW e \in Attempts, DeadlineExhausted(e)
        PROVE  LiveIsAccounted'
    <2>1. att[e] \in Open
      BY <1>10 DEF DeadlineExhausted, IInv, AwaitsStayValid, SetupIsQueued, Open
    <2> QED
      BY <1>10, <2>1, CompleteAccounts DEF DeadlineExhausted
  <1>11. ASSUME NEW e \in Attempts, ProvisionDone(e)
        PROVE  LiveIsAccounted'
    BY <1>11 DEF ProvisionDone
  <1>12. ASSUME NEW e \in Attempts, RecordStart(e)
        PROVE  LiveIsAccounted'
    BY <1>12 DEF RecordStart, Open
  <1>13. ASSUME NEW e \in Attempts, StartUnavailable(e)
        PROVE  LiveIsAccounted'
    <2>1. att[e] \in Open
      BY <1>13 DEF StartUnavailable, IInv, AwaitsStayValid, SetupIsQueued, Open
    <2> QED
      BY <1>13, <2>1, CompleteAccounts DEF StartUnavailable
  <1>14. ASSUME NEW e \in Attempts, StartFails(e)
        PROVE  LiveIsAccounted'
    <2>1. att[e] \in Open
      BY <1>14 DEF StartFails, IInv, AwaitsStayValid, SetupIsQueued, Open
    <2> QED
      BY <1>14, <2>1, CompleteAccounts DEF StartFails
  <1>15. ASSUME NEW w \in Sweepers, SweepBegin(w)
        PROVE  LiveIsAccounted'
    BY <1>15 DEF SweepBegin
  <1>16. ASSUME NEW w \in Sweepers, SweepEnd(w)
        PROVE  LiveIsAccounted'
    BY <1>16 DEF SweepEnd
  <1>17. ASSUME NEW x \in Actors, NEW e \in Attempts, HearStatus(x, e)
        PROVE  LiveIsAccounted'
    BY <1>17 DEF HearStatus
  <1>18. ASSUME NEW x \in Actors, NEW e \in Attempts, HearNothing(x, e)
        PROVE  LiveIsAccounted'
    BY <1>18 DEF HearNothing
  <1>19. ASSUME NEW x \in Actors, FenceUnconfirmed(x)
        PROVE  LiveIsAccounted'
    <2>1. at[x] \in Attempts
      BY <1>19, AtAttempt DEF FenceUnconfirmed, HoldsAttempt
    <2> QED
      BY <1>19, <2>1 DEF FenceUnconfirmed, RestoreLease, Open
  <1>20. ASSUME NEW w \in Sweepers, RestoreLive(w)
        PROVE  LiveIsAccounted'
    <2>1. at[w] \in Attempts
      BY <1>20, AtAttempt DEF RestoreLive, HoldsAttempt, Actors
    <2> QED
      BY <1>20, <2>1 DEF RestoreLive, RestoreLease
  <1>21. ASSUME NEW x \in Actors, RestoreThrows(x)
        PROVE  LiveIsAccounted'
    BY <1>21 DEF RestoreThrows
  <1>22. ASSUME NEW w \in Sweepers, RenewNotDue(w)
        PROVE  LiveIsAccounted'
    BY <1>22 DEF RenewNotDue
  <1>23. ASSUME NEW w \in Sweepers, RenewLease(w)
        PROVE  LiveIsAccounted'
    BY <1>23 DEF RenewLease
  <1>24. ASSUME NEW w \in Sweepers, RenewThrows(w)
        PROVE  LiveIsAccounted'
    BY <1>24 DEF RenewThrows
  <1>25. ASSUME NEW x \in Actors, FinishThrows(x)
        PROVE  LiveIsAccounted'
    BY <1>25 DEF FinishThrows
  <1>26. ASSUME NEW x \in Actors, FinishCheck(x)
        PROVE  LiveIsAccounted'
    BY <1>26 DEF FinishCheck
  <1>27. ASSUME NEW x \in Actors, FinishComplete(x)
        PROVE  LiveIsAccounted'
    <2>1. at[x] \in Attempts /\ backend[at[x]] \in Finished
      BY <1>27, AtAttempt DEF FinishComplete, HoldsAttempt, IInv, AwaitsStayValid,
         FinishingIsFinished
    <2>2. PICK o \in Outcomes(at[x]) : CompleteAttempt(at[x], o[1], o[2])
      BY <1>27 DEF FinishComplete
    <2> QED
      BY <1>27, <2>1, <2>2, CompleteAccounts DEF FinishComplete, Finished
  <1>28. ASSUME NEW x \in Actors, FinishTooLate(x)
        PROVE  LiveIsAccounted'
    BY <1>28 DEF FinishTooLate
  <1>29. ASSUME NEW x \in Actors, CrashAfterPublish(x)
        PROVE  LiveIsAccounted'
    BY <1>29 DEF CrashAfterPublish
  <1>30. ASSUME NEW e \in Attempts, BackendStarts(e)
        PROVE  LiveIsAccounted'
    BY <1>30 DEF BackendStarts, IInv, AwaitsStayValid, SetupIsQueued, Open
  <1>31. ASSUME NEW e \in Attempts, BackendFinishes(e)
        PROVE  LiveIsAccounted'
    BY <1>31 DEF BackendFinishes
  <1>32. ASSUME NEW e \in Attempts, BackendLosesTrack(e)
        PROVE  LiveIsAccounted'
    BY <1>32 DEF BackendLosesTrack
  <1>33. CASE Tick
    BY <1>33 DEF Tick
  <1>34. CASE Crash
    BY <1>34 DEF Crash
  <1>35. CASE Restart
    BY <1>35 DEF Restart
  <1>36. CASE UNCHANGED vars
    BY <1>36
  <1> QED
    BY <1>1, <1>2, <1>3, <1>4, <1>5, <1>6, <1>7, <1>8, <1>9, <1>10, <1>11, <1>12,
       <1>13, <1>14, <1>15, <1>16, <1>17, <1>18, <1>19, <1>20, <1>21, <1>22, <1>23, <1>24,
       <1>25, <1>26, <1>27, <1>28, <1>29, <1>30, <1>31, <1>32, <1>33, <1>34, <1>35, <1>36
    DEF Next, Client, Confirm, Sweep, Dispatch, Setup, Backend, Actors

(* Only backend.start adds an execution, for an attempt that is its run's   *)
(* one open attempt.                                                        *)
LEMMA OneExecutionStep ==
  IInv /\ LiveIsAccounted /\ OneLiveExecutionPerRun /\ [Next]_vars => OneLiveExecutionPerRun'
  <1> SUFFICES ASSUME IInv, LiveIsAccounted, OneLiveExecutionPerRun, [Next]_vars
               PROVE  OneLiveExecutionPerRun'
    OBVIOUS
  <1> TypeOK /\ LiveIsCurrent
    BY OneLivePointwise DEF IInv
  <1> USE AttemptParts
      DEF TypeOK, StoreTypeOK, OneLiveExecutionPerRun, AttemptsOf, durable, memory, vars,
      scheduleVars
  <1>1. ASSUME NEW r \in Runs, StartRun(r)
        PROVE  OneLiveExecutionPerRun'
    BY <1>1 DEF StartRun
  <1>2. ASSUME NEW r \in Runs, CancelQueued(r)
        PROVE  OneLiveExecutionPerRun'
    BY <1>2 DEF CancelQueued
  <1>3. ASSUME NEW r \in Runs, CancelRunning(r)
        PROVE  OneLiveExecutionPerRun'
    BY <1>3 DEF CancelRunning, Finished
  <1>4. ASSUME NEW r \in Runs, AnswerCancel(r)
        PROVE  OneLiveExecutionPerRun'
    BY <1>4 DEF AnswerCancel
  <1>5. ASSUME NEW r \in Runs, NEW i \in Candidates, AnswerCandidate(r, i)
        PROVE  OneLiveExecutionPerRun'
    BY <1>5 DEF AnswerCandidate
  <1>6. ASSUME NEW x \in Sweepers \cup {"rpc"}, ClaimNothing(x)
        PROVE  OneLiveExecutionPerRun'
    BY <1>6 DEF ClaimNothing
  <1>7. ASSUME NEW x \in Sweepers \cup {"rpc"}, NEW e \in Attempts, ClaimCandidate(x, e)
        PROVE  OneLiveExecutionPerRun'
    BY <1>7 DEF ClaimCandidate
  <1>8. ASSUME NEW w \in Sweepers, NEW e \in Attempts, ClaimThrows(w, e)
        PROVE  OneLiveExecutionPerRun'
    BY <1>8 DEF ClaimThrows
  <1>9. ASSUME NEW e \in Attempts, ProvisionFails(e)
        PROVE  OneLiveExecutionPerRun'
    BY <1>9 DEF ProvisionFails
  <1>10. ASSUME NEW e \in Attempts, DeadlineExhausted(e)
        PROVE  OneLiveExecutionPerRun'
    BY <1>10 DEF DeadlineExhausted
  <1>11. ASSUME NEW e \in Attempts, ProvisionDone(e)
        PROVE  OneLiveExecutionPerRun'
    BY <1>11 DEF ProvisionDone
  <1>12. ASSUME NEW e \in Attempts, RecordStart(e)
        PROVE  OneLiveExecutionPerRun'
    BY <1>12 DEF RecordStart
  <1>13. ASSUME NEW e \in Attempts, StartUnavailable(e)
        PROVE  OneLiveExecutionPerRun'
    BY <1>13 DEF StartUnavailable
  <1>14. ASSUME NEW e \in Attempts, StartFails(e)
        PROVE  OneLiveExecutionPerRun'
    BY <1>14 DEF StartFails
  <1>15. ASSUME NEW w \in Sweepers, SweepBegin(w)
        PROVE  OneLiveExecutionPerRun'
    BY <1>15 DEF SweepBegin
  <1>16. ASSUME NEW w \in Sweepers, SweepEnd(w)
        PROVE  OneLiveExecutionPerRun'
    BY <1>16 DEF SweepEnd
  <1>17. ASSUME NEW x \in Actors, NEW e \in Attempts, HearStatus(x, e)
        PROVE  OneLiveExecutionPerRun'
    BY <1>17 DEF HearStatus
  <1>18. ASSUME NEW x \in Actors, NEW e \in Attempts, HearNothing(x, e)
        PROVE  OneLiveExecutionPerRun'
    BY <1>18 DEF HearNothing
  <1>19. ASSUME NEW x \in Actors, FenceUnconfirmed(x)
        PROVE  OneLiveExecutionPerRun'
    BY <1>19 DEF FenceUnconfirmed
  <1>20. ASSUME NEW w \in Sweepers, RestoreLive(w)
        PROVE  OneLiveExecutionPerRun'
    BY <1>20 DEF RestoreLive
  <1>21. ASSUME NEW x \in Actors, RestoreThrows(x)
        PROVE  OneLiveExecutionPerRun'
    BY <1>21 DEF RestoreThrows
  <1>22. ASSUME NEW w \in Sweepers, RenewNotDue(w)
        PROVE  OneLiveExecutionPerRun'
    BY <1>22 DEF RenewNotDue
  <1>23. ASSUME NEW w \in Sweepers, RenewLease(w)
        PROVE  OneLiveExecutionPerRun'
    BY <1>23 DEF RenewLease
  <1>24. ASSUME NEW w \in Sweepers, RenewThrows(w)
        PROVE  OneLiveExecutionPerRun'
    BY <1>24 DEF RenewThrows
  <1>25. ASSUME NEW x \in Actors, FinishThrows(x)
        PROVE  OneLiveExecutionPerRun'
    BY <1>25 DEF FinishThrows
  <1>26. ASSUME NEW x \in Actors, FinishCheck(x)
        PROVE  OneLiveExecutionPerRun'
    BY <1>26 DEF FinishCheck
  <1>27. ASSUME NEW x \in Actors, FinishComplete(x)
        PROVE  OneLiveExecutionPerRun'
    BY <1>27 DEF FinishComplete
  <1>28. ASSUME NEW x \in Actors, FinishTooLate(x)
        PROVE  OneLiveExecutionPerRun'
    BY <1>28 DEF FinishTooLate
  <1>29. ASSUME NEW x \in Actors, CrashAfterPublish(x)
        PROVE  OneLiveExecutionPerRun'
    BY <1>29 DEF CrashAfterPublish
  <1>30. ASSUME NEW e \in Attempts, BackendStarts(e)
        PROVE  OneLiveExecutionPerRun'
    <2>1. att[e] \in Open
      BY <1>30 DEF BackendStarts, IInv, AwaitsStayValid, SetupIsQueued, Open
    <2>2. sched[e[1]] = "running" /\ current[e[1]] = e[2]
      BY <2>1 DEF LiveIsCurrent
    <2>3. ASSUME NEW f \in Attempts, f[1] = e[1], Live(f)
          PROVE  f = e
      <3>1. att[f] \in Open
        BY <2>2, <2>3 DEF LiveIsAccounted
      <3>2. current[f[1]] = f[2]
        BY <3>1 DEF LiveIsCurrent
      <3> QED
        BY <2>2, <2>3, <3>2, SameAttempt
    <2> QED
      BY <1>30, <2>3 DEF BackendStarts, Live
  <1>31. ASSUME NEW e \in Attempts, BackendFinishes(e)
        PROVE  OneLiveExecutionPerRun'
    BY <1>31 DEF BackendFinishes
  <1>32. ASSUME NEW e \in Attempts, BackendLosesTrack(e)
        PROVE  OneLiveExecutionPerRun'
    BY <1>32 DEF BackendLosesTrack
  <1>33. CASE Tick
    BY <1>33 DEF Tick
  <1>34. CASE Crash
    BY <1>34 DEF Crash
  <1>35. CASE Restart
    BY <1>35 DEF Restart
  <1>36. CASE UNCHANGED vars
    BY <1>36
  <1> QED
    BY <1>1, <1>2, <1>3, <1>4, <1>5, <1>6, <1>7, <1>8, <1>9, <1>10, <1>11, <1>12,
       <1>13, <1>14, <1>15, <1>16, <1>17, <1>18, <1>19, <1>20, <1>21, <1>22, <1>23, <1>24,
       <1>25, <1>26, <1>27, <1>28, <1>29, <1>30, <1>31, <1>32, <1>33, <1>34, <1>35, <1>36
    DEF Next, Client, Confirm, Sweep, Dispatch, Setup, Backend, Actors

(* D3 for every chain of candidates: however starts, fallbacks, lost        *)
(* replies, crashes and late finishers interleave, a run has at most one    *)
(* live execution at its providers.                                         *)
THEOREM OneExecution == Spec => []OneLiveExecutionPerRun
  <1>1. Init => LiveIsAccounted /\ OneLiveExecutionPerRun
    BY DEF Init, LiveIsAccounted, Live, OneLiveExecutionPerRun, AttemptsOf
  <1> QED
    BY Invariance, <1>1, AccountedStep, OneExecutionStep, PTL DEF Spec

LEMMA PublishedStep == IInv /\ SucceededIsPublished /\ [Next]_vars => SucceededIsPublished'
  <1> SUFFICES ASSUME IInv, SucceededIsPublished, [Next]_vars
               PROVE  SucceededIsPublished'
    OBVIOUS
  <1> TypeOK
    BY DEF IInv
  <1> USE AttemptParts
      DEF TypeOK, StoreTypeOK, SucceededIsPublished, durable, memory, vars, scheduleVars
  <1>1. ASSUME NEW r \in Runs, StartRun(r)
        PROVE  SucceededIsPublished'
    BY <1>1 DEF StartRun
  <1>2. ASSUME NEW r \in Runs, CancelQueued(r)
        PROVE  SucceededIsPublished'
    BY <1>2, PrimaryAttempt DEF CancelQueued, CancelQueuedInside
  <1>3. ASSUME NEW r \in Runs, CancelRunning(r)
        PROVE  SucceededIsPublished'
    BY <1>3 DEF CancelRunning
  <1>4. ASSUME NEW r \in Runs, AnswerCancel(r)
        PROVE  SucceededIsPublished'
    BY <1>4, PrimaryAttempt DEF AnswerCancel, CancelQueuedInside
  <1>5. ASSUME NEW r \in Runs, NEW i \in Candidates, AnswerCandidate(r, i)
        PROVE  SucceededIsPublished'
    BY <1>5 DEF AnswerCandidate
  <1>6. ASSUME NEW x \in Sweepers \cup {"rpc"}, ClaimNothing(x)
        PROVE  SucceededIsPublished'
    BY <1>6 DEF ClaimNothing
  <1>7. ASSUME NEW x \in Sweepers \cup {"rpc"}, NEW e \in Attempts, ClaimCandidate(x, e)
        PROVE  SucceededIsPublished'
    BY <1>7 DEF ClaimCandidate
  <1>8. ASSUME NEW w \in Sweepers, NEW e \in Attempts, ClaimThrows(w, e)
        PROVE  SucceededIsPublished'
    BY <1>8 DEF ClaimThrows
  <1>9. ASSUME NEW e \in Attempts, ProvisionFails(e)
        PROVE  SucceededIsPublished'
    BY <1>9 DEF ProvisionFails, CompleteAttempt
  <1>10. ASSUME NEW e \in Attempts, DeadlineExhausted(e)
        PROVE  SucceededIsPublished'
    BY <1>10 DEF DeadlineExhausted, CompleteAttempt
  <1>11. ASSUME NEW e \in Attempts, ProvisionDone(e)
        PROVE  SucceededIsPublished'
    BY <1>11 DEF ProvisionDone
  <1>12. ASSUME NEW e \in Attempts, RecordStart(e)
        PROVE  SucceededIsPublished'
    BY <1>12 DEF RecordStart
  <1>13. ASSUME NEW e \in Attempts, StartUnavailable(e)
        PROVE  SucceededIsPublished'
    BY <1>13 DEF StartUnavailable, CompleteAttempt
  <1>14. ASSUME NEW e \in Attempts, StartFails(e)
        PROVE  SucceededIsPublished'
    BY <1>14 DEF StartFails, CompleteAttempt
  <1>15. ASSUME NEW w \in Sweepers, SweepBegin(w)
        PROVE  SucceededIsPublished'
    BY <1>15 DEF SweepBegin
  <1>16. ASSUME NEW w \in Sweepers, SweepEnd(w)
        PROVE  SucceededIsPublished'
    BY <1>16 DEF SweepEnd
  <1>17. ASSUME NEW x \in Actors, NEW e \in Attempts, HearStatus(x, e)
        PROVE  SucceededIsPublished'
    BY <1>17 DEF HearStatus
  <1>18. ASSUME NEW x \in Actors, NEW e \in Attempts, HearNothing(x, e)
        PROVE  SucceededIsPublished'
    BY <1>18 DEF HearNothing
  <1>19. ASSUME NEW x \in Actors, FenceUnconfirmed(x)
        PROVE  SucceededIsPublished'
    <2>1. at[x] \in Attempts
      BY <1>19, AtAttempt DEF FenceUnconfirmed, HoldsAttempt
    <2> QED
      BY <1>19, <2>1 DEF FenceUnconfirmed, RestoreLease
  <1>20. ASSUME NEW w \in Sweepers, RestoreLive(w)
        PROVE  SucceededIsPublished'
    <2>1. at[w] \in Attempts
      BY <1>20, AtAttempt DEF RestoreLive, HoldsAttempt, Actors
    <2> QED
      BY <1>20, <2>1 DEF RestoreLive, RestoreLease
  <1>21. ASSUME NEW x \in Actors, RestoreThrows(x)
        PROVE  SucceededIsPublished'
    BY <1>21 DEF RestoreThrows
  <1>22. ASSUME NEW w \in Sweepers, RenewNotDue(w)
        PROVE  SucceededIsPublished'
    BY <1>22 DEF RenewNotDue
  <1>23. ASSUME NEW w \in Sweepers, RenewLease(w)
        PROVE  SucceededIsPublished'
    BY <1>23 DEF RenewLease
  <1>24. ASSUME NEW w \in Sweepers, RenewThrows(w)
        PROVE  SucceededIsPublished'
    BY <1>24 DEF RenewThrows
  <1>25. ASSUME NEW x \in Actors, FinishThrows(x)
        PROVE  SucceededIsPublished'
    BY <1>25 DEF FinishThrows
  <1>26. ASSUME NEW x \in Actors, FinishCheck(x)
        PROVE  SucceededIsPublished'
    BY <1>26 DEF FinishCheck
  <1>27. ASSUME NEW x \in Actors, FinishComplete(x)
        PROVE  SucceededIsPublished'
    <2>1. at[x] \in Attempts
      BY <1>27, AtAttempt DEF FinishComplete, HoldsAttempt
    <2>2. PICK o \in Outcomes(at[x]) :
            /\ CompleteAttempt(at[x], o[1], o[2])
            /\ published' = IF o[1] = "succeeded" THEN published \cup {at[x][1]} ELSE published
      BY <1>27 DEF FinishComplete
    <2>3. att' = [att EXCEPT ![at[x]] = o[1]]
      BY <2>2 DEF CompleteAttempt
    <2> QED
      BY <2>1, <2>2, <2>3
  <1>28. ASSUME NEW x \in Actors, FinishTooLate(x)
        PROVE  SucceededIsPublished'
    BY <1>28 DEF FinishTooLate
  <1>29. ASSUME NEW x \in Actors, CrashAfterPublish(x)
        PROVE  SucceededIsPublished'
    BY <1>29 DEF CrashAfterPublish
  <1>30. ASSUME NEW e \in Attempts, BackendStarts(e)
        PROVE  SucceededIsPublished'
    BY <1>30 DEF BackendStarts
  <1>31. ASSUME NEW e \in Attempts, BackendFinishes(e)
        PROVE  SucceededIsPublished'
    BY <1>31 DEF BackendFinishes
  <1>32. ASSUME NEW e \in Attempts, BackendLosesTrack(e)
        PROVE  SucceededIsPublished'
    BY <1>32 DEF BackendLosesTrack
  <1>33. CASE Tick
    BY <1>33 DEF Tick
  <1>34. CASE Crash
    BY <1>34 DEF Crash
  <1>35. CASE Restart
    BY <1>35 DEF Restart
  <1>36. CASE UNCHANGED vars
    BY <1>36
  <1> QED
    BY <1>1, <1>2, <1>3, <1>4, <1>5, <1>6, <1>7, <1>8, <1>9, <1>10, <1>11, <1>12,
       <1>13, <1>14, <1>15, <1>16, <1>17, <1>18, <1>19, <1>20, <1>21, <1>22, <1>23, <1>24,
       <1>25, <1>26, <1>27, <1>28, <1>29, <1>30, <1>31, <1>32, <1>33, <1>34, <1>35, <1>36
    DEF Next, Client, Confirm, Sweep, Dispatch, Setup, Backend, Actors

(* An attempt the store records as succeeded has its artifact, also when    *)
(* the process dies between the artifact's transaction and the attempt's.   *)
THEOREM SucceededPublished == Spec => []SucceededIsPublished
  <1>1. Init => SucceededIsPublished
    BY DEF Init, SucceededIsPublished
  <1> QED
    BY Invariance, <1>1, PublishedStep, PTL DEF Spec

-----------------------------------------------------------------------------
(* The control of a daemon that restarts.                                   *)

(* A process that has ended runs nothing and remembers nothing.             *)
DownIsIdle ==
  phase = "down" =>
    /\ \A x \in Actors : pc[x] = "idle"
    /\ \A e \in Attempts : setup[e] = "idle" /\ known[e] = 0

(* Until the startup reconcile() is over it is alone: it works through the  *)
(* attempts it listed, remembers no lease of those still on its list, and   *)
(* dispatches once the list is empty.                                       *)
BootAlone ==
  phase = "recovering" =>
    /\ pc[Boot] # "idle"
    /\ \A x \in Actors : x # Boot => pc[x] = "idle"

BootListed ==
  phase = "recovering" =>
    /\ pc[Boot] \in {"dispatch", "setup"} => \A e \in Attempts : seen[Boot][e] = "none"
    /\ pc[Boot] \in HoldsAttempt => seen[Boot][at[Boot]] # "none"

BootDrives ==
  phase = "recovering" =>
    \A e \in Attempts : setup[e] # "idle" => driver[e] = Boot /\ pc[Boot] \in {"dispatch", "setup"}

PendingUnknown ==
  phase = "recovering" => \A e \in Attempts : seen[Boot][e] # "none" => known[e] = 0

StartupInv == DownIsIdle /\ BootAlone /\ BootListed /\ BootDrives /\ PendingUnknown

LEMMA StartupFrame == StartupInv /\ UNCHANGED memory => StartupInv'
  BY DEF memory, StartupInv, DownIsIdle, BootAlone, BootListed, BootDrives, PendingUnknown

LEMMA EndsKeepStartup == ProcessEnds => StartupInv'
  BY DEF ProcessEnds, StartupInv, DownIsIdle, BootAlone, BootListed, BootDrives, PendingUnknown

LEMMA ThrowKeepsStartup ==
  ASSUME TypeOK, StartupInv, NEW x \in Actors, pc[x] # "idle", Throw(x)
  PROVE  StartupInv'
  <1>1. CASE x \in Sweepers
    BY <1>1, EndsKeepStartup DEF Throw
  <1>2. CASE x \notin Sweepers
    <2>1. x # Boot /\ Boot \in Actors
      BY <1>2 DEF Actors
    <2> QED
      BY <1>2, <2>1 DEF Throw, TypeOK, ProcessTypeOK, StartupInv, DownIsIdle, BootAlone,
         BootListed,
                        BootDrives, PendingUnknown
  <1> QED
    BY <1>1, <1>2

(* The sweep or the cancel is done with its attempt: known may only have    *)
(* changed for that one.                                                    *)
LEMMA ProceedKeepsStartup ==
  ASSUME TypeOK, StartupInv, NEW x \in Actors, pc[x] \in HoldsAttempt, at[x] \in Attempts, Proceed(x),
         UNCHANGED <<phase, setup, driver>>, known' \in [Attempts -> Nat],
         \A e \in Attempts : e # at[x] => known'[e] = known[e]
  PROVE  StartupInv'
  <1> USE DEF TypeOK, ProcessTypeOK, StartupInv, DownIsIdle, BootAlone, BootListed, BootDrives,
              PendingUnknown, HoldsAttempt
  <1>1. phase # "down"
    OBVIOUS
  <1>2. CASE phase = "recovering"
    <2>1. x = Boot /\ x \in Sweepers /\ SweepNext(x)
      BY <1>2 DEF Proceed
    <2>2. pc'[x] = "sweep" /\ \A y \in Actors : y # x => pc'[y] = pc[y]
      BY <2>1 DEF SweepNext
    <2>3. seen'[x][at[x]] = "none" /\ \A e \in Attempts : e # at[x] => seen'[x][e] = seen[x][e]
      BY <2>1 DEF SweepNext
    <2>4. \A e \in Attempts : setup'[e] = "idle"
      BY <1>2, <2>1
    <2>5. \A e \in Attempts : seen'[Boot][e] # "none" => known'[e] = 0
      BY <1>2, <2>1, <2>3
    <2> QED
      BY <1>2, <2>1, <2>2, <2>4, <2>5
  <1>3. CASE phase = "serving"
    BY <1>3
  <1> QED
    BY <1>1, <1>2, <1>3

LEMMA SetupReturnsKeepsStartup ==
  ASSUME TypeOK, StartupInv, NEW e \in Attempts, setup[e] # "idle", SetupReturns(e),
         known' \in [Attempts -> Nat], \A f \in Attempts : f # e => known'[f] = known[f]
  PROVE  StartupInv'
  <1> USE DEF TypeOK, ProcessTypeOK, StartupInv, DownIsIdle, BootAlone, BootListed, BootDrives,
              PendingUnknown, HoldsAttempt
  <1>1. phase # "down" /\ phase' = phase
    BY DEF SetupReturns
  <1>2. CASE phase = "recovering"
    <2>1. driver[e] = Boot /\ Boot \in Sweepers /\ Boot \in Actors
      BY <1>2 DEF Actors
    <2>2. pc'[Boot] = "dispatch" /\ \A y \in Actors : y # Boot => pc'[y] = pc[y]
      BY <2>1 DEF SetupReturns
    <2>3. seen' = seen /\ \A f \in Attempts : seen[Boot][f] = "none"
      BY <1>2 DEF SetupReturns
    <2>4. setup'[e] = "idle" /\ \A f \in Attempts : f # e => setup'[f] = setup[f] /\ driver'[f] = driver[f]
      BY DEF SetupReturns
    <2> QED
      BY <1>1, <1>2, <2>1, <2>2, <2>3, <2>4
  <1>3. CASE phase = "serving"
    BY <1>1, <1>3
  <1> QED
    BY <1>1, <1>2, <1>3

LEMMA SetupThrowsKeepsStartup ==
  ASSUME TypeOK, StartupInv, NEW e \in Attempts, setup[e] # "idle", SetupThrows(e)
  PROVE  StartupInv'
  <1>1. CASE driver[e] \in Sweepers
    BY <1>1, EndsKeepStartup DEF SetupThrows
  <1>2. CASE driver[e] \notin Sweepers
    BY <1>2, SetupReturnsKeepsStartup DEF SetupThrows, TypeOK, ProcessTypeOK
  <1> QED
    BY <1>1, <1>2

LEMMA StartupStep == IInv /\ StartupInv /\ [Next]_vars => StartupInv'
  <1> SUFFICES ASSUME IInv, StartupInv, [Next]_vars
               PROVE  StartupInv'
    OBVIOUS
  <1> TypeOK
    BY DEF IInv
  <1>a. Boot \in Sweepers /\ Boot \in Actors /\ Boot \notin Runs
    BY DEF Actors
  <1>1. ASSUME NEW r \in Runs, StartRun(r)
        PROVE  StartupInv'
    BY <1>1, StartupFrame DEF StartRun, memory
  <1>2. ASSUME NEW r \in Runs, CancelQueued(r)
        PROVE  StartupInv'
    BY <1>2, StartupFrame DEF CancelQueued, memory
  <1>3. ASSUME NEW r \in Runs, CancelRunning(r)
        PROVE  StartupInv'
    BY <1>3, <1>a DEF CancelRunning, TypeOK, ProcessTypeOK, StartupInv, DownIsIdle, BootAlone,
       BootListed, BootDrives, PendingUnknown, Actors
  <1>4. ASSUME NEW r \in Runs, AnswerCancel(r)
        PROVE  StartupInv'
    BY <1>4, StartupFrame DEF AnswerCancel, memory
  <1>5. ASSUME NEW r \in Runs, NEW i \in Candidates, AnswerCandidate(r, i)
        PROVE  StartupInv'
    BY <1>5, StartupFrame DEF AnswerCandidate, memory
  <1>6. ASSUME NEW x \in Sweepers \cup {"rpc"}, ClaimNothing(x)
        PROVE  StartupInv'
    <2>1. CASE x \in Sweepers
      BY <1>6, <2>1 DEF ClaimNothing, MayDispatch, TypeOK, ProcessTypeOK, StartupInv, DownIsIdle,
         BootAlone, BootListed, BootDrives, PendingUnknown
    <2>2. CASE x = "rpc"
      BY <1>6, <2>2 DEF ClaimNothing, MayDispatch, TypeOK, ProcessTypeOK, StartupInv, DownIsIdle,
         BootAlone, BootListed, BootDrives, PendingUnknown
    <2> QED
      BY <2>1, <2>2
  <1>7. ASSUME NEW x \in Sweepers \cup {"rpc"}, NEW e \in Attempts, ClaimCandidate(x, e)
        PROVE  StartupInv'
    <2>1. phase' = phase /\ seen' = seen /\ at' = at /\ known' = known
      BY <1>7 DEF ClaimCandidate
    <2>2. CASE x = "rpc"
      BY <1>7, <2>1, <2>2 DEF ClaimCandidate, MayDispatch, TypeOK, ProcessTypeOK, StartupInv,
         DownIsIdle, BootAlone, BootListed, BootDrives, PendingUnknown
    <2>3. CASE x \in Sweepers
      <3>1. pc[x] = "dispatch" /\ pc' = [pc EXCEPT ![x] = "setup"]
        BY <1>7, <2>3 DEF ClaimCandidate, MayDispatch
      <3>2. phase # "down" /\ (phase = "recovering" => x = Boot)
        BY <2>3, <3>1 DEF StartupInv, DownIsIdle, BootAlone, Actors
      <3>3. setup' = [setup EXCEPT ![e] = "provision"] /\ driver' = [driver EXCEPT ![e] = x]
        BY <1>7 DEF ClaimCandidate
      <3> QED
        BY <1>a, <2>1, <3>1, <3>2, <3>3 DEF HoldsAttempt, TypeOK, ProcessTypeOK, StartupInv,
           DownIsIdle, BootAlone, BootListed, BootDrives, PendingUnknown
    <2> QED
      BY <2>2, <2>3
  <1>8. ASSUME NEW w \in Sweepers, NEW e \in Attempts, ClaimThrows(w, e)
        PROVE  StartupInv'
    BY <1>8, EndsKeepStartup DEF ClaimThrows
  <1>9. ASSUME NEW e \in Attempts, ProvisionFails(e)
        PROVE  StartupInv'
    BY <1>9, SetupThrowsKeepsStartup DEF ProvisionFails
  <1>10. ASSUME NEW e \in Attempts, DeadlineExhausted(e)
        PROVE  StartupInv'
    BY <1>10, SetupReturnsKeepsStartup DEF DeadlineExhausted, TypeOK, ProcessTypeOK
  <1>11. ASSUME NEW e \in Attempts, ProvisionDone(e)
        PROVE  StartupInv'
    BY <1>11 DEF ProvisionDone, TypeOK, ProcessTypeOK, StartupInv, DownIsIdle, BootAlone,
       BootListed, BootDrives, PendingUnknown
  <1>12. ASSUME NEW e \in Attempts, RecordStart(e)
        PROVE  StartupInv'
    BY <1>12, SetupReturnsKeepsStartup DEF RecordStart, TypeOK, ProcessTypeOK
  <1>13. ASSUME NEW e \in Attempts, StartUnavailable(e)
        PROVE  StartupInv'
    BY <1>13, SetupReturnsKeepsStartup DEF StartUnavailable, TypeOK, ProcessTypeOK
  <1>14. ASSUME NEW e \in Attempts, StartFails(e)
        PROVE  StartupInv'
    BY <1>14, SetupThrowsKeepsStartup DEF StartFails
  <1>15. ASSUME NEW w \in Sweepers, SweepBegin(w)
        PROVE  StartupInv'
    BY <1>15 DEF SweepBegin, TypeOK, ProcessTypeOK, StartupInv, DownIsIdle, BootAlone, BootListed,
       BootDrives, PendingUnknown
  <1>16. ASSUME NEW w \in Sweepers, SweepEnd(w)
        PROVE  StartupInv'
    BY <1>16, <1>a DEF SweepEnd, HoldsAttempt, TypeOK, ProcessTypeOK, StartupInv, DownIsIdle,
       BootAlone, BootListed, BootDrives, PendingUnknown, Actors
  <1>17. ASSUME NEW x \in Actors, NEW e \in Attempts, HearStatus(x, e)
        PROVE  StartupInv'
    <2>1. phase' = phase /\ UNCHANGED <<seen, known, setup, driver>>
      BY <1>17 DEF HearStatus
    <2>2. pc[x] # "idle" /\ phase # "down" /\ (phase = "recovering" => x = Boot)
      BY <1>17 DEF HearStatus, StartupInv, DownIsIdle, BootAlone
    <2>3. CASE phase = "recovering"
      <3>1. x = Boot /\ pc[x] = "sweep" /\ seen[x][e] # "none"
        BY <1>17, <1>a, <2>2, <2>3 DEF HearStatus
      <3>2. pc' = [pc EXCEPT ![x] = Reaction(x, e)] /\ Reaction(x, e) \in {"check", "lost", "live"}
        BY <1>17, <1>a, <3>1 DEF HearStatus, Reaction
      <3>3. at'[x] = e
        BY <1>17, <3>2 DEF HearStatus, TypeOK, ProcessTypeOK
      <3> QED
        BY <1>a, <2>1, <3>1, <3>2, <3>3 DEF HoldsAttempt, TypeOK, ProcessTypeOK, StartupInv,
           DownIsIdle, BootAlone, BootListed, BootDrives, PendingUnknown
    <2> QED
      BY <2>1, <2>2, <2>3 DEF TypeOK, ProcessTypeOK, StartupInv, DownIsIdle, BootAlone,
         BootListed, BootDrives, PendingUnknown
  <1>18. ASSUME NEW x \in Actors, NEW e \in Attempts, HearNothing(x, e)
        PROVE  StartupInv'
    <2>1. phase' = phase /\ UNCHANGED <<seen, known, setup, driver>>
      BY <1>18 DEF HearNothing
    <2>2. pc[x] # "idle" /\ phase # "down" /\ (phase = "recovering" => x = Boot)
      BY <1>18 DEF HearNothing, StartupInv, DownIsIdle, BootAlone
    <2>3. CASE phase = "recovering"
      <3>1. x = Boot /\ pc[x] = "sweep" /\ seen[x][e] # "none"
        BY <1>18, <1>a, <2>2, <2>3 DEF HearNothing
      <3>2. pc' = [pc EXCEPT ![x] = "unreachable"]
        BY <1>18, <1>a, <3>1 DEF HearNothing
      <3>3. at'[x] = e
        BY <1>18, <3>2 DEF HearNothing, TypeOK, ProcessTypeOK
      <3> QED
        BY <1>a, <2>1, <3>1, <3>2, <3>3 DEF HoldsAttempt, TypeOK, ProcessTypeOK, StartupInv,
           DownIsIdle, BootAlone, BootListed, BootDrives, PendingUnknown
    <2> QED
      BY <2>1, <2>2, <2>3 DEF TypeOK, ProcessTypeOK, StartupInv, DownIsIdle, BootAlone,
         BootListed, BootDrives, PendingUnknown
  <1>19. ASSUME NEW x \in Actors, FenceUnconfirmed(x)
        PROVE  StartupInv'
    <2>1. at[x] \in Attempts /\ pc[x] \in HoldsAttempt
      BY <1>19, AtAttempt DEF FenceUnconfirmed, HoldsAttempt, Actors
    <2>2. known' \in [Attempts -> Nat] /\ \A e \in Attempts : e # at[x] => known'[e] = known[e]
      BY <1>19, <2>1 DEF FenceUnconfirmed, TypeOK, ProcessTypeOK, StoreTypeOK, RestoreLease
    <2> QED
      BY <1>19, <2>1, <2>2, ProceedKeepsStartup DEF FenceUnconfirmed, RestoreLease
  <1>20. ASSUME NEW w \in Sweepers, RestoreLive(w)
        PROVE  StartupInv'
    <2>1. at[w] \in Attempts /\ pc[w] \in HoldsAttempt
      BY <1>20, AtAttempt DEF RestoreLive, HoldsAttempt, Actors
    <2>2. known' \in [Attempts -> Nat] /\ \A e \in Attempts : e # at[w] => known'[e] = known[e]
      BY <1>20, <2>1 DEF RestoreLive, TypeOK, ProcessTypeOK, StoreTypeOK, RestoreLease
    <2> QED
      BY <1>20, <2>1, <2>2, ProceedKeepsStartup DEF RestoreLive, RestoreLease, Proceed, Actors
  <1>21. ASSUME NEW x \in Actors, RestoreThrows(x)
        PROVE  StartupInv'
    BY <1>21, ThrowKeepsStartup DEF RestoreThrows
  <1>22. ASSUME NEW w \in Sweepers, RenewNotDue(w)
        PROVE  StartupInv'
    <2>1. at[w] \in Attempts /\ pc[w] \in HoldsAttempt
      BY <1>22, AtAttempt DEF RenewNotDue, HoldsAttempt, Actors
    <2> QED
      BY <1>22, <2>1, ProceedKeepsStartup DEF RenewNotDue, TypeOK, ProcessTypeOK, Proceed, Actors
  <1>23. ASSUME NEW w \in Sweepers, RenewLease(w)
        PROVE  StartupInv'
    <2>1. at[w] \in Attempts /\ pc[w] \in HoldsAttempt
      BY <1>23, AtAttempt DEF RenewLease, RenewDue, HoldsAttempt, Actors
    <2>2. known' \in [Attempts -> Nat] /\ \A e \in Attempts : e # at[w] => known'[e] = known[e]
      BY <1>23, <2>1 DEF RenewLease, RenewDue, TypeOK, ProcessTypeOK, StoreTypeOK
    <2> QED
      BY <1>23, <2>1, <2>2, ProceedKeepsStartup DEF RenewLease, RenewDue, Proceed, Actors
  <1>24. ASSUME NEW w \in Sweepers, RenewThrows(w)
        PROVE  StartupInv'
    BY <1>24, ThrowKeepsStartup DEF RenewThrows, RenewDue, Actors
  <1>25. ASSUME NEW x \in Actors, FinishThrows(x)
        PROVE  StartupInv'
    BY <1>25, ThrowKeepsStartup DEF FinishThrows
  <1>26. ASSUME NEW x \in Actors, FinishCheck(x)
        PROVE  StartupInv'
    BY <1>26, <1>a DEF FinishCheck, HoldsAttempt, TypeOK, ProcessTypeOK, StartupInv, DownIsIdle,
       BootAlone, BootListed, BootDrives, PendingUnknown
  <1>27. ASSUME NEW x \in Actors, FinishComplete(x)
        PROVE  StartupInv'
    <2>1. at[x] \in Attempts /\ pc[x] \in HoldsAttempt
      BY <1>27, AtAttempt DEF FinishComplete, HoldsAttempt, Actors
    <2> QED
      BY <1>27, <2>1, ProceedKeepsStartup DEF FinishComplete, TypeOK, ProcessTypeOK
  <1>28. ASSUME NEW x \in Actors, FinishTooLate(x)
        PROVE  StartupInv'
    BY <1>28, ThrowKeepsStartup DEF FinishTooLate
  <1>29. ASSUME NEW x \in Actors, CrashAfterPublish(x)
        PROVE  StartupInv'
    BY <1>29, EndsKeepStartup DEF CrashAfterPublish
  <1>30. ASSUME NEW e \in Attempts, BackendStarts(e)
        PROVE  StartupInv'
    BY <1>30, StartupFrame DEF BackendStarts, memory
  <1>31. ASSUME NEW e \in Attempts, BackendFinishes(e)
        PROVE  StartupInv'
    BY <1>31, StartupFrame DEF BackendFinishes, memory
  <1>32. ASSUME NEW e \in Attempts, BackendLosesTrack(e)
        PROVE  StartupInv'
    BY <1>32, StartupFrame DEF BackendLosesTrack, memory
  <1>33. CASE Tick
    BY <1>33, StartupFrame DEF Tick, memory
  <1>34. CASE Crash
    BY <1>34, EndsKeepStartup DEF Crash
  <1>35. CASE Restart
    BY <1>35, <1>a DEF Restart, HoldsAttempt, TypeOK, ProcessTypeOK, StartupInv, DownIsIdle,
       BootAlone, BootListed, BootDrives, PendingUnknown
  <1>36. CASE UNCHANGED vars
    BY <1>36, StartupFrame DEF vars, memory
  <1> QED
    BY <1>1, <1>2, <1>3, <1>4, <1>5, <1>6, <1>7, <1>8, <1>9, <1>10, <1>11, <1>12,
       <1>13, <1>14, <1>15, <1>16, <1>17, <1>18, <1>19, <1>20, <1>21, <1>22, <1>23, <1>24,
       <1>25, <1>26, <1>27, <1>28, <1>29, <1>30, <1>31, <1>32, <1>33, <1>34, <1>35, <1>36
    DEF Next, Client, Confirm, Sweep, Dispatch, Setup, Backend, Actors

-----------------------------------------------------------------------------
(* The leases of a daemon that is never suspended past an expiry.           *)

OpenHasLease == \A e \in Attempts : att[e] \in Open => lState[e] \in {"active", "expired"}

(* The lease a claim made is untouched while its attempt is set up.         *)
SetupHasLease ==
  \A e \in Attempts : setup[e] # "idle" =>
    lState[e] = "active" /\ lExp[e] > now /\ lOwner[e] = instance /\ lRev[e] = 1

Held(e) ==
  /\ lState[e] = "active"
  /\ lExp[e] > now
  /\ lOwner[e] = instance
  /\ lRev[e] = known[e]
  /\ known[e] # 0

(* Every recorded open attempt is held, or the startup sweep has yet to     *)
(* visit it.                                                                *)
Visited ==
  phase # "down" =>
    \A e \in started : att[e] \in Open =>
      Held(e) \/ (phase = "recovering" /\ seen[Boot][e] # "none")

LeaseInv == OpenHasLease /\ SetupHasLease /\ Visited

(* completeExecutionAttempt touches the lease and the status of its own     *)
(* attempt only.                                                            *)
LEMMA CompleteFrame ==
  ASSUME TypeOK, NEW e \in Attempts, NEW status, NEW eligible, CompleteAttempt(e, status, eligible)
  PROVE  /\ att'[e] = status
         /\ started' = started
         /\ \A f \in Attempts : f # e => /\ att'[f] = att[f]
                                        /\ lState'[f] = lState[f]
                                        /\ lRev'[f] = lRev[f]
                                        /\ lExp'[f] = lExp[f]
                                        /\ lOwner'[f] = lOwner[f]
  BY DEF CompleteAttempt, ReleaseLease, TypeOK, StoreTypeOK

(* A failed attempt needs its lease no more. *)
LEMMA FailureOpensNothing ==
  ASSUME TypeOK, LeaseInv, NEW e \in Attempts, CompleteAttempt(e, "failed", FALSE)
  PROVE  OpenHasLease'
  <1>1. /\ att'[e] = "failed"
        /\ \A f \in Attempts : f # e => att'[f] = att[f] /\ lState'[f] = lState[f]
    BY CompleteFrame
  <1>2. \A f \in Attempts : att[f] \in Open => lState[f] \in {"active", "expired"}
    BY DEF LeaseInv, OpenHasLease
  <1>3. "failed" \notin Open
    BY DEF Open
  <1> QED
    BY <1>1, <1>2, <1>3 DEF OpenHasLease

LEMMA CompleteInSetup ==
  ASSUME IInv, LeaseInv, NEW e \in Attempts, setup[e] # "idle", NEW eligible, SetupReturns(e),
         CompleteAttempt(e, "failed", eligible), UNCHANGED <<now, known>>
  PROVE  LeaseInv'
  <1> TypeOK
    BY DEF IInv
  <1>1. /\ setup'[e] = "idle" /\ \A f \in Attempts : f # e => setup'[f] = setup[f]
        /\ UNCHANGED <<phase, instance, seen>>
    BY DEF SetupReturns, TypeOK, ProcessTypeOK
  <1>0. /\ att'[e] = "failed" /\ started' = started
        /\ \A f \in Attempts : f # e => /\ att'[f] = att[f]
                                       /\ lState'[f] = lState[f]
                                       /\ lRev'[f] = lRev[f]
                                       /\ lExp'[f] = lExp[f]
                                       /\ lOwner'[f] = lOwner[f]
    BY CompleteFrame, Zenon
  <1>2. att'[e] \notin Open
    BY <1>0 DEF Open
  <1>3. OpenHasLease'
    BY <1>0, <1>2 DEF LeaseInv, OpenHasLease
  <1>5. SetupHasLease'
    BY <1>0, <1>1 DEF LeaseInv, SetupHasLease
  <1>4. Visited'
    BY <1>0, <1>1, <1>2 DEF LeaseInv, Visited, Held, TypeOK, StoreTypeOK
  <1> QED
    BY <1>3, <1>4, <1>5 DEF LeaseInv

LEMMA EndsWithOpenLeases ==
  ASSUME OpenHasLease', ProcessEnds
  PROVE  LeaseInv'
  BY DEF ProcessEnds, LeaseInv, SetupHasLease, Visited

LEMMA ThrowKeepsLeases ==
  ASSUME TypeOK, LeaseInv, NEW x \in Actors, Throw(x), UNCHANGED <<now, att, started, leaseVars>>
  PROVE  LeaseInv'
  <1>1. OpenHasLease'
    BY DEF LeaseInv, OpenHasLease, leaseVars
  <1>2. CASE x \in Sweepers
    BY <1>1, <1>2, EndsWithOpenLeases DEF Throw
  <1>3. CASE x \notin Sweepers
    BY <1>1, <1>3 DEF Throw, LeaseInv, SetupHasLease, Visited, Held, leaseVars
  <1> QED
    BY <1>2, <1>3

(* A list entry the startup sweep drops belongs to an attempt it has dealt  *)
(* with.                                                                    *)
LEMMA ProceedDrops ==
  ASSUME TypeOK, StartupInv, NEW x \in Actors, pc[x] # "idle", at[x] \in Attempts, Proceed(x),
         phase = "recovering", NEW e \in Attempts, e # at[x]
  PROVE  seen'[Boot][e] = seen[Boot][e]
  <1>1. x = Boot /\ SweepNext(x)
    BY DEF StartupInv, BootAlone, Proceed
  <1> QED
    BY <1>1 DEF SweepNext, TypeOK, ProcessTypeOK

LEMMA ProceedVisits ==
  ASSUME TypeOK, StartupInv, LeaseInv, NEW x \in Actors, pc[x] # "idle", NEW a \in Attempts, a = at[x],
         Proceed(x), UNCHANGED <<now, started, phase, instance>>, att'[a] \in Open => Held(a)',
         \A f \in Attempts : f # a => att'[f] = att[f] /\ (Held(f) => Held(f)')
  PROVE  Visited'
  <1> SUFFICES ASSUME phase # "down", NEW e \in started, att'[e] \in Open, ~Held(e)'
               PROVE  phase = "recovering" /\ seen'[Boot][e] # "none"
    BY DEF Visited
  <1>1. e \in Attempts /\ e # a
    BY DEF TypeOK, StoreTypeOK
  <1>2. phase = "recovering" /\ seen[Boot][e] # "none"
    BY <1>1 DEF LeaseInv, Visited
  <1> QED
    BY <1>1, <1>2, ProceedDrops

LEMMA RestoreKeepsLeases ==
  ASSUME IInv, StartupInv, LeaseInv, NEW x \in Actors, pc[x] \in HoldsAttempt, NEW status \in Open,
         RestoreLease(at[x], status), Proceed(x), UNCHANGED now
  PROVE  LeaseInv'
  <1> TypeOK
    BY DEF IInv
  <1>1. PICK a \in Attempts : a = at[x] /\ a \in started /\ setup[a] = "idle" /\ pc[x] # "idle"
    BY AtAttempt DEF IInv, AwaitsStayValid, HeldIsStarted, SetupIsQueued, HoldsAttempt
  <1>2. /\ UNCHANGED <<started, phase, instance, setup>>
        /\ \A f \in Attempts : f # a => /\ att'[f] = att[f]
                                       /\ lState'[f] = lState[f]
                                       /\ lRev'[f] = lRev[f]
                                       /\ lExp'[f] = lExp[f]
                                       /\ lOwner'[f] = lOwner[f]
                                       /\ known'[f] = known[f]
    BY <1>1 DEF RestoreLease, TypeOK, StoreTypeOK, ProcessTypeOK
  <1>3. Held(a)'
    BY <1>1 DEF RestoreLease, Held, TypeOK, StoreTypeOK, ProcessTypeOK
  <1>4. OpenHasLease'
    BY <1>2, <1>3 DEF LeaseInv, OpenHasLease, Held
  <1>5. SetupHasLease'
    BY <1>1, <1>2 DEF LeaseInv, SetupHasLease
  <1>6. Visited'
    BY <1>1, <1>2, <1>3, ProceedVisits DEF Held
  <1> QED
    BY <1>4, <1>5, <1>6 DEF LeaseInv

LEMMA LeaseStep ==
  ASSUME "late" \notin Faults
  PROVE  IInv /\ StartupInv /\ LeaseInv /\ [Next]_vars => LeaseInv'
  <1> SUFFICES ASSUME IInv, StartupInv, LeaseInv, [Next]_vars
               PROVE  LeaseInv'
    OBVIOUS
  <1> TypeOK
    BY DEF IInv
  <1> USE DEF durable, memory, leaseVars
  <1>1. ASSUME NEW r \in Runs, StartRun(r)
        PROVE  LeaseInv'
    BY <1>1 DEF StartRun, LeaseInv, OpenHasLease, SetupHasLease, Visited, Held
  <1>2. ASSUME NEW r \in Runs, CancelQueued(r)
        PROVE  LeaseInv'
    <2>1. \A e \in Attempts : att'[e] \in Open => att'[e] = att[e]
      BY <1>2, PrimaryAttempt DEF CancelQueued, CancelQueuedInside, TypeOK, StoreTypeOK, Open
    <2> QED
      BY <1>2, <2>1 DEF CancelQueued, TypeOK, StoreTypeOK, LeaseInv, OpenHasLease, SetupHasLease,
         Visited, Held
  <1>3. ASSUME NEW r \in Runs, CancelRunning(r)
        PROVE  LeaseInv'
    BY <1>3 DEF CancelRunning, LeaseInv, OpenHasLease, SetupHasLease, Visited, Held
  <1>4. ASSUME NEW r \in Runs, AnswerCancel(r)
        PROVE  LeaseInv'
    <2>1. \A e \in Attempts : att'[e] \in Open => att'[e] = att[e]
      BY <1>4, PrimaryAttempt DEF AnswerCancel, CancelQueuedInside, TypeOK, StoreTypeOK, Open
    <2> QED
      BY <1>4, <2>1 DEF AnswerCancel, TypeOK, StoreTypeOK, LeaseInv, OpenHasLease, SetupHasLease,
         Visited, Held
  <1>5. ASSUME NEW r \in Runs, NEW i \in Candidates, AnswerCandidate(r, i)
        PROVE  LeaseInv'
    BY <1>5 DEF AnswerCandidate, LeaseInv, OpenHasLease, SetupHasLease, Visited, Held
  <1>6. ASSUME NEW x \in Sweepers \cup {"rpc"}, ClaimNothing(x)
        PROVE  LeaseInv'
    <2>1. /\ \A e \in Attempts :
               /\ lExp[e] > now => lState'[e] = lState[e] /\ lRev'[e] = lRev[e]
               /\ lState'[e] = lState[e] \/ lState'[e] = "expired"
          /\ UNCHANGED <<now, att, started, lExp, lOwner, instance, known, setup, seen>>
      BY <1>6 DEF ClaimNothing, ExpireLeases, Overdue, TypeOK, StoreTypeOK
    <2>2. \/ phase' = phase
          \/ /\ phase' = "serving" /\ phase # "down"
             /\ \A e \in Attempts : phase = "recovering" => seen[Boot][e] = "none"
      <3>1. CASE x \in Sweepers
        BY <1>6, <3>1 DEF ClaimNothing, MayDispatch, StartupInv, DownIsIdle, BootAlone,
           BootListed, Actors
      <3>2. CASE x \notin Sweepers
        BY <1>6, <3>2 DEF ClaimNothing
      <3> QED
        BY <3>1, <3>2
    <2>3. \A e \in Attempts : Held(e) => Held(e)'
      BY <2>1 DEF Held
    <2>4. OpenHasLease'
      BY <2>1 DEF LeaseInv, OpenHasLease
    <2>5. SetupHasLease'
      BY <2>1 DEF LeaseInv, SetupHasLease
    <2>6. Visited'
      BY <2>1, <2>2, <2>3 DEF LeaseInv, Visited, TypeOK, StoreTypeOK
    <2> QED
      BY <2>4, <2>5, <2>6 DEF LeaseInv
  <1>7. ASSUME NEW x \in Sweepers \cup {"rpc"}, NEW e \in Attempts, ClaimCandidate(x, e)
        PROVE  LeaseInv'
    <2>1. /\ \A f \in Attempts : f # e =>
               /\ lExp[f] > now => lState'[f] = lState[f] /\ lRev'[f] = lRev[f]
               /\ lState'[f] = lState[f] \/ lState'[f] = "expired"
               /\ lExp'[f] = lExp[f] /\ lOwner'[f] = lOwner[f] /\ att'[f] = att[f] /\ setup'[f] = setup[f]
          /\ UNCHANGED <<now, started, phase, instance, known, seen>>
      BY <1>7 DEF ClaimCandidate, Overdue, TypeOK, StoreTypeOK, ProcessTypeOK
    <2>2. /\ lState'[e] = "active" /\ lRev'[e] = 1 /\ lExp'[e] > now /\ lOwner'[e] = instance
      BY <1>7 DEF ClaimCandidate, TypeOK, StoreTypeOK
    <2>3. e \notin started
      BY <1>7 DEF ClaimCandidate, IInv, AwaitsStayValid, StartedExists
    <2>4. OpenHasLease' /\ SetupHasLease'
      <3>1. OpenHasLease'
        BY <2>1, <2>2 DEF LeaseInv, OpenHasLease
      <3>2. SetupHasLease'
        BY <2>1, <2>2 DEF LeaseInv, SetupHasLease
      <3> QED
        BY <3>1, <3>2
    <2>5. Visited'
      BY <2>1, <2>3 DEF LeaseInv, Visited, Held, TypeOK, StoreTypeOK
    <2> QED
      BY <2>4, <2>5 DEF LeaseInv
  <1>8. ASSUME NEW w \in Sweepers, NEW e \in Attempts, ClaimThrows(w, e)
        PROVE  LeaseInv'
    BY <1>8, EndsWithOpenLeases DEF ClaimThrows, LeaseInv, OpenHasLease
  <1>9. ASSUME NEW e \in Attempts, ProvisionFails(e)
        PROVE  LeaseInv'
    <2>1. CASE driver[e] \in Sweepers
      <3>1. OpenHasLease'
        BY <1>9, FailureOpensNothing DEF ProvisionFails
      <3> QED
        BY <1>9, <2>1, <3>1, EndsWithOpenLeases DEF ProvisionFails, SetupThrows
    <2>2. CASE driver[e] \notin Sweepers
      BY <1>9, <2>2, CompleteInSetup DEF ProvisionFails, SetupThrows
    <2> QED
      BY <2>1, <2>2
  <1>10. ASSUME NEW e \in Attempts, DeadlineExhausted(e)
        PROVE  LeaseInv'
    BY <1>10, CompleteInSetup DEF DeadlineExhausted
  <1>11. ASSUME NEW e \in Attempts, ProvisionDone(e)
        PROVE  LeaseInv'
    BY <1>11 DEF ProvisionDone, TypeOK, ProcessTypeOK, LeaseInv, OpenHasLease, SetupHasLease,
       Visited, Held
  <1>12. ASSUME NEW e \in Attempts, RecordStart(e)
        PROVE  LeaseInv'
    <2>1. /\ setup'[e] = "idle" /\ \A f \in Attempts : f # e => setup'[f] = setup[f]
          /\ UNCHANGED <<now, phase, instance, seen, lState, lRev, lExp, lOwner>>
      BY <1>12 DEF RecordStart, SetupReturns, TypeOK, ProcessTypeOK
    <2>2. /\ att'[e] = "running" /\ \A f \in Attempts : f # e => att'[f] = att[f] /\ known'[f] = known[f]
          /\ att[e] = "queued" /\ known'[e] = 1 /\ started' = started \cup {e}
      BY <1>12 DEF RecordStart, TypeOK, StoreTypeOK, ProcessTypeOK
    <2>3. Held(e)'
      BY <1>12, <2>1, <2>2 DEF RecordStart, LeaseInv, SetupHasLease, Held
    <2>4. OpenHasLease' /\ SetupHasLease'
      BY <2>1, <2>2 DEF LeaseInv, OpenHasLease, SetupHasLease, Open
    <2>5. Visited'
      <3>1. started \subseteq Attempts
        BY DEF TypeOK, StoreTypeOK
      <3>2. SUFFICES ASSUME phase' # "down", NEW f \in started', att'[f] \in Open
                     PROVE  Held(f)' \/ (phase' = "recovering" /\ seen'[Boot][f] # "none")
        BY DEF Visited
      <3>3. CASE f = e
        BY <2>3, <3>3
      <3>4. CASE f # e
        <4>1. /\ f \in started /\ f \in Attempts /\ att[f] \in Open /\ phase # "down"
              /\ known'[f] = known[f] /\ phase' = phase /\ seen' = seen
          BY <2>1, <2>2, <3>1, <3>2, <3>4
        <4>2. Held(f) \/ (phase = "recovering" /\ seen[Boot][f] # "none")
          BY <4>1 DEF LeaseInv, Visited
        <4>3. Held(f) => Held(f)'
          BY <2>1, <4>1 DEF Held
        <4> QED
          BY <4>1, <4>2, <4>3
      <3> QED
        BY <3>3, <3>4
    <2> QED
      BY <2>4, <2>5 DEF LeaseInv
  <1>13. ASSUME NEW e \in Attempts, StartUnavailable(e)
        PROVE  LeaseInv'
    BY <1>13, CompleteInSetup DEF StartUnavailable
  <1>14. ASSUME NEW e \in Attempts, StartFails(e)
        PROVE  LeaseInv'
    <2>1. CASE driver[e] \in Sweepers
      <3>1. OpenHasLease'
        BY <1>14, FailureOpensNothing DEF StartFails
      <3> QED
        BY <1>14, <2>1, <3>1, EndsWithOpenLeases DEF StartFails, SetupThrows
    <2>2. CASE driver[e] \notin Sweepers
      BY <1>14, <2>2, CompleteInSetup DEF StartFails, SetupThrows
    <2> QED
      BY <2>1, <2>2
  <1>15. ASSUME NEW w \in Sweepers, SweepBegin(w)
        PROVE  LeaseInv'
    BY <1>15 DEF SweepBegin, LeaseInv, OpenHasLease, SetupHasLease, Visited, Held
  <1>16. ASSUME NEW w \in Sweepers, SweepEnd(w)
        PROVE  LeaseInv'
    BY <1>16 DEF SweepEnd, LeaseInv, OpenHasLease, SetupHasLease, Visited, Held
  <1>17. ASSUME NEW x \in Actors, NEW e \in Attempts, HearStatus(x, e)
        PROVE  LeaseInv'
    BY <1>17 DEF HearStatus, LeaseInv, OpenHasLease, SetupHasLease, Visited, Held
  <1>18. ASSUME NEW x \in Actors, NEW e \in Attempts, HearNothing(x, e)
        PROVE  LeaseInv'
    BY <1>18 DEF HearNothing, LeaseInv, OpenHasLease, SetupHasLease, Visited, Held
  <1>19. ASSUME NEW x \in Actors, FenceUnconfirmed(x)
        PROVE  LeaseInv'
    BY <1>19, RestoreKeepsLeases DEF FenceUnconfirmed, HoldsAttempt, Open
  <1>20. ASSUME NEW w \in Sweepers, RestoreLive(w)
        PROVE  LeaseInv'
    BY <1>20, RestoreKeepsLeases DEF RestoreLive, HoldsAttempt, Actors, Proceed
  <1>21. ASSUME NEW x \in Actors, RestoreThrows(x)
        PROVE  LeaseInv'
    BY <1>21, ThrowKeepsLeases DEF RestoreThrows
  <1>22. ASSUME NEW w \in Sweepers, RenewNotDue(w)
        PROVE  LeaseInv'
    <2>1. PICK a \in Attempts : a = at[w] /\ a \in started /\ pc[w] # "idle"
      BY <1>22, AtAttempt DEF RenewNotDue, IInv, AwaitsStayValid, HeldIsStarted, HoldsAttempt,
         Actors
    <2>2. w \in Actors /\ Proceed(w)
      BY <1>22 DEF RenewNotDue, Actors, Proceed
    <2>3. att[a] \in Open => Held(a)
      BY <1>22, <2>1, <2>2 DEF RenewNotDue, StartupInv, DownIsIdle, PendingUnknown, LeaseInv,
         Visited
    <2>4. UNCHANGED <<now, att, started, lState, lRev, lExp, lOwner, known, setup, instance,
    phase>>
      BY <1>22 DEF RenewNotDue
    <2>5. OpenHasLease' /\ SetupHasLease'
      BY <2>4 DEF LeaseInv, OpenHasLease, SetupHasLease
    <2>6. Visited'
      BY <2>1, <2>2, <2>3, <2>4, ProceedVisits DEF Held
    <2> QED
      BY <2>5, <2>6 DEF LeaseInv
  <1>23. ASSUME NEW w \in Sweepers, RenewLease(w)
        PROVE  LeaseInv'
    <2>0. w \in Actors /\ Proceed(w)
      BY <1>23 DEF RenewLease, Actors, Proceed
    <2>1. PICK a \in Attempts : a = at[w] /\ a \in started /\ setup[a] = "idle" /\ pc[w] # "idle"
      BY <1>23, <2>0, AtAttempt DEF RenewLease, RenewDue, IInv, AwaitsStayValid, HeldIsStarted,
         SetupIsQueued,
                                 HoldsAttempt
    <2>2. /\ \A f \in Attempts :
               /\ lExp[f] > now => lState'[f] = lState[f]
               /\ lExp[f] > now /\ f # a => lRev'[f] = lRev[f]
               /\ lState'[f] = lState[f] \/ lState'[f] = "expired"
               /\ f # a => lExp'[f] = lExp[f] /\ known'[f] = known[f]
          /\ UNCHANGED <<now, att, started, lOwner, phase, instance, setup>>
      BY <1>23, <2>1 DEF RenewLease, Overdue, TypeOK, StoreTypeOK, ProcessTypeOK, scheduleVars
    <2>3. Held(a)'
      BY <1>23, <2>1, <2>2 DEF RenewLease, RenewDue, Renewable, Held, TypeOK, StoreTypeOK,
         ProcessTypeOK
    <2>4. OpenHasLease' /\ SetupHasLease'
      <3>1. OpenHasLease'
        BY <2>1, <2>2 DEF LeaseInv, OpenHasLease
      <3>2. SetupHasLease'
        BY <2>1, <2>2 DEF LeaseInv, SetupHasLease
      <3> QED
        BY <3>1, <3>2
    <2>5. \A f \in Attempts : f # a => att'[f] = att[f] /\ (Held(f) => Held(f)')
      BY <2>2 DEF Held
    <2>6. Visited'
      BY <2>0, <2>1, <2>2, <2>3, <2>5, ProceedVisits
    <2> QED
      BY <2>4, <2>6 DEF LeaseInv
  <1>24. ASSUME NEW w \in Sweepers, RenewThrows(w)
        PROVE  LeaseInv'
    BY <1>24, ThrowKeepsLeases DEF RenewThrows, Actors
  <1>25. ASSUME NEW x \in Actors, FinishThrows(x)
        PROVE  LeaseInv'
    BY <1>25, ThrowKeepsLeases DEF FinishThrows
  <1>26. ASSUME NEW x \in Actors, FinishCheck(x)
        PROVE  LeaseInv'
    BY <1>26 DEF FinishCheck, LeaseInv, OpenHasLease, SetupHasLease, Visited, Held
  <1>27. ASSUME NEW x \in Actors, FinishComplete(x)
        PROVE  LeaseInv'
    <2>1. PICK a \in Attempts : /\ a = at[x] /\ a \in started /\ setup[a] = "idle"
                              /\ pc[x] # "idle" /\ backend[a] \in Settled
      BY <1>27, AtAttempt, SettledIsFinished DEF FinishComplete, IInv, AwaitsStayValid,
         HeldIsStarted,
                           SetupIsQueued, FinishingIsFinished, HoldsAttempt
    <2>2. PICK o \in Outcomes(a) : CompleteAttempt(a, o[1], o[2])
      BY <1>27, <2>1 DEF FinishComplete
    <2>3. att'[a] \notin Open
      BY <2>1, <2>2, OutcomeParts, CompleteFrame DEF Open, Settled
    <2>4. /\ UNCHANGED <<now, phase, instance, setup>> /\ Proceed(x)
          /\ \A f \in Attempts : f # a => known'[f] = known[f]
      BY <1>27, <2>1 DEF FinishComplete, TypeOK, ProcessTypeOK
    <2>5. OpenHasLease' /\ SetupHasLease'
      BY <2>1, <2>2, <2>3, <2>4, CompleteFrame DEF LeaseInv, OpenHasLease, SetupHasLease
    <2>6. Visited'
      BY <2>1, <2>2, <2>3, <2>4, CompleteFrame, ProceedVisits DEF Held
    <2> QED
      BY <2>5, <2>6 DEF LeaseInv
  <1>28. ASSUME NEW x \in Actors, FinishTooLate(x)
        PROVE  LeaseInv'
    BY <1>28, ThrowKeepsLeases DEF FinishTooLate
  <1>29. ASSUME NEW x \in Actors, CrashAfterPublish(x)
        PROVE  LeaseInv'
    BY <1>29, EndsWithOpenLeases DEF CrashAfterPublish, LeaseInv, OpenHasLease
  <1>30. ASSUME NEW e \in Attempts, BackendStarts(e)
        PROVE  LeaseInv'
    BY <1>30 DEF BackendStarts, LeaseInv, OpenHasLease, SetupHasLease, Visited, Held
  <1>31. ASSUME NEW e \in Attempts, BackendFinishes(e)
        PROVE  LeaseInv'
    BY <1>31 DEF BackendFinishes, LeaseInv, OpenHasLease, SetupHasLease, Visited, Held
  <1>32. ASSUME NEW e \in Attempts, BackendLosesTrack(e)
        PROVE  LeaseInv'
    BY <1>32 DEF BackendLosesTrack, LeaseInv, OpenHasLease, SetupHasLease, Visited, Held
  <1>33. CASE Tick
    <2>1. \A e \in Attempts : (setup[e] # "idle" \/ known[e] # 0) /\ lState[e] = "active" => lExp[e] > now'
      BY <1>33 DEF Tick, Kept
    <2> QED
      BY <1>33, <2>1 DEF Tick, TypeOK, StoreTypeOK, LeaseInv, OpenHasLease, SetupHasLease,
         Visited, Held
  <1>34. CASE Crash
    BY <1>34, EndsWithOpenLeases DEF Crash, LeaseInv, OpenHasLease
  <1>35. CASE Restart
    <2>1. OpenHasLease' /\ SetupHasLease'
      BY <1>35 DEF Restart, StartupInv, DownIsIdle, LeaseInv, OpenHasLease, SetupHasLease
    <2>2. \A e \in started : att[e] \in Open => seen'[Boot][e] # "none"
      BY <1>35 DEF Restart, Snapshot, Recoverable, LeaseInv, OpenHasLease, TypeOK, StoreTypeOK,
         ProcessTypeOK, Open
    <2> QED
      BY <1>35, <2>1, <2>2 DEF Restart, LeaseInv, Visited
  <1>36. CASE UNCHANGED vars
    BY <1>36 DEF vars, LeaseInv, OpenHasLease, SetupHasLease, Visited, Held
  <1> QED
    BY <1>1, <1>2, <1>3, <1>4, <1>5, <1>6, <1>7, <1>8, <1>9, <1>10, <1>11, <1>12,
       <1>13, <1>14, <1>15, <1>16, <1>17, <1>18, <1>19, <1>20, <1>21, <1>22, <1>23, <1>24,
       <1>25, <1>26, <1>27, <1>28, <1>29, <1>30, <1>31, <1>32, <1>33, <1>34, <1>35, <1>36
    DEF Next, Client, Confirm, Sweep, Dispatch, Setup, Backend, Actors

(* A daemon that is not suspended past a lease's expiry holds, while it     *)
(* serves, the unexpired lease of every recorded open attempt at the        *)
(* revision it remembers, for any interleaving of sweeps, claims, cancels,  *)
(* failures and restarts.                                                   *)
THEOREM LeasesHeld ==
  ASSUME "late" \notin Faults
  PROVE  Spec => []LiveAttemptHasLease
  <1>1. Init => StartupInv /\ LeaseInv
    BY DEF Init, StartupInv, DownIsIdle, BootAlone, BootListed, BootDrives, PendingUnknown,
       LeaseInv,
           OpenHasLease, SetupHasLease, Visited, Open
  <1>2. IInv /\ LeaseInv => LiveAttemptHasLease
    BY DEF IInv, TypeOK, StoreTypeOK, LeaseInv, Visited, Held, LiveAttemptHasLease
  <1>3. IInv /\ StartupInv /\ LeaseInv /\ [Next]_vars => StartupInv' /\ LeaseInv'
    BY StartupStep, LeaseStep
  <1> QED
    BY Invariance, <1>1, <1>2, <1>3, PTL DEF Spec

=============================================================================
