--------------------------- MODULE ExecutionProofs ---------------------------
(***************************************************************************)
(* Proofs about externally executed stages and the daemons around them.    *)
(* The engine starts a stage once, for any number of questions, resumes,   *)
(* faults and crashes; and at most one of two daemons of a home serves,    *)
(* for any number of claim attempts, deaths and schema versions.           *)
(***************************************************************************)
EXTENDS MCExecution, Integers, TLAPS, FiniteSetTheorems

(* The keys under which Heniek creates turns. *)
Keys == Ops \cup {"initial"}

TurnStates == {"queued", "running", "succeeded", "failed", "interrupted", "cancelled"}

(* Each key has created one turn at most. *)
EngineInv ==
  /\ DOMAIN engine = {"thread", "turns", "asked", "waiting"}
  /\ engine.turns \in Seq([key : Keys, state : TurnStates])
  /\ \A i, j \in DOMAIN engine.turns : engine.turns[i].key = engine.turns[j].key => i = j

LEMMA KeysAreUsedOnce ==
  ASSUME EngineInv, NEW key \in Keys, engine' = createTurn(engine, key)
  PROVE  EngineInv'
  <1>1. CASE \E i \in DOMAIN engine.turns : engine.turns[i].key = key
    BY <1>1 DEF createTurn, EngineInv
  <1>2. CASE ~\E i \in DOMAIN engine.turns : engine.turns[i].key = key
    <2> DEFINE turn == [key |-> key, state |-> "queued"]
    <2>1. /\ DOMAIN engine' = DOMAIN engine
          /\ engine'.turns = Append(engine.turns, turn)
      BY <1>2 DEF createTurn, EngineInv
    <2>2. turn \in [key : Keys, state : TurnStates]
      BY DEF TurnStates
    <2> HIDE DEF turn
    <2>3. /\ engine'.turns \in Seq([key : Keys, state : TurnStates])
          /\ DOMAIN engine'.turns = DOMAIN engine.turns \cup {Len(engine.turns) + 1}
          /\ Len(engine.turns) + 1 \notin DOMAIN engine.turns
          /\ engine'.turns[Len(engine.turns) + 1] = turn
          /\ \A i \in DOMAIN engine.turns : engine'.turns[i] = engine.turns[i]
      BY <2>1, <2>2 DEF EngineInv
    <2>4. turn.key = key
      BY DEF turn
    <2>5. \A i, j \in DOMAIN engine'.turns : engine'.turns[i].key = engine'.turns[j].key => i = j
      BY <1>2, <2>3, <2>4 DEF EngineInv
    <2> QED
      BY <2>1, <2>3, <2>5 DEF EngineInv
  <1> QED
    BY <1>1, <1>2

(* A turn keeps its key whatever becomes of it. *)
LEMMA KeysStay ==
  ASSUME EngineInv, DOMAIN engine' = DOMAIN engine,
         \/ engine'.turns = engine.turns
         \/ /\ engine.turns # <<>>
            /\ \E s \in TurnStates :
                 engine'.turns = [engine.turns EXCEPT ![Len(engine.turns)].state = s]
  PROVE  EngineInv'
  <1>1. CASE engine'.turns = engine.turns
    BY <1>1 DEF EngineInv
  <1>2. ASSUME engine.turns # <<>>, NEW s \in TurnStates,
               engine'.turns = [engine.turns EXCEPT ![Len(engine.turns)].state = s]
        PROVE  EngineInv'
    <2> DEFINE Turns == [key : Keys, state : TurnStates]
               n == Len(engine.turns)
    <2>1. engine.turns \in Seq(Turns) /\ n \in DOMAIN engine.turns
      BY <1>2 DEF EngineInv
    <2>2. [engine.turns[n] EXCEPT !.state = s] \in Turns
      <3>1. engine.turns[n] \in Turns
        <4> DEFINE turns == engine.turns
        <4>1. turns \in Seq(Turns) /\ n \in DOMAIN turns
          BY <2>1
        <4> HIDE DEF turns, n, Turns
        <4>2. turns[n] \in Turns
          BY <4>1
        <4> QED
          BY <4>2 DEF turns
      <3> DEFINE turn == engine.turns[n]
      <3>2. turn \in Turns
        BY <3>1
      <3> HIDE DEF turn
      <3>3. [turn EXCEPT !.state = s] \in Turns
        BY <3>2
      <3> QED
        BY <3>3 DEF turn
    <2>3. engine'.turns \in Seq(Turns) /\ DOMAIN engine'.turns = DOMAIN engine.turns
      BY <1>2, <2>1, <2>2
    <2>4. \A i \in DOMAIN engine.turns : engine'.turns[i].key = engine.turns[i].key
      BY <1>2, <2>1
    <2> QED
      BY <2>3, <2>4 DEF EngineInv
  <1> QED
    BY <1>1, <1>2

LEMMA CancelKeeps ==
  ASSUME EngineInv, engine' = cancel(engine)
  PROVE  EngineInv'
  <1>1. CASE ~ActiveHead(engine)
    BY <1>1 DEF cancel, EngineInv
  <1>2. CASE ActiveHead(engine)
    <2>1. engine.turns # <<>>
      BY <1>2 DEF ActiveHead, headRun
    <2>2. /\ DOMAIN engine' = DOMAIN engine
          /\ engine'.turns = [engine.turns EXCEPT ![Len(engine.turns)].state = "cancelled"]
      BY <1>2 DEF cancel, EngineInv
    <2>3. "cancelled" \in TurnStates
      BY DEF TurnStates
    <2> QED
      BY <2>1, <2>2, <2>3, KeysStay
  <1> QED
    BY <1>1, <1>2

LEMMA EngineStep ==
  ASSUME EngineInv, [Next]_vars
  PROVE  EngineInv'
  <1>1. ASSUME engine' = engine PROVE EngineInv'
    BY <1>1 DEF EngineInv
  <1>2. ASSUME engine' = createThread(engine) PROVE EngineInv'
    <2>1. DOMAIN engine' = DOMAIN engine /\ engine'.turns = engine.turns
      BY <1>2 DEF createThread, EngineInv
    <2> QED
      BY <2>1, KeysStay
  <1>3. ASSUME NEW q, engine' = answer(engine, q) PROVE EngineInv'
    <2>1. DOMAIN engine' = DOMAIN engine /\ engine'.turns = engine.turns
      BY <1>3 DEF answer, EngineInv
    <2> QED
      BY <2>1, KeysStay
  <1>4. CASE EngineWorks \/ EngineEnds
    <2>1. engine.turns # <<>>
      BY <1>4 DEF EngineWorks, EngineEnds, ActiveHead, headRun
    <2>2. DOMAIN engine' = DOMAIN engine
      BY <1>4 DEF EngineWorks, EngineEnds, EngineInv
    <2>3. \/ engine'.turns = engine.turns
          \/ \E s \in TurnStates :
               engine'.turns = [engine.turns EXCEPT ![Len(engine.turns)].state = s]
      BY <1>4 DEF EngineWorks, EngineEnds, EngineInv, TurnStates
    <2> QED
      BY <2>1, <2>2, <2>3, KeysStay
  <1>5. CASE EngineWithdraws
    BY <1>3, <1>5 DEF EngineWithdraws
  <1>6. CASE FinalizeFails \/ Crash \/ Synchronous
    BY <1>1, <1>6 DEF FinalizeFails, Crash, Synchronous, PublishArtifact, CompleteImport,
                      FinalizeSuccess, ReleaseLease
  <1>7. CASE StarterCalls \/ ensureBackendHandle
    <2>1. "initial" \in Keys
      BY DEF Keys
    <2>2. \/ engine' = engine \/ engine' = createThread(engine)
          \/ engine' = createTurn(engine, "initial")
      BY <1>7 DEF StarterCalls, ensureBackendHandle
    <2> QED
      BY <1>1, <1>2, <2>1, <2>2, KeysAreUsedOnce
  <1>8. ASSUME NEW o \in Ops, BackendAcknowledges(o) PROVE EngineInv'
    BY <1>3, <1>8, KeysAreUsedOnce DEF BackendAcknowledges, Keys
  <1>9. CASE cancelRun
    BY <1>9, CancelKeeps DEF cancelRun
  <1>10. CASE Engine
    BY <1>4, <1>5, <1>10 DEF Engine
  <1>11. ASSUME NEW o \in Ops,
                \/ deliverOperation(o) \/ recordExecutionOperationFailure(o)
                \/ markExecutionOperationDelivered(o)
         PROVE  EngineInv'
    BY <1>1, <1>11 DEF deliverOperation, recordExecutionOperationFailure,
                       markExecutionOperationDelivered
  <1>12. ASSUME NEW o, acceptInteractionAnswer(o) \/ requestRunResume(o)
         PROVE  EngineInv'
    BY <1>1, <1>12 DEF acceptInteractionAnswer, requestRunResume
  <1>13. CASE createStageExecution \/ CheckoutRecorded \/ ProvisioningEnds
    BY <1>1, <1>13 DEF createStageExecution, CheckoutRecorded, ProvisioningEnds
  <1>14. CASE observe(TRUE) \/ observe(FALSE) \/ AskStatus \/ AskInteractions \/ RecordFailure
              \/ ReadResult \/ ObservationFails
    BY <1>1, <1>14 DEF observe, AskStatus, AskInteractions, RecordFailure, ReadResult,
                       ObservationFails
  <1>15. CASE Awaiting
    BY <1>7, <1>8, <1>9, <1>10, <1>11, <1>12, <1>13, <1>14, <1>15 DEF Awaiting, Observing
  <1>16. CASE UNCHANGED vars
    BY <1>1, <1>16 DEF vars
  <1> QED
    BY <1>6, <1>15, <1>16 DEF Next

(* However often a start, an observation or a restarted daemon ensures the      *)
(* handle, the engine has one initial turn (ensureBackendHandle, the            *)
(* idempotency keys of createTurn).                                          *)
THEOREM TurnStartsOnce == MCSpec => []OneInitialTurn
  <1>1. MCInit => EngineInv
    BY DEF MCInit, Init, NoEngine, EngineInv
  <1>2. EngineInv /\ [MCNext]_<<part, vars, lifecycleVars>> => EngineInv'
    <2> SUFFICES ASSUME EngineInv, [MCNext]_<<part, vars, lifecycleVars>>
                 PROVE  EngineInv'
      OBVIOUS
    <2>1. [Next]_vars
      BY DEF MCNext
    <2> QED
      BY <2>1, EngineStep
  <1>3. EngineInv => OneInitialTurn
    <2> SUFFICES ASSUME EngineInv PROVE OneInitialTurn
      OBVIOUS
    <2> DEFINE S == {i \in DOMAIN engine.turns : engine.turns[i].key = "initial"}
    <2>1. ASSUME S = {} PROVE Cardinality(S) <= 1
      <3>1. Cardinality(S) = 0
        BY <2>1, FS_EmptySet
      <3> HIDE DEF S
      <3> QED
        BY <3>1
    <2>2. ASSUME NEW i \in S PROVE Cardinality(S) <= 1
      <3>1. S = {i}
        BY DEF EngineInv
      <3>2. Cardinality({i}) = 1
        BY FS_Singleton
      <3> HIDE DEF S
      <3> QED
        BY <3>1, <3>2
    <2> HIDE DEF S
    <2>3. Cardinality(S) <= 1
      BY <2>1, <2>2
    <2> QED
      BY <2>3 DEF OneInitialTurn, S
  <1>4. MCSpec => MCInit /\ [][MCNext]_<<part, vars, lifecycleVars>>
    BY PTL DEF MCSpec
  <1> QED
    BY <1>1, <1>2, <1>3, <1>4, PTL

-----------------------------------------------------------------------------
(* Two daemons of one home. *)

(* With three of them the property does not hold. *)
TwoDaemons == \E x, y : x # y /\ Daemons = {x, y}

(* The stages of a daemon: before it created a claim, with one but not yet past *)
(* publishing its record, past it, and over.                                 *)
Early == {"new", "stat", "read", "takeover", "rename", "probe_peer"}
Mid == {"probe", "reclaim", "persist", "open", "migrate", "sweep", "classify", "commit", "bind",
        "publish"}
Up == {"services", "attach", "serving"}
Over == {"release", "remove"} \cup D!Ended

(* Each process is at one of its steps; the claim file is absent or a record. *)
HomeShape ==
  /\ DOMAIN pc = Daemons /\ \A d \in Daemons : pc[d] \in Early \cup Mid \cup Up \cup Over
  /\ claim = Nil \/ claim \in [owner : Daemons \cup {Old}, state : {"claiming", "serving"}]

(* What the other daemon e can be while d is up: over; without a claim, or at    *)
(* its probe, which d's socket ends or holds up; or further, but then d holds     *)
(* the claim and e finds that out before it serves.                           *)
Alone(d, e) ==
  /\ pc[d] \in Up =>
       \/ pc[e] \in Over
       \/ pc[e] \in Early \cup {"probe"} /\ sock = d
       \/ pc[e] \in Mid /\ D!Held(d)
  /\ pc[d] = "publish" /\ pc[e] \in Early => sock = d

HomeInv == HomeShape /\ \A d, e \in Daemons : d # e => Alone(d, e)

LEMMA HomeStarts == D!Init => HomeInv
  <1> SUFFICES ASSUME D!Init PROVE HomeInv
    OBVIOUS
  <1>1. \A d \in Daemons : pc[d] = "new"
    BY DEF D!Init
  <1>2. HomeShape
    BY <1>1 DEF D!Init, HomeShape, Early
  <1>3. \A d, e \in Daemons : Alone(d, e)
    BY <1>1 DEF Alone, Up
  <1> QED
    BY <1>2, <1>3 DEF HomeInv

(* acquireClaim: a daemon that claims finds the socket of the one that is up. *)
LEMMA ClaimKeeps ==
  ASSUME HomeInv, NEW a \in Daemons, NEW b \in Daemons, a # b, Daemons = {a, b},
         \/ D!Claim(a) \/ D!InspectStat(a) \/ D!InspectRead(a) \/ D!TakeoverStat(a)
         \/ D!TakeoverRename(a)
  PROVE  HomeInv'
  <1> USE HomeAssumption DEF HomeInv, HomeShape, Early, Mid, Up, Over, D!Ended, D!Held, D!Moves,
      D!claimVars, D!dbVars
  <1>1. CASE D!Claim(a)
    <2>1. HomeShape'
      BY <1>1 DEF D!Claim
    <2>2. Alone(a, b)'
      BY <1>1 DEF Alone, D!Claim
    <2>3. Alone(b, a)'
      BY <1>1 DEF Alone, D!Claim
    <2> QED
      BY <2>1, <2>2, <2>3 DEF HomeInv
  <1>2. CASE D!InspectStat(a)
    <2>1. HomeShape'
      BY <1>2 DEF D!InspectStat, D!Retry
    <2>2. Alone(a, b)'
      BY <1>2 DEF Alone, D!InspectStat, D!Retry
    <2>3. Alone(b, a)'
      BY <1>2 DEF Alone, D!InspectStat, D!Retry
    <2> QED
      BY <2>1, <2>2, <2>3 DEF HomeInv
  <1>3. CASE D!InspectRead(a)
    <2>1. HomeShape'
      BY <1>3 DEF D!InspectRead, D!Retry
    <2>2. Alone(a, b)'
      BY <1>3 DEF Alone, D!InspectRead, D!Retry
    <2>3. Alone(b, a)'
      BY <1>3 DEF Alone, D!InspectRead, D!Retry
    <2> QED
      BY <2>1, <2>2, <2>3 DEF HomeInv
  <1>4. CASE D!TakeoverStat(a)
    <2>1. HomeShape'
      BY <1>4 DEF D!TakeoverStat, D!Retry
    <2>2. Alone(a, b)'
      BY <1>4 DEF Alone, D!TakeoverStat, D!Retry
    <2>3. Alone(b, a)'
      BY <1>4 DEF Alone, D!TakeoverStat, D!Retry
    <2> QED
      BY <2>1, <2>2, <2>3 DEF HomeInv
  <1>5. CASE D!TakeoverRename(a)
    <2>1. HomeShape'
      BY <1>5 DEF D!TakeoverRename, D!Retry
    <2>2. Alone(a, b)'
      BY <1>5 DEF Alone, D!TakeoverRename, D!Retry
    <2>3. Alone(b, a)'
      BY <1>5 DEF Alone, D!TakeoverRename, D!Retry
    <2> QED
      BY <2>1, <2>2, <2>3 DEF HomeInv
  <1> QED
    BY <1>1, <1>2, <1>3, <1>4, <1>5

(* The probe: whoever is up is heard, or keeps the probe waiting. *)
LEMMA ProbeKeeps ==
  ASSUME HomeInv, NEW a \in Daemons, NEW b \in Daemons, a # b, Daemons = {a, b},
         D!ProbeConnect(a) \/ D!ProbeServing(a) \/ D!ProbeDropped(a) \/ D!ReclaimSocket(a)
  PROVE  HomeInv'
  <1> USE HomeAssumption DEF HomeInv, HomeShape, Early, Mid, Up, Over, D!Ended, D!Held, D!Moves,
      D!claimVars, D!dbVars
  <1>1. CASE D!ProbeConnect(a)
    <2>1. HomeShape'
      BY <1>1 DEF D!ProbeConnect, D!Judge, D!AfterVerdict, D!Released, D!Alive, D!Answers
    <2>2. Alone(a, b)'
      BY <1>1 DEF Alone, D!ProbeConnect, D!Judge, D!AfterVerdict, D!Released, D!Alive, D!Answers
    <2>3. Alone(b, a)'
      BY <1>1 DEF Alone, D!ProbeConnect, D!Judge, D!AfterVerdict, D!Released, D!Alive, D!Answers
    <2> QED
      BY <2>1, <2>2, <2>3 DEF HomeInv
  <1>2. CASE D!ProbeServing(a)
    <2>1. HomeShape'
      BY <1>2 DEF D!ProbeServing, D!Judge, D!AfterVerdict, D!Released, D!Alive, D!Answers
    <2>2. Alone(a, b)'
      BY <1>2 DEF Alone, D!ProbeServing, D!Judge, D!AfterVerdict, D!Released, D!Alive, D!Answers
    <2>3. Alone(b, a)'
      BY <1>2 DEF Alone, D!ProbeServing, D!Judge, D!AfterVerdict, D!Released, D!Alive, D!Answers
    <2> QED
      BY <2>1, <2>2, <2>3 DEF HomeInv
  <1>3. CASE D!ProbeDropped(a)
    <2>1. HomeShape'
      BY <1>3 DEF D!ProbeDropped, D!Judge, D!AfterVerdict, D!Released, D!Alive, D!Answers
    <2>2. Alone(a, b)'
      BY <1>3 DEF Alone, D!ProbeDropped, D!Judge, D!AfterVerdict, D!Released, D!Alive, D!Answers
    <2>3. Alone(b, a)'
      BY <1>3 DEF Alone, D!ProbeDropped, D!Judge, D!AfterVerdict, D!Released, D!Alive, D!Answers
    <2> QED
      BY <2>1, <2>2, <2>3 DEF HomeInv
  <1>4. CASE D!ReclaimSocket(a)
    <2>1. HomeShape'
      BY <1>4 DEF D!ReclaimSocket
    <2>2. Alone(a, b)'
      BY <1>4 DEF Alone, D!ReclaimSocket
    <2>3. Alone(b, a)'
      BY <1>4 DEF Alone, D!ReclaimSocket
    <2> QED
      BY <2>1, <2>2, <2>3 DEF HomeInv
  <1> QED
    BY <1>1, <1>2, <1>3, <1>4

(* Recovery, up to the published record: a daemon whose claim is gone exits. *)
LEMMA RecoveryKeeps ==
  ASSUME HomeInv, NEW a \in Daemons, NEW b \in Daemons, a # b, Daemons = {a, b},
         \/ D!PersistCredential(a) \/ D!OpenDatabase(a) \/ D!Migrate(a)
         \/ D!SweepArtifacts(a) \/ D!ClassifyRun(a) \/ D!CommitStatus(a) \/ D!Bind(a)
         \/ D!PublishServing(a)
  PROVE  HomeInv'
  <1> USE HomeAssumption DEF HomeInv, HomeShape, Early, Mid, Up, Over, D!Ended, D!Held, D!Moves,
      D!claimVars, D!dbVars
  <1>1. CASE D!PersistCredential(a)
    <2>1. HomeShape'
      BY <1>1 DEF D!PersistCredential
    <2>2. Alone(a, b)'
      BY <1>1 DEF Alone, D!PersistCredential
    <2>3. Alone(b, a)'
      BY <1>1 DEF Alone, D!PersistCredential
    <2> QED
      BY <2>1, <2>2, <2>3 DEF HomeInv
  <1>2. CASE D!OpenDatabase(a)
    <2>1. HomeShape'
      BY <1>2 DEF D!OpenDatabase, D!Lost
    <2>2. Alone(a, b)'
      BY <1>2 DEF Alone, D!OpenDatabase, D!Lost
    <2>3. Alone(b, a)'
      BY <1>2 DEF Alone, D!OpenDatabase, D!Lost
    <2> QED
      BY <2>1, <2>2, <2>3 DEF HomeInv
  <1>3. CASE D!Migrate(a)
    <2>1. HomeShape'
      BY <1>3 DEF D!Migrate
    <2>2. Alone(a, b)'
      BY <1>3 DEF Alone, D!Migrate
    <2>3. Alone(b, a)'
      BY <1>3 DEF Alone, D!Migrate
    <2> QED
      BY <2>1, <2>2, <2>3 DEF HomeInv
  <1>4. CASE D!SweepArtifacts(a)
    <2>1. HomeShape'
      BY <1>4 DEF D!SweepArtifacts, D!Lost
    <2>2. Alone(a, b)'
      BY <1>4 DEF Alone, D!SweepArtifacts, D!Lost
    <2>3. Alone(b, a)'
      BY <1>4 DEF Alone, D!SweepArtifacts, D!Lost
    <2> QED
      BY <2>1, <2>2, <2>3 DEF HomeInv
  <1>5. CASE D!ClassifyRun(a)
    <2>1. HomeShape'
      BY <1>5 DEF D!ClassifyRun, D!Lost
    <2>2. Alone(a, b)'
      BY <1>5 DEF Alone, D!ClassifyRun, D!Lost
    <2>3. Alone(b, a)'
      BY <1>5 DEF Alone, D!ClassifyRun, D!Lost
    <2> QED
      BY <2>1, <2>2, <2>3 DEF HomeInv
  <1>6. CASE D!CommitStatus(a)
    <2>1. HomeShape'
      BY <1>6 DEF D!CommitStatus
    <2>2. Alone(a, b)'
      BY <1>6 DEF Alone, D!CommitStatus
    <2>3. Alone(b, a)'
      BY <1>6 DEF Alone, D!CommitStatus
    <2> QED
      BY <2>1, <2>2, <2>3 DEF HomeInv
  <1>7. CASE D!Bind(a)
    <2>1. HomeShape'
      BY <1>7 DEF D!Bind, D!Released
    <2>2. Alone(a, b)'
      BY <1>7 DEF Alone, D!Bind, D!Released
    <2>3. Alone(b, a)'
      BY <1>7 DEF Alone, D!Bind, D!Released
    <2> QED
      BY <2>1, <2>2, <2>3 DEF HomeInv
  <1>8. CASE D!PublishServing(a)
    <2>1. HomeShape'
      BY <1>8 DEF D!PublishServing, D!Lost
    <2>2. Alone(a, b)'
      BY <1>8 DEF Alone, D!PublishServing, D!Lost
    <2>3. Alone(b, a)'
      BY <1>8 DEF Alone, D!PublishServing, D!Lost
    <2> QED
      BY <2>1, <2>2, <2>3 DEF HomeInv
  <1> QED
    BY <1>1, <1>2, <1>3, <1>4, <1>5, <1>6, <1>7, <1>8

(* Serving and the end of a daemon. *)
LEMMA ServingKeeps ==
  ASSUME HomeInv, NEW a \in Daemons, NEW b \in Daemons, a # b, Daemons = {a, b},
         \/ D!StartServices(a) \/ D!AttachServer(a) \/ D!ClientConnects(a)
         \/ D!CloseSocket(a) \/ D!ReleaseClaim(a) \/ D!RemoveCredential(a)
         \/ D!StartFails(a) \/ D!Crash(a)
  PROVE  HomeInv'
  <1> USE HomeAssumption DEF HomeInv, HomeShape, Early, Mid, Up, Over, D!Ended, D!Held, D!Moves,
      D!claimVars, D!dbVars
  <1>1. CASE D!StartServices(a)
    <2>1. HomeShape'
      BY <1>1 DEF D!StartServices
    <2>2. Alone(a, b)'
      BY <1>1 DEF Alone, D!StartServices
    <2>3. Alone(b, a)'
      BY <1>1 DEF Alone, D!StartServices
    <2> QED
      BY <2>1, <2>2, <2>3 DEF HomeInv
  <1>2. CASE D!AttachServer(a)
    <2>1. HomeShape'
      BY <1>2 DEF D!AttachServer
    <2>2. Alone(a, b)'
      BY <1>2 DEF Alone, D!AttachServer
    <2>3. Alone(b, a)'
      BY <1>2 DEF Alone, D!AttachServer
    <2> QED
      BY <2>1, <2>2, <2>3 DEF HomeInv
  <1>3. CASE D!ClientConnects(a)
    <2>1. HomeShape'
      BY <1>3 DEF D!ClientConnects, D!Lost
    <2>2. Alone(a, b)'
      BY <1>3 DEF Alone, D!ClientConnects, D!Lost
    <2>3. Alone(b, a)'
      BY <1>3 DEF Alone, D!ClientConnects, D!Lost
    <2> QED
      BY <2>1, <2>2, <2>3 DEF HomeInv
  <1>4. CASE D!CloseSocket(a)
    <2>1. HomeShape'
      BY <1>4 DEF D!CloseSocket
    <2>2. Alone(a, b)'
      BY <1>4 DEF Alone, D!CloseSocket
    <2>3. Alone(b, a)'
      BY <1>4 DEF Alone, D!CloseSocket
    <2> QED
      BY <2>1, <2>2, <2>3 DEF HomeInv
  <1>5. CASE D!ReleaseClaim(a)
    <2>1. HomeShape'
      BY <1>5 DEF D!ReleaseClaim, D!Released
    <2>2. Alone(a, b)'
      BY <1>5 DEF Alone, D!ReleaseClaim, D!Released
    <2>3. Alone(b, a)'
      BY <1>5 DEF Alone, D!ReleaseClaim, D!Released
    <2> QED
      BY <2>1, <2>2, <2>3 DEF HomeInv
  <1>6. CASE D!RemoveCredential(a)
    <2>1. HomeShape'
      BY <1>6 DEF D!RemoveCredential
    <2>2. Alone(a, b)'
      BY <1>6 DEF Alone, D!RemoveCredential
    <2>3. Alone(b, a)'
      BY <1>6 DEF Alone, D!RemoveCredential
    <2> QED
      BY <2>1, <2>2, <2>3 DEF HomeInv
  <1>7. CASE D!StartFails(a)
    <2>1. HomeShape'
      BY <1>7 DEF D!StartFails, D!Released
    <2>2. Alone(a, b)'
      BY <1>7 DEF Alone, D!StartFails, D!Released
    <2>3. Alone(b, a)'
      BY <1>7 DEF Alone, D!StartFails, D!Released
    <2> QED
      BY <2>1, <2>2, <2>3 DEF HomeInv
  <1>8. CASE D!Crash(a)
    <2>1. HomeShape'
      BY <1>8 DEF D!Crash, D!Alive
    <2>2. Alone(a, b)'
      BY <1>8 DEF Alone, D!Crash, D!Alive
    <2>3. Alone(b, a)'
      BY <1>8 DEF Alone, D!Crash, D!Alive
    <2> QED
      BY <2>1, <2>2, <2>3 DEF HomeInv
  <1> QED
    BY <1>1, <1>2, <1>3, <1>4, <1>5, <1>6, <1>7, <1>8

LEMMA HomeStep ==
  ASSUME HomeInv, TwoDaemons, D!Next
  PROVE  HomeInv'
  <1>1. PICK a \in Daemons : D!Step(a) \/ D!ClientConnects(a) \/ D!CloseSocket(a)
                             \/ D!StartFails(a) \/ D!Crash(a)
    BY DEF D!Next
  <1>3. ASSUME NEW b \in Daemons, a # b, Daemons = {a, b}
        PROVE  HomeInv'
    BY <1>1, <1>3, ClaimKeeps, ProbeKeeps, RecoveryKeeps, ServingKeeps DEF D!Step
  <1> QED
    BY <1>3 DEF TwoDaemons

(* At most one of two daemons of a home serves, whatever claims are taken over, *)
(* sockets removed and processes killed (acquireClaim, attemptTakeover, listen). *)
THEOREM OneServes ==
  ASSUME TwoDaemons
  PROVE  MCSpec => []OneServer
  <1>1. MCInit => HomeInv
    BY HomeStarts DEF MCInit
  <1>2. HomeInv /\ [MCNext]_<<part, vars, lifecycleVars>> => HomeInv'
    <2> SUFFICES ASSUME HomeInv, [MCNext]_<<part, vars, lifecycleVars>>
                 PROVE  HomeInv'
      OBVIOUS
    <2>1. CASE D!Next
      BY <2>1, HomeStep
    <2>2. CASE UNCHANGED lifecycleVars
      BY <2>2 DEF lifecycleVars, HomeInv, HomeShape, Alone, D!Held
    <2> QED
      BY <2>1, <2>2 DEF MCNext
  <1>3. HomeInv => OneServer
    <2> SUFFICES ASSUME HomeInv PROVE OneServer
      OBVIOUS
    <2> DEFINE S == {d \in Daemons : pc[d] = "serving"}
    <2>1. \A d, e \in S : d = e
      BY DEF HomeInv, HomeShape, Alone, Early, Mid, Up, Over, D!Ended
    <2> HIDE DEF S
    <2>2. ASSUME S = {} PROVE Cardinality(S) <= 1
      BY <2>2, FS_EmptySet
    <2>3. ASSUME NEW d \in S PROVE Cardinality(S) <= 1
      <3>1. S = {d}
        BY <2>1
      <3>2. Cardinality({d}) = 1
        BY FS_Singleton
      <3> QED
        BY <3>1, <3>2
    <2>4. Cardinality(S) <= 1
      BY <2>2, <2>3
    <2>5. Cardinality({d \in Daemons : pc[d] = "serving"}) <= 1
      BY <2>4 DEF S
    <2>6. D!Cardinality({d \in Daemons : pc[d] = "serving"}) <= 1
      BY <2>5, Zenon DEF Cardinality, D!Cardinality
    <2> QED
      BY <2>6 DEF OneServer, D!OneServer
  <1>4. MCSpec => MCInit /\ [][MCNext]_<<part, vars, lifecycleVars>>
    BY PTL DEF MCSpec
  <1> QED
    BY <1>1, <1>2, <1>3, <1>4, PTL
=============================================================================
