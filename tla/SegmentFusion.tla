--------------------------- MODULE SegmentFusion ---------------------------
(* Segment fusion of one run: before an agent stage starts,                 *)
(* planFusionDispatch either lets it join the open execution segment (one     *)
(* backend session shared by successive stages) or closes that segment and    *)
(* opens the next.  The decision, the segment rows and the metrics are        *)
(* separate transactions, so the daemon can die between any two of them; the   *)
(* intent is then driven, and planned, again.  Dispatches are driven one at a  *)
(* time.                                                                    *)
EXTENDS Integers, Sequences, FiniteSetsExt, SequencesExt

CONSTANTS Graphs,      \* frozen graphs: stage -> [type, profile, policy, preds]
          MaxCrashes   \* bound: deaths of the daemon
VARIABLES
  graph,      \* the run's graph
  segments,   \* pipeline_execution_segment, by segment id
  decisions,  \* pipeline_fusion_decision: [to, outcome]
  metrics,    \* pipeline_segment_metrics
  planned,    \* the stages planned for, in order (history)
  launched,   \* the stages whose runner started, in order
  drive,      \* the dispatch in progress, in memory
  crashes

vars == <<graph, segments, decisions, metrics, planned, launched, drive, crashes>>

Absent == [status |-> "absent"]
Idle == [step |-> "idle"]
Pressures == {"unavailable", "continue", "soft", "hard"}

(* The hints a dispatch intent may carry: the predecessor's execution, its    *)
(* workspace (never the attempt's own, which is new) and the context pressure. *)
Hints == [prior : BOOLEAN, workspace : BOOLEAN, pressure : Pressures]

(* deriveSegmentId: a digest of the run, the profile and the ordinal *)
SegmentIds == {<<p, o>> : p \in {graph[s].profile : s \in DOMAIN graph}, o \in {0, 1}}

Open == {i \in DOMAIN segments : segments[i].status = "open"}

(* readOpenExecutionSegment: the latest started *)
OpenId == CHOOSE i \in Open : \A j \in Open : segments[j].startedAt <= segments[i].startedAt

Init ==
  /\ graph \in Graphs
  /\ segments = [i \in SegmentIds |-> Absent]
  /\ decisions = {} /\ planned = <<>> /\ launched = <<>> /\ drive = Idle /\ crashes = 0
  /\ metrics = [sessions |-> 0, coldStarts |-> 0, fusedStages |-> 0]

-----------------------------------------------------------------------------
(* evaluateContextPressure; the dispatch reports a measured ratio or none *)
PressureReason(p) ==
  CASE p = "unavailable" -> "pressure_unavailable"
    [] p = "hard" -> "pressure_hard_threshold"
    [] p = "soft" -> "pressure_soft_threshold"
    [] p = "continue" -> "none"

(* requiresFreshReview: the dispatch passes no role *)
RequiresFreshReview(stage) == stage.policy = "fresh"

(* evaluateFusion: the first reason that applies.  A stage with no or several  *)
(* predecessors stands for an agent in the type check and is not adjacent;     *)
(* the dispatch passes neither fingerprints nor permission digests, retries     *)
(* are not planned and the backend is taken to support continuation.          *)
SplitReason(s, hint) ==
  LET adjacent == Cardinality(graph[s].preds) = 1
      before == IF adjacent THEN CHOOSE q \in graph[s].preds : TRUE ELSE s
      from == graph[before]
      to == graph[s]
      checks == << <<from.type # "agent", "non_agent_stage">>,
                   <<~adjacent, "not_adjacent">>,
                   <<Cardinality({t \in DOMAIN graph : before \in graph[t].preds}) # 1,
                     "branching_ambiguity">>,
                   <<to.policy = "fresh", "explicit_fresh">>,
                   <<RequiresFreshReview(from), "fresh_review_required">>,
                   <<from.profile # to.profile, "profile_mismatch">>,
                   <<hint.workspace, "workspace_mismatch">>,
                   <<TRUE, PressureReason(hint.pressure)>> >>
  IN  checks[Min({i \in DOMAIN checks : checks[i][1]})][2]

(* canFuse.  An unbound backend is null in the row and passes the comparison   *)
(* with undefined.                                                          *)
CanFuse(s, hint) == SplitReason(s, hint) = "none" /\ Open # {} /\ hint.prior

-----------------------------------------------------------------------------
(* driveDispatch of a stage whose predecessors are done, up to the recorded    *)
(* decision; a stage of a dead drive is driven again.                        *)
Ready(s) == s \notin Range(launched) /\ graph[s].preds \subseteq Range(launched)

(* buildDecision; its id holds the time, so a stage planned again has another *)
Decided(s, hint) == [to |-> s, outcome |-> IF CanFuse(s, hint) THEN "fuse" ELSE "split"]

Plan(s) ==
  /\ drive = Idle /\ Ready(s) /\ graph[s].type = "agent"
  /\ \E hint \in Hints :
       /\ drive' = [step |-> IF CanFuse(s, hint) THEN "join" ELSE "close",
                    stage |-> s, open |-> Open,
                    segment |-> IF Open = {} THEN <<graph[s].profile, 0>> ELSE OpenId]
       /\ decisions' = decisions \cup {Decided(s, hint)}
  /\ planned' = Append(planned, s)
  /\ UNCHANGED <<graph, segments, metrics, launched, crashes>>

(* a stage of another type is driven without a segment *)
StartOther(s) ==
  /\ drive = Idle /\ Ready(s) /\ graph[s].type # "agent"
  /\ launched' = Append(launched, s)
  /\ UNCHANGED <<graph, segments, decisions, metrics, planned, drive, crashes>>

(* patchExecutionSegment *)
Patched(id, row) == [segments EXCEPT ![id] = row]

(* the stage is appended to the open segment *)
JoinSegment ==
  /\ drive.step = "join"
  /\ segments' = Patched(drive.segment,
                        [segments[drive.segment] EXCEPT !.stages = Append(@, drive.stage)])
  /\ drive' = [drive EXCEPT !.step = "joined"]
  /\ UNCHANGED <<graph, decisions, metrics, planned, launched, crashes>>

RecordFusedStage ==
  /\ drive.step = "joined"
  /\ metrics' = [metrics EXCEPT !.fusedStages = @ + 1]
  /\ drive' = [drive EXCEPT !.step = "start"]
  /\ UNCHANGED <<graph, segments, decisions, planned, launched, crashes>>

(* Mutant of CloseSegment: a split leaves the previous segment open. *)
CloseSegmentForgotten ==
  /\ drive.step = "close"
  /\ drive' = [drive EXCEPT !.step = "open",
                            !.segment = <<graph[drive.stage].profile,
                                          IF drive.open = {} THEN 0 ELSE 1>>]
  /\ UNCHANGED <<graph, segments, decisions, metrics, planned, launched, crashes>>

(* a split closes the segment it found open; the new id's ordinal is 0 or 1 *)
CloseSegment ==
  /\ drive.step = "close"
  /\ segments' = IF drive.open = {} THEN segments
                 ELSE Patched(drive.segment, [segments[drive.segment] EXCEPT !.status = "closed"])
  /\ drive' = [drive EXCEPT !.step = "open",
                            !.segment = <<graph[drive.stage].profile,
                                          IF drive.open = {} THEN 0 ELSE 1>>]
  /\ UNCHANGED <<graph, decisions, metrics, planned, launched, crashes>>

(* insertExecutionSegment: an id that is taken is left as it is *)
OpenSegment ==
  /\ drive.step = "open"
  /\ segments' = IF segments[drive.segment] # Absent THEN segments
                 ELSE [segments EXCEPT ![drive.segment] =
                        [status |-> "open", stages |-> <<drive.stage>>, backend |-> 0,
                         startedAt |-> Len(planned)]]
  /\ drive' = [drive EXCEPT !.step = "opened"]
  /\ UNCHANGED <<graph, decisions, metrics, planned, launched, crashes>>

RecordColdStartSession ==
  /\ drive.step = "opened"
  /\ metrics' = [metrics EXCEPT !.sessions = @ + 1, !.coldStarts = @ + 1]
  /\ drive' = [drive EXCEPT !.step = "start"]
  /\ UNCHANGED <<graph, segments, decisions, planned, launched, crashes>>

(* the runner starts; bindSegmentBackendExecution *)
StartAgent ==
  /\ drive.step = "start"
  /\ segments' = IF Open = {} THEN segments
                 ELSE Patched(OpenId, [segments[OpenId] EXCEPT !.backend = drive.stage])
  /\ launched' = Append(launched, drive.stage)
  /\ drive' = Idle
  /\ UNCHANGED <<graph, decisions, metrics, planned, crashes>>

(* the daemon dies during a drive and starts again *)
Crash ==
  /\ drive # Idle /\ crashes < MaxCrashes
  /\ crashes' = crashes + 1 /\ drive' = Idle
  /\ UNCHANGED <<graph, segments, decisions, metrics, planned, launched>>

Next ==
  \/ \E s \in DOMAIN graph : Plan(s)
  \/ \E s \in DOMAIN graph : StartOther(s)
  \/ JoinSegment \/ RecordFusedStage
  \/ CloseSegment \/ OpenSegment \/ RecordColdStartSession
  \/ StartAgent \/ Crash

Spec == Init /\ [][Next]_vars

-----------------------------------------------------------------------------
(* The session a stage may join is the latest: at most one segment is open, and *)
(* between two dispatches no agent has started that was planned after the stage   *)
(* the open segment ends with, however many plans died half way.               *)
SessionIsLatest ==
  /\ Cardinality(Open) <= 1
  /\ (drive = Idle /\ Open # {}) =>
       \A i \in DOMAIN planned : planned[i] \in Range(launched) =>
         \E j \in i..Len(planned) : planned[j] = Last(segments[OpenId].stages)

=============================================================================
