--------------------------- MODULE ReviewFindings ---------------------------
(* The findings of one run: review, repair and final-verification reports are  *)
(* checked by the runner that produced them (validateStructuredReviewReport,     *)
(* validateStageCompletion), ingested into an append-only log and folded into   *)
(* a projection, one snapshot per finding (finding-store).  A stage that is      *)
(* driven again after a crash brings its report a second time, and the          *)
(* projection can be rebuilt from the log.                                  *)
EXTENDS Integers, SequencesExt

CONSTANTS Findings,    \* finding ids
          MaxReports   \* bound: reports of the run
VARIABLES
  reports,      \* pipeline_finding_report, by sequence
  projection,   \* pipeline_finding_projection, by finding
  presented     \* the report presented last and what became of it

vars == <<reports, projection, presented>>

Blocking == {"critical", "major"}
Severities == {"major", "minor"}
NoFinding == [origin |-> 0]
Empty == [f \in Findings |-> NoFinding]

Partial(S, T) == UNION {[D -> T] : D \in SUBSET S}

(* The reports the contracts admit.  Ids are the agents' own: the ones in use are *)
(* named by their place in the log, a fresh one by the next place.             *)
Fresh == Len(reports) + 1
Ids == 1..Fresh
Reviews(ids) == [id : ids, kind : {"review"}, verdict : {"ready", "not_ready"},
                 findings : Partial(Findings, [severity : Severities, accepted : BOOLEAN,
                                               verified : BOOLEAN])]
Repairs(ids) == [id : ids, kind : {"repair"}, source : Ids,
                 entries : Partial(Findings, {"applied", "skipped", "failed"})]
Verifications(ids) == [id : ids, kind : {"final_verification"}, verdict : {"ready", "not_ready"},
                       sources : SUBSET Ids,
                       results : Partial(Findings, {"fixed", "unresolved", "not_applicable"})]

Init == reports = <<>> /\ projection = Empty /\ presented = "none"

-----------------------------------------------------------------------------
(* validateStructuredReviewReport, and with it validateStageCompletion: the     *)
(* stage succeeds only on a satisfied schema check                            *)
WellFormed(r) ==
  /\ r.kind = "review" => \A f \in DOMAIN r.findings :
       /\ r.findings[f].accepted <=> r.findings[f].verified
       /\ ~(r.verdict = "ready" /\ r.findings[f].accepted /\ r.findings[f].severity \in Blocking)
  /\ r.kind = "final_verification" => \A f \in DOMAIN r.results :
       ~(r.verdict = "ready" /\ r.results[f] = "unresolved")

Stored(log, id, kind) == \E i \in DOMAIN log : log[i].id = id /\ log[i].kind = kind
Known(table) == {f \in Findings : table[f] # NoFinding}
Actionable(table, source) ==
  {f \in Known(table) : table[f].origin = source /\ table[f].accepted}

(* a verification names reviews and repairs that are stored, and the repairs     *)
(* descend from the reviews                                                  *)
Lineage(log, r) ==
  /\ r.sources \subseteq {log[i].id : i \in {j \in DOMAIN log : log[j].kind # "final_verification"}}
  /\ \A i \in DOMAIN log :
       log[i].id \in r.sources /\ log[i].kind = "repair" => log[i].source \in r.sources

(* Mutant of Covers: a verification may leave findings out. *)
CoversSome(table, r) == \A f \in DOMAIN r.results : table[f] # NoFinding

(* the verification speaks of every finding of the run, and of no other *)
Covers(table, r) ==
  /\ DOMAIN r.results = Known(table)
  /\ \A f \in Known(table) : table[f].origin \in r.sources

(* assertReportTransition, against the log and the projection *)
Legal(log, table, r) ==
  CASE r.kind = "review" ->
         WellFormed(r) /\ DOMAIN r.findings \cap Known(table) = {}
    [] r.kind = "repair" ->
         /\ Stored(log, r.source, "review")
         /\ DOMAIN r.entries = Actionable(table, r.source)
         /\ \A f \in DOMAIN r.entries :
              r.entries[f] = "skipped" => table[f].severity = "minor"
    [] r.kind = "final_verification" ->
         /\ Lineage(log, r) /\ Covers(table, r)
         /\ \A f \in DOMAIN r.results : table[f].accepted <=> r.results[f] # "not_applicable"
         /\ WellFormed(r)

(* applyReport: what the report writes *)
Applied(table, r) ==
  CASE r.kind = "review" ->
         [f \in Findings |->
            IF f \notin DOMAIN r.findings THEN table[f]
            ELSE [origin |-> r.id, severity |-> r.findings[f].severity,
                  accepted |-> r.findings[f].accepted,
                  repair |-> IF r.findings[f].accepted THEN "pending" ELSE "not_required",
                  resolution |-> IF r.findings[f].accepted THEN "pending" ELSE "not_applicable",
                  latest |-> r.id, revision |-> 1]]
    [] r.kind = "repair" ->
         [f \in Findings |->
            IF f \notin DOMAIN r.entries THEN table[f]
            ELSE [table[f] EXCEPT !.repair = r.entries[f], !.latest = r.id, !.revision = @ + 1]]
    [] r.kind = "final_verification" ->
         [f \in Findings |->
            IF f \notin DOMAIN r.results THEN table[f]
            ELSE [table[f] EXCEPT !.resolution = r.results[f], !.latest = r.id,
                                  !.revision = @ + 1]]

-----------------------------------------------------------------------------
Recorded == {reports[i] : i \in DOMAIN reports}

(* recordFindingReport in the artifact's publication, after                    *)
(* validateFindingReportIngestion; the log row and the projection are one       *)
(* transaction                                                              *)
Acceptable(r) ==
  /\ WellFormed(r)
  /\ r.id \notin {q.id : q \in Recorded} /\ Legal(reports, projection, r)

Record(r) ==
  /\ Len(reports) < MaxReports /\ Acceptable(r)
  /\ reports' = Append(reports, r)
  /\ projection' = Applied(projection, r)
  /\ presented' = "recorded"

(* the stage was driven again and its report has the id and the bytes of one    *)
(* that is stored                                                           *)
RecordAgain(r) ==
  /\ r \in Recorded
  /\ presented' = "known"
  /\ UNCHANGED <<reports, projection>>

(* the stage fails validation, or ingestion throws before anything is published: *)
(* some report that can be presented is neither acceptable nor known            *)
Refuse(S) ==
  /\ Len(reports) < MaxReports
  /\ ~(\A r \in S : r \in Recorded \/ Acceptable(r))
  /\ presented' = "refused"
  /\ UNCHANGED <<reports, projection>>

(* rebuildFindingProjection: the log is applied from the first report on, each  *)
(* checked again; a report that is refused now ends the rebuild                *)
Rebuilt ==
  FoldLeft(LAMBDA acc, r : IF acc.legal /\ Legal(reports, acc.table, r)
                           THEN [acc EXCEPT !.table = Applied(acc.table, r)]
                           ELSE [acc EXCEPT !.legal = FALSE],
           [legal |-> TRUE, table |-> Empty], reports)

Rebuild ==
  /\ reports # <<>> /\ Rebuilt.legal
  /\ projection' = Rebuilt.table /\ presented' = "rebuilt"
  /\ UNCHANGED reports

Next ==
  \/ \E r \in Reviews({Fresh}) : Record(r)
  \/ \E r \in Repairs({Fresh}) : Record(r)
  \/ \E r \in Verifications({Fresh}) : Record(r)
  \/ \E i \in DOMAIN reports : RecordAgain(reports[i])
  \/ Refuse(Reviews(Ids))
  \/ Refuse(Repairs(Ids))
  \/ Refuse(Verifications(Ids))
  \/ Rebuild

Spec == Init /\ [][Next]_vars

-----------------------------------------------------------------------------
(* A ready final verification closes the run's findings: from its report until   *)
(* the next review no accepted finding is pending or unresolved, and none was    *)
(* left out.                                                                *)
ReadyMeansFixed ==
  \A i \in DOMAIN reports :
    (/\ reports[i].kind = "final_verification" /\ reports[i].verdict = "ready"
     /\ \A j \in (i + 1)..Len(reports) : reports[j].kind = "repair")
      => \A f \in Known(projection) : projection[f].accepted => projection[f].resolution = "fixed"
=============================================================================
