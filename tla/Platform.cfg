SPECIFICATION Spec
CONSTANTS
  Graphs <- MCGraphs
  MaxCrashes = 1
  Repositories = {r}
  Files = {f, g}
  Artifacts = {a}
  MaxReferences = 1
  MaxMoves = 3
  Templates <- MCTemplates
  Targets = {"t"}
  Attachable = {"x"}
  AttachIds = {1, 2}
  MaxGraphRevisions = 3
  MaxOverrides = 1
  Findings = {f, g}
  MaxReports = 3
  Runs = {r1}
  Sessions = {s1, s2}
  Verdicts = {"alive", "unknown"}
  MaxAttempts = 2
  MaxQuestions = 2
SYMMETRY MCSymmetry
INVARIANTS
  SessionIsLatest ResumesWhereItStopped AttachedBeforeDependants ReadyMeansFixed
  WaitingIsAnswerable
PROPERTIES
  AnswersPrecedeSubmission
CHECK_DEADLOCK FALSE
