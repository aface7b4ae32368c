CONSTANTS
    Repos <- MCRepos
    Dags <- MCDags
    Interrupted = {2}
    Prereqs = {1}
    Replacement <- MCReplacement
    MaxWorkers = 2
    MaxRevisions = 2
    MaxTrouble = 1
    Outside = Outside
SPECIFICATION Spec
INVARIANTS
  
  LiveChildrenAreLeased
PROPERTIES
  ImplementsLog
  TasksSettle
