\* Two jobs, one on this node; updates are handled one after the other.
CONSTANTS
  h1 = h1
  h2 = h2
  NoUpdate = NoUpdate
  JobCount = 2
  LocalJobs <- FirstLocal
  Handlers <- OneHandler
  MaxRestarts = 1
SPECIFICATION FairSpec
PROPERTIES EndedRowsStay EndedWorkflowsClose
CHECK_DEADLOCK FALSE
