\* Three jobs, one on this node, two concurrent handlers, one crash.
CONSTANTS
  h1 = h1
  h2 = h2
  NoUpdate = NoUpdate
  JobCount = 3
  LocalJobs <- FirstLocal
  Handlers <- TwoHandlers
  MaxRestarts = 1
SPECIFICATION Spec
INVARIANTS TypeOK RowsTellTheTruth VerdictIsRight
SYMMETRY HandlerSymmetry
CHECK_DEADLOCK FALSE
