\* One paid data job on two workers; the node crashes once and one write
\* of RUNNING fails.
CONSTANTS
  j1 = j1
  j2 = j2
  w1 = w1
  w2 = w2
  NoJob = NoJob
  NoPayment = NoPayment
  Jobs <- OneJob
  Payments <- OneJob
  Paid <- OneJob
  LocalJobs <- NoJobs
  InputJobs <- OneJob
  LateDests <- NoJobs
  Kind <- DataKind
  WfJobs <- OneRow
  OwnRows <- NoRows
  WorkflowJobID <- SameRow
  Workers <- TwoWorkers
  Callers <- TwoWorkers
  MaxDeliveries = 1
  MaxCancels = 0
  MaxRestarts = 1
  MaxFaults = 1
  StatusCap = 1
SPECIFICATION Spec
INVARIANTS PaymentsFollowOutcomes
CHECK_DEADLOCK FALSE
SYMMETRY WorkerSymmetry
