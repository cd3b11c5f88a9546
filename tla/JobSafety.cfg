\* One paid Docker job that waits for inputs, one cancel, two workers.
CONSTANTS
  j1 = j1
  j2 = j2
  w1 = w1
  w2 = w2
  NoJob = NoJob
  NoPayment = NoPayment
  Jobs <- OneJob
  Payments <- OneJob
  Paid <- OneJob
  LocalJobs <- NoJobs
  InputJobs <- OneJob
  LateDests <- NoJobs
  Kind <- DockerKind
  WfJobs <- OneRow
  OwnRows <- NoRows
  WorkflowJobID <- SameRow
  Workers <- TwoWorkers
  Callers <- TwoWorkers
  MaxDeliveries = 1
  MaxCancels = 1
  MaxRestarts = 0
  MaxFaults = 0
  StatusCap = 1
SPECIFICATION Spec
INVARIANTS TypeOK RunsOnlyWhenEligible AtMostOneWorkerPerJob PaymentsFollowOutcomes RowsLagLedger DockerPaidAfterTransfer
CHECK_DEADLOCK FALSE
SYMMETRY WorkerSymmetry
