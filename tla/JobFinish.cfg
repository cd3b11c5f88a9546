\* One standalone job that waits for inputs and destinations, one worker.  Its start
\* arrives twice, and its workflow_job_id is also the id of a row of this node.
CONSTANTS
  j1 = j1
  j2 = j2
  w1 = w1
  w2 = w2
  NoJob = NoJob
  NoPayment = NoPayment
  Jobs <- OneJob
  Payments <- OneJob
  Paid <- NoJobs
  LocalJobs <- NoJobs
  InputJobs <- OneJob
  LateDests <- OneJob
  Kind <- StandaloneKind
  WfJobs <- OneRow
  OwnRows <- OneRow
  WorkflowJobID <- SameRow
  Workers <- OneWorker
  Callers <- OneWorker
  MaxDeliveries = 2
  MaxCancels = 0
  MaxRestarts = 0
  MaxFaults = 0
  StatusCap = 1
SPECIFICATION FairSpec
PROPERTY StartedJobsFinish
CHECK_DEADLOCK FALSE
