---------------------------- MODULE JobExecution ----------------------------
(***************************************************************************)
(* The executor side of a node (internal/core/job_manager.go with its      *)
(* worker pool and the job_executions table): how a job execution that was *)
(* requested by an ordering peer is accepted, started, dispatched, run,    *)
(* reported and paid for.                                                  *)
(*                                                                         *)
(* The goroutines of the code are the processes of the model: one handler  *)
(* per delivered job_start message, one per job_cancel message, the job    *)
(* queue processor, the input readiness checker, the workers of the pool   *)
(* and the status update worker.  Every statement that reads or writes the *)
(* database, the runningJobs map or a channel is a step, because another   *)
(* goroutine can run between two of them.  SQLite statements succeed and   *)
(* are atomic, except where the code has an early return the model keeps.  *)
(***************************************************************************)
EXTENDS Naturals, Sequences, FiniteSets, Escrow

CONSTANTS Jobs,          \* job_executions ids; Payments is the same set
          Paid,          \* jobs whose service has PricingAmount > 0
          LocalJobs,     \* jobs ordered by this very node
          InputJobs,     \* jobs with ExecutionConstraint INPUTS_READY
          LateDests,     \* jobs that may start before a destination has accepted
          Kind,          \* Jobs -> {"data", "docker", "standalone"}
          WfJobs,        \* ids that occur as workflow_job_id
          OwnRows,       \* ids of the workflow_jobs rows of this node
          WorkflowJobID, \* Jobs -> WfJobs: the orchestrator's id of the job
          Workers,       \* goroutines of the worker pool; also the Callers
          NoJob,
          MaxDeliveries, \* copies of one job_start that may arrive
          MaxCancels,    \* bound on job_cancel messages per job
          MaxRestarts,   \* bound on crashes of the node
          MaxFaults,     \* bound on failing writes of status RUNNING
          StatusCap      \* capacity of statusUpdateChan (100 in the code)

ASSUME JobConstantsAssumption ==
  /\ Payments = Jobs
  /\ Callers = Workers
  /\ NoJob \notin Jobs
  /\ Paid \subseteq Jobs \ LocalJobs
  /\ LocalJobs \subseteq Jobs
  /\ InputJobs \subseteq Jobs
  /\ LateDests \subseteq Jobs
  /\ Kind \in [Jobs -> {"data", "docker", "standalone"}]
  /\ WorkflowJobID \in [Jobs -> WfJobs]
  /\ OwnRows \subseteq WfJobs
  /\ \A j \in LocalJobs : WorkflowJobID[j] \in OwnRows
  /\ IsFiniteSet(Workers) /\ Workers # {}
  /\ MaxDeliveries \in Nat \ {0} /\ MaxCancels \in Nat /\ MaxRestarts \in Nat
  /\ MaxFaults \in Nat /\ StatusCap \in Nat \ {0}

VARIABLES
  \* database: tables job_executions, job_interfaces, job_payments, workflow_jobs
  status,         \* job_executions.status; "none": not created
  startReceived,  \* job_executions.start_received
  interfaces,     \* the job's interface rows exist
  linked,         \* job_payments.job_execution_id points at the job
  wfRow,          \* this node's workflow_jobs.status; "absent": no such row
  \* file system and network, seen through the readiness checks
  inputs,         \* every expected source directory has content
  dests,          \* every output destination has a job_execution_id
  outputs,        \* the outputs: kept here, all sent, or some lost on the way
  \* memory
  running,        \* the runningJobs map
  reqPc,          \* HandleJobRequest, per job
  startPc,        \* HandleJobStart, per job and delivery
  cancels,        \* cancel handlers that wrote CANCELLED, and finished ones
  batch, queuePc, queueJob,      \* processJobQueue: the READY snapshot
  idle, checkJob,                \* checkIdleJobsForReadiness: the IDLE snapshot
  tasks,                         \* workerChan
  workPc, workJob, report, panicked,  \* executeJob in each worker
  updates,        \* how many updates wait in statusUpdateChan
  restarts, faults,              \* how many bounded events have happened
  completed, failed              \* history: jobs with a successful, failed run

jobVars    == <<status, startReceived, interfaces, linked, wfRow>>
envVars    == <<inputs, dests, outputs>>
handleVars == <<reqPc, startPc, cancels>>
queueVars  == <<batch, queuePc, queueJob>>
checkVars  == <<idle, checkJob>>
workVars   == <<workPc, workJob, report, panicked>>
boundVars  == <<restarts, faults>>
histVars   == <<completed, failed>>
vars == <<jobVars, envVars, running, handleVars, queueVars, checkVars, tasks,
          workVars, updates, boundVars, histVars, escrowVars>>

Deliveries == 1..MaxDeliveries
Status     == {"none", "IDLE", "READY", "RUNNING", "COMPLETED", "ERRORED", "CANCELLED"}
Terminal   == {"COMPLETED", "ERRORED", "CANCELLED"}
Output     == {"kept", "sent", "lost"}
RowStatus  == {"absent", "PENDING", "RUNNING", "COMPLETED", "ERRORED"}
StartPc    == {"none", "write1", "mark", "check", "READY", "IDLE", "done"}
WorkPc     == {"idle", "begin", "rowRead", "rowWrite", "exec", "transfer",
               "defer", "final", "paying", "recover"}

TypeOK ==
  /\ EscrowTypeOK
  /\ status \in [Jobs -> Status]
  /\ startReceived \in [Jobs -> BOOLEAN]
  /\ interfaces \in [Jobs -> BOOLEAN]
  /\ linked \in [Jobs -> BOOLEAN]
  /\ wfRow \in [WfJobs -> RowStatus]
  /\ inputs \in [Jobs -> BOOLEAN]
  /\ dests \in [Jobs -> BOOLEAN]
  /\ outputs \in [Jobs -> Output]
  /\ running \subseteq Jobs
  /\ reqPc \in [Jobs -> {"none", "submit", "link", "accepted", "refused"}]
  /\ startPc \in [Jobs -> [Deliveries -> StartPc]]
  /\ cancels \in [Jobs -> [written : 0..MaxCancels, deleted : 0..MaxCancels]]
  /\ batch \subseteq Jobs
  /\ queuePc \in {"scan", "submit", "mark"}
  /\ queueJob \in Jobs \cup {NoJob}
  /\ idle \subseteq Jobs
  /\ checkJob \in Jobs \cup {NoJob}
  /\ tasks \in Seq(Jobs)
  /\ workPc \in [Workers -> WorkPc]
  /\ workJob \in [Workers -> Jobs \cup {NoJob}]
  /\ report \in [Workers -> {"RUNNING", "COMPLETED", "ERRORED"}]
  /\ panicked \in [Workers -> BOOLEAN]
  /\ updates \in 0..StatusCap
  /\ restarts \in 0..MaxRestarts
  /\ faults \in 0..MaxFaults
  /\ completed \subseteq Jobs
  /\ failed \subseteq Jobs

Init ==
  /\ EscrowInit
  /\ status = [j \in Jobs |-> "none"]
  /\ startReceived = [j \in Jobs |-> FALSE]
  /\ interfaces = [j \in Jobs |-> FALSE]
  /\ linked = [j \in Jobs |-> FALSE]
  \* phase 1 of executeWorkflowJobs has created the rows of this node's workflows
  /\ wfRow = [i \in WfJobs |-> IF i \in OwnRows THEN "PENDING" ELSE "absent"]
  /\ inputs = [j \in Jobs |-> FALSE]
  /\ dests = [j \in Jobs |-> j \notin LateDests]
  /\ outputs = [j \in Jobs |-> "kept"]
  /\ running = {}
  /\ reqPc = [j \in Jobs |-> "none"]
  /\ startPc = [j \in Jobs |-> [d \in Deliveries |-> "none"]]
  /\ cancels = [j \in Jobs |-> [written |-> 0, deleted |-> 0]]
  /\ batch = {} /\ queuePc = "scan" /\ queueJob = NoJob
  /\ idle = {} /\ checkJob = NoJob
  /\ tasks = <<>>
  /\ workPc = [w \in Workers |-> "idle"]
  /\ workJob = [w \in Workers |-> NoJob]
  /\ report = [w \in Workers |-> "RUNNING"]
  /\ panicked = [w \in Workers |-> FALSE]
  /\ updates = 0
  /\ restarts = 0 /\ faults = 0
  /\ completed = {} /\ failed = {}

-----------------------------------------------------------------------------
(* Environment: data arrives; destinations accept their jobs. *)

InputsArrive(j) ==
  /\ j \in InputJobs   \* nothing looks at the inputs of other jobs
  /\ status[j] # "none" /\ ~inputs[j]
  /\ inputs' = [inputs EXCEPT ![j] = TRUE]
  /\ UNCHANGED <<jobVars, dests, outputs, running, handleVars, queueVars, checkVars,
                 tasks, workVars, updates, boundVars, histVars, escrowVars>>

DestinationsAccept(j) ==
  /\ ~dests[j]
  /\ dests' = [dests EXCEPT ![j] = TRUE]
  /\ UNCHANGED <<jobVars, inputs, outputs, running, handleVars, queueVars, checkVars,
                 tasks, workVars, updates, boundVars, histVars, escrowVars>>

(* Mutant: interface rows are enough, missing files are not noticed. *)
checkInputsDeclared(j) == interfaces[j]

(* checkInputsReady: nothing is ready before the interface rows exist. *)
checkInputsReady(j) == interfaces[j] /\ inputs[j]

(* checkOutputDestinationsReady: only the rows that exist are looked at. *)
checkOutputDestinationsReady(j) == interfaces[j] => dests[j]

UpdateJobStatus(j, s) == status' = [status EXCEPT ![j] = s]

(* The INSERTs of a job execution and of its interfaces with their peers. *)
CreateJobExecution(j) == UpdateJobStatus(j, "IDLE")
CreateJobInterface(j) == interfaces' = [interfaces EXCEPT ![j] = TRUE]

-----------------------------------------------------------------------------
(* HandleJobRequest: verify the payment, create the job, link the payment. *)

(* The escrow of a paid job is created first; a refused payment ends it. *)
VerifyPayment(j) ==
  /\ reqPc[j] = "none"
  /\ \/ /\ j \notin Paid
        /\ reqPc' = [reqPc EXCEPT ![j] = "submit"]
        /\ UNCHANGED escrowVars
     \/ /\ j \in Paid
        /\ CreateEscrow(j)
        /\ reqPc' = [reqPc EXCEPT ![j] = "submit"]
     \/ /\ j \in Paid
        /\ reqPc' = [reqPc EXCEPT ![j] = "refused"]
        /\ UNCHANGED escrowVars
  /\ UNCHANGED <<jobVars, envVars, running, startPc, cancels, queueVars, checkVars,
                 tasks, workVars, updates, boundVars, histVars>>

(* SubmitJobWithOptions(skipInterfaces): the job is created IDLE, or, when   *)
(* that fails, a verified payment is given back before the request is        *)
(* refused.  Nobody else can know the payment yet, so the refund is one step.*)
SubmitJob(j) ==
  /\ reqPc[j] = "submit"
  /\ \/ /\ CreateJobExecution(j)
        /\ reqPc' = [reqPc EXCEPT ![j] = IF j \in Paid THEN "link" ELSE "accepted"]
        /\ UNCHANGED <<escrowVars, failed>>
     \/ /\ reqPc' = [reqPc EXCEPT ![j] = "refused"]
        /\ failed' = failed \cup {j}
        /\ \/ /\ j \in Paid
              /\ ledger' = [ledger EXCEPT ![j] = @ \cup {"refund"}]
              /\ \/ payStatus' = [payStatus EXCEPT ![j] = "refunded"]
                 \/ UNCHANGED payStatus
              /\ UNCHANGED <<callPc, callPay>>
           \/ UNCHANGED escrowVars
        /\ UNCHANGED status
  /\ UNCHANGED <<startReceived, interfaces, linked, wfRow, envVars, running, startPc,
                 cancels, queueVars, checkVars, tasks, workVars, updates, boundVars,
                 completed>>

(* UpdateJobPaymentExecutionID; its failure is only logged. *)
LinkPayment(j) ==
  /\ reqPc[j] = "link"
  /\ reqPc' = [reqPc EXCEPT ![j] = "accepted"]
  /\ linked' \in {linked, [linked EXCEPT ![j] = TRUE]}
  /\ UNCHANGED <<status, startReceived, interfaces, wfRow, envVars, running, startPc,
                 cancels, queueVars, checkVars, tasks, workVars, updates, boundVars,
                 histVars, escrowVars>>

-----------------------------------------------------------------------------
(* HandleJobStart.  One message may be delivered several times: SendJobStart *)
(* tries the direct connection, then a relay, then the relay once more, and  *)
(* a copy whose answer was lost has been handled all the same.  A local job  *)
(* is started by a direct call, so exactly once.                             *)

StepStart(j, d, from, to) ==
  /\ startPc[j][d] = from
  /\ startPc' = [startPc EXCEPT ![j][d] = to]

(* The job is looked up; CreateJobInterfaces inserts the interface rows. *)
HandleJobStart(j, d) ==
  /\ reqPc[j] = "accepted"
  /\ j \in LocalJobs => d = 1
  /\ \A e \in 1..(d - 1) : startPc[j][e] # "none"
  /\ StepStart(j, d, "none", "write1")
  /\ CreateJobInterface(j)
  /\ UNCHANGED <<status, startReceived, linked, wfRow, envVars, running, reqPc, cancels,
                 queueVars, checkVars, tasks, workVars, updates, boundVars, histVars,
                 escrowVars>>

(* CreateJobInterfaces ends with a status write of its own: READY when the   *)
(* inputs are there or, for an unconstrained job, when its destinations are. *)
CreateJobInterfaces(j, d) ==
  /\ StepStart(j, d, "write1", "mark")
  /\ IF IF j \in InputJobs THEN checkInputsReady(j) ELSE checkOutputDestinationsReady(j)
     THEN UpdateJobStatus(j, "READY")
     ELSE UNCHANGED status
  /\ UNCHANGED <<startReceived, interfaces, linked, wfRow, envVars, running, reqPc, cancels,
                 queueVars, checkVars, tasks, workVars, updates, boundVars, histVars,
                 escrowVars>>

MarkJobStartReceived(j, d) ==
  /\ StepStart(j, d, "mark", "check")
  /\ startReceived' = [startReceived EXCEPT ![j] = TRUE]
  /\ UNCHANGED <<status, interfaces, linked, wfRow, envVars, running, reqPc, cancels,
                 queueVars, checkVars, tasks, workVars, updates, boundVars, histVars,
                 escrowVars>>

(* The status to write is decided on the inputs alone ... *)
DecideStartStatus(j, d) ==
  /\ StepStart(j, d, "check", IF j \in InputJobs => checkInputsReady(j)
                              THEN "READY" ELSE "IDLE")
  /\ UNCHANGED <<jobVars, envVars, running, reqPc, cancels, queueVars, checkVars, tasks,
                 workVars, updates, boundVars, histVars, escrowVars>>

(* ... and written over whatever the status has become. *)
WriteStartStatus(j, d) ==
  /\ startPc[j][d] \in {"READY", "IDLE"}
  /\ UpdateJobStatus(j, startPc[j][d])
  /\ startPc' = [startPc EXCEPT ![j][d] = "done"]
  /\ UNCHANGED <<startReceived, interfaces, linked, wfRow, envVars, running, reqPc, cancels,
                 queueVars, checkVars, tasks, workVars, updates, boundVars, histVars,
                 escrowVars>>

StartStep(j, d) == \/ CreateJobInterfaces(j, d) \/ MarkJobStartReceived(j, d)
                   \/ DecideStartStatus(j, d) \/ WriteStartStatus(j, d)

-----------------------------------------------------------------------------
(* HandleJobCancel / CancelJob: the status, then the runningJobs entry.  The *)
(* worker that executes the job is not told.                                 *)

CancelJob(j) ==
  /\ reqPc[j] = "accepted"
  /\ cancels[j].written < MaxCancels
  /\ UpdateJobStatus(j, "CANCELLED")
  /\ cancels' = [cancels EXCEPT ![j].written = @ + 1]
  /\ UNCHANGED <<startReceived, interfaces, linked, wfRow, envVars, running, reqPc, startPc,
                 queueVars, checkVars, tasks, workVars, updates, boundVars, histVars,
                 escrowVars>>

CancelForget(j) ==
  /\ cancels[j].deleted < cancels[j].written
  /\ running' = running \ {j}
  /\ cancels' = [cancels EXCEPT ![j].deleted = @ + 1]
  /\ UNCHANGED <<jobVars, envVars, reqPc, startPc, queueVars, checkVars, tasks, workVars,
                 updates, boundVars, histVars, escrowVars>>

-----------------------------------------------------------------------------
(* checkIdleJobsForReadiness, every five seconds: a snapshot of the IDLE     *)
(* jobs whose start was received, then a check and a write for each.         *)

GetJobsByStatus(s) == {j \in Jobs : status[j] = s}

StartCheck ==
  /\ idle = {} /\ checkJob = NoJob
  /\ idle' = {j \in GetJobsByStatus("IDLE") : startReceived[j]}
  /\ idle' # {}
  /\ UNCHANGED <<jobVars, envVars, running, handleVars, queueVars, checkJob, tasks,
                 workVars, updates, boundVars, histVars, escrowVars>>

CheckReady(j) == /\ j \in InputJobs => checkInputsReady(j)
                 /\ checkOutputDestinationsReady(j)

CheckIdleJob(j) ==
  /\ j \in idle /\ checkJob = NoJob
  /\ idle' = idle \ {j}
  /\ checkJob' = IF CheckReady(j) THEN j ELSE NoJob
  /\ UNCHANGED <<jobVars, envVars, running, handleVars, queueVars, tasks, workVars,
                 updates, boundVars, histVars, escrowVars>>

(* READY is written whatever the status has become since the snapshot. *)
WriteReady ==
  /\ checkJob # NoJob
  /\ UpdateJobStatus(checkJob, "READY")
  /\ checkJob' = NoJob
  /\ UNCHANGED <<startReceived, interfaces, linked, wfRow, envVars, running, handleVars,
                 queueVars, idle, tasks, workVars, updates, boundVars, histVars, escrowVars>>

-----------------------------------------------------------------------------
(* processJobQueue: a snapshot of the READY jobs; each is skipped or handed  *)
(* to the worker pool, and entered in runningJobs after that.                *)

GetReadyJobs ==
  /\ batch = {} /\ queuePc = "scan"
  /\ batch' = {j \in Jobs : status[j] = "READY"}
  /\ batch' # {}
  /\ UNCHANGED <<jobVars, envVars, running, handleVars, queuePc, queueJob, checkVars, tasks,
                 workVars, updates, boundVars, histVars, escrowVars>>

(* Mutant: runningJobs is not looked at. *)
DispatchableAlways(j) == j \in InputJobs => checkInputsReady(j)

(* Already running, or inputs no longer ready: skipped until the next tick. *)
Dispatchable(j) == j \notin running /\ (j \in InputJobs => checkInputsReady(j))

SelectJob(j) ==
  /\ queuePc = "scan" /\ j \in batch
  /\ batch' = batch \ {j}
  /\ \/ /\ Dispatchable(j)
        /\ queuePc' = "submit" /\ queueJob' = j
     \/ /\ ~Dispatchable(j)
        /\ UNCHANGED <<queuePc, queueJob>>
  /\ UNCHANGED <<jobVars, envVars, running, handleVars, checkVars, tasks, workVars,
                 updates, boundVars, histVars, escrowVars>>

(* workerPool.Submit blocks while the channel, one slot per worker, is full. *)
SubmitTask ==
  /\ queuePc = "submit"
  /\ Len(tasks) < Cardinality(Workers)
  /\ tasks' = Append(tasks, queueJob)
  /\ queuePc' = "mark"
  /\ UNCHANGED <<jobVars, envVars, running, handleVars, batch, queueJob, checkVars, workVars,
                 updates, boundVars, histVars, escrowVars>>

MarkRunning ==
  /\ queuePc = "mark"
  /\ running' = running \cup {queueJob}
  /\ queuePc' = "scan" /\ queueJob' = NoJob
  /\ UNCHANGED <<jobVars, envVars, handleVars, batch, checkVars, tasks, workVars,
                 updates, boundVars, histVars, escrowVars>>

QueueStep == GetReadyJobs \/ (\E j \in Jobs : SelectJob(j)) \/ SubmitTask \/ MarkRunning

-----------------------------------------------------------------------------
(* executeJob in a worker of the pool. *)

StepWork(w, from, to) ==
  /\ workPc[w] = from
  /\ workPc' = [workPc EXCEPT ![w] = to]

TakeTask(w) ==
  /\ tasks # <<>>
  /\ StepWork(w, "idle", "begin")
  /\ workJob' = [workJob EXCEPT ![w] = Head(tasks)]
  /\ tasks' = Tail(tasks)
  /\ UNCHANGED <<jobVars, envVars, running, handleVars, queueVars, checkVars, report,
                 panicked, updates, boundVars, histVars, escrowVars>>

(* Mutants: the channel has no capacity; a send waits for room. *)
sendUnbounded == updates' = updates + 1
sendBlocking  == updates < StatusCap /\ updates' = updates + 1

(* sendStatusUpdate: a full channel drops the update, it never blocks. *)
sendStatusUpdate ==
  updates' = IF updates < StatusCap THEN updates + 1 ELSE updates

(* Every outcome is written to the job, then to workflow_jobs, then sent. *)
WriteOutcome(w, from, s) ==
  /\ StepWork(w, from, "rowRead")
  /\ report' = [report EXCEPT ![w] = s]
  /\ UpdateJobStatus(workJob[w], s)
  /\ completed' = IF s = "COMPLETED" THEN completed \cup {workJob[w]} ELSE completed
  /\ failed' = IF s = "ERRORED" THEN failed \cup {workJob[w]} ELSE failed
  /\ UNCHANGED <<startReceived, interfaces, linked, wfRow, inputs, dests, running,
                 handleVars, queueVars, checkVars, tasks, workJob, panicked, updates,
                 boundVars, escrowVars>>

(* Where the worker goes once an outcome has been reported: a standalone     *)
(* service transfers its outputs after it has reported COMPLETED.            *)
Reported(w) == CASE report[w] = "RUNNING" -> "exec"
                 [] report[w] = "COMPLETED" /\ Kind[workJob[w]] = "standalone" -> "transfer"
                 [] OTHER -> "defer"

BeginRun(w) == WriteOutcome(w, "begin", "RUNNING") /\ UNCHANGED outputs

(* The write of RUNNING fails: executeJob returns. *)
BeginFails(w) ==
  /\ faults < MaxFaults
  /\ StepWork(w, "begin", "defer")
  /\ faults' = faults + 1
  /\ UNCHANGED <<jobVars, envVars, running, handleVars, queueVars, checkVars, tasks, workJob,
                 report, panicked, updates, restarts, histVars, escrowVars>>

Row(w) == wfRow[WorkflowJobID[workJob[w]]]

(* UpdateWorkflowJobStatus, first statement: the row is read in this node's  *)
(* own table.  No row, or a terminal one that would change: nothing to write.*)
RowWritable(w) ==
  /\ Row(w) # "absent"
  /\ Row(w) \in {"COMPLETED", "ERRORED"} => Row(w) = report[w]

ReadRow(w) ==
  /\ workPc[w] = "rowRead"
  /\ \/ /\ RowWritable(w)
        /\ StepWork(w, "rowRead", "rowWrite")
        /\ UNCHANGED updates
     \/ /\ ~RowWritable(w)
        /\ StepWork(w, "rowRead", Reported(w))
        /\ sendStatusUpdate
  /\ UNCHANGED <<jobVars, envVars, running, handleVars, queueVars, checkVars, tasks, workJob,
                 report, panicked, boundVars, histVars, escrowVars>>

(* Second statement: the row is written, then the update is sent. *)
WriteRow(w) ==
  /\ workPc[w] = "rowWrite"
  /\ StepWork(w, "rowWrite", Reported(w))
  /\ wfRow' = [wfRow EXCEPT ![WorkflowJobID[workJob[w]]] = report[w]]
  /\ sendStatusUpdate
  /\ UNCHANGED <<status, startReceived, interfaces, linked, envVars, running, handleVars,
                 queueVars, checkVars, tasks, workJob, report, panicked, boundVars,
                 histVars, escrowVars>>

(* Mutant: a Docker job is COMPLETED before its outputs are transferred. *)
SucceedsAtOnce(w) ==
  /\ workPc[w] = "exec"
  /\ WriteOutcome(w, "exec", "COMPLETED")
  /\ UNCHANGED outputs

executeDataService(w) ==
  /\ Kind[workJob[w]] = "data"
  /\ WriteOutcome(w, "exec", "COMPLETED")
  /\ UNCHANGED outputs

(* The process has ended with exit code 0 and its streams are in files. *)
executeStandaloneService(w) ==
  /\ Kind[workJob[w]] = "standalone"
  /\ WriteOutcome(w, "exec", "COMPLETED")
  /\ UNCHANGED outputs

(* The container has ended with exit code 0; its outputs are transferred     *)
(* before the job is COMPLETED.                                              *)
executeDockerService(w) ==
  /\ Kind[workJob[w]] = "docker"
  /\ StepWork(w, "exec", "transfer")
  /\ UNCHANGED <<jobVars, envVars, running, handleVars, queueVars, checkVars, tasks,
                 workJob, report, panicked, updates, boundVars, histVars, escrowVars>>

ServiceSucceeds(w) ==
  /\ workPc[w] = "exec"
  /\ executeDataService(w) \/ executeStandaloneService(w) \/ executeDockerService(w)

(* handleJobError: no such service, a bad exit code, a failed set-up. *)
ServiceFails(w) == WriteOutcome(w, "exec", "ERRORED") /\ UNCHANGED outputs

(* An output for a job of this node is renamed or copied to its directory.   *)
transferOutputLocally == {"sent", "lost"}

(* The outputs for another node go there in one encrypted package; a chunk   *)
(* is tried three times.                                                     *)
transferPackageRemotely == {"sent", "lost"}

(* transferDockerOutputs: the failure to send an output, or a package, is    *)
(* only logged.  A job without outputs counts as one that has sent them.     *)
transferDockerOutputs(j) ==
  \E here \in transferOutputLocally, there \in transferPackageRemotely :
    outputs' = [outputs EXCEPT ![j] = IF "lost" \in {here, there} THEN "lost" ELSE "sent"]

(* executeDockerService transfers before COMPLETED.  The job fails when its  *)
(* interfaces cannot be read, the one error the transfer returns.            *)
TransferDocker(w) ==
  /\ workPc[w] = "transfer" /\ Kind[workJob[w]] = "docker"
  /\ \/ WriteOutcome(w, "transfer", "COMPLETED") /\ transferDockerOutputs(workJob[w])
     \/ WriteOutcome(w, "transfer", "ERRORED") /\ UNCHANGED outputs

(* transferStandaloneOutputs after COMPLETED: its failure is only logged. *)
TransferStandalone(w) ==
  /\ workPc[w] = "transfer" /\ Kind[workJob[w]] = "standalone"
  /\ StepWork(w, "transfer", "defer")
  /\ transferDockerOutputs(workJob[w]) \/ UNCHANGED outputs
  /\ UNCHANGED <<jobVars, inputs, dests, running, handleVars, queueVars, checkVars, tasks,
                 workJob, report, panicked, updates, boundVars, histVars, escrowVars>>

Panic(w) ==
  /\ workPc[w] \in {"exec", "transfer"}
  /\ workPc' = [workPc EXCEPT ![w] = "defer"]
  /\ panicked' = [panicked EXCEPT ![w] = TRUE]
  /\ UNCHANGED <<jobVars, envVars, running, handleVars, queueVars, checkVars, tasks, workJob,
                 report, updates, boundVars, histVars, escrowVars>>

(* The deferred function: first the job leaves runningJobs ... *)
DeferForget(w) ==
  /\ StepWork(w, "defer", "final")
  /\ running' = running \ {workJob[w]}
  /\ UNCHANGED <<jobVars, envVars, handleVars, queueVars, checkVars, tasks, workJob, report,
                 panicked, updates, boundVars, histVars, escrowVars>>

EndRun(w) ==
  /\ workPc' = [workPc EXCEPT ![w] = IF panicked[w] THEN "recover" ELSE "idle"]
  /\ workJob' = [workJob EXCEPT ![w] = IF panicked[w] THEN @ ELSE NoJob]
  /\ report' = [report EXCEPT ![w] = "RUNNING"]
  /\ UNCHANGED panicked

(* Mutants: whatever did not fail is settled; whatever did not complete is   *)
(* refunded.                                                                 *)
SettleUnlessErrored(w) ==
  /\ workPc[w] = "final"
  /\ \/ /\ linked[workJob[w]]
        /\ IF status[workJob[w]] # "ERRORED" THEN SettleEscrow(w, workJob[w])
                                             ELSE RefundEscrow(w, workJob[w])
        /\ StepWork(w, "final", "paying") /\ UNCHANGED <<workJob, report, panicked>>
     \/ ~linked[workJob[w]] /\ EndRun(w) /\ UNCHANGED escrowVars
  /\ UNCHANGED <<jobVars, envVars, running, handleVars, queueVars, checkVars, tasks,
                 updates, boundVars, histVars>>

RefundUnlessCompleted(w) ==
  /\ workPc[w] = "final"
  /\ \/ /\ linked[workJob[w]]
        /\ IF status[workJob[w]] = "COMPLETED" THEN SettleEscrow(w, workJob[w])
                                               ELSE RefundEscrow(w, workJob[w])
        /\ StepWork(w, "final", "paying") /\ UNCHANGED <<workJob, report, panicked>>
     \/ ~linked[workJob[w]] /\ EndRun(w) /\ UNCHANGED escrowVars
  /\ UNCHANGED <<jobVars, envVars, running, handleVars, queueVars, checkVars, tasks,
                 updates, boundVars, histVars>>

(* ... then its payment is settled or refunded by the status it has now ... *)
SettleOrRefund(w) ==
  /\ workPc[w] = "final"
  /\ LET j == workJob[w] IN
     \/ /\ linked[j] /\ status[j] = "COMPLETED"
        /\ SettleEscrow(w, j)
        /\ StepWork(w, "final", "paying") /\ UNCHANGED <<workJob, report, panicked>>
     \/ /\ linked[j] /\ status[j] \in {"ERRORED", "CANCELLED"}
        /\ RefundEscrow(w, j)
        /\ StepWork(w, "final", "paying") /\ UNCHANGED <<workJob, report, panicked>>
     \/ /\ ~linked[j] \/ status[j] \notin Terminal
        /\ EndRun(w) /\ UNCHANGED escrowVars
  /\ UNCHANGED <<jobVars, envVars, running, handleVars, queueVars, checkVars, tasks,
                 updates, boundVars, histVars>>

PayStep(w) ==
  /\ workPc[w] = "paying"
  /\ EscrowStep(w)
  /\ UNCHANGED <<jobVars, envVars, running, handleVars, queueVars, checkVars, tasks,
                 workVars, updates, boundVars, histVars>>

PayDone(w) ==
  /\ workPc[w] = "paying" /\ callPc[w] = "idle"
  /\ EndRun(w)
  /\ UNCHANGED <<jobVars, envVars, running, handleVars, queueVars, checkVars, tasks,
                 updates, boundVars, histVars, escrowVars>>

(* ... and last a panic is recovered: ERRORED, an update, a refund. *)
Recover(w) ==
  /\ workPc[w] = "recover"
  /\ UpdateJobStatus(workJob[w], "ERRORED")
  /\ failed' = failed \cup {workJob[w]}
  /\ sendStatusUpdate
  /\ panicked' = [panicked EXCEPT ![w] = FALSE]
  /\ \/ /\ linked[workJob[w]]
        /\ RefundEscrow(w, workJob[w])
        /\ workPc' = [workPc EXCEPT ![w] = "paying"] /\ UNCHANGED workJob
     \/ /\ ~linked[workJob[w]]
        /\ workPc' = [workPc EXCEPT ![w] = "idle"]
        /\ workJob' = [workJob EXCEPT ![w] = NoJob]
        /\ UNCHANGED escrowVars
  /\ UNCHANGED <<startReceived, interfaces, linked, wfRow, envVars, running, handleVars,
                 queueVars, checkVars, tasks, report, boundVars, completed>>

WorkStep(w) == \/ TakeTask(w) \/ BeginRun(w) \/ ReadRow(w) \/ WriteRow(w)
               \/ ServiceSucceeds(w) \/ ServiceFails(w) \/ Panic(w)
               \/ TransferDocker(w) \/ TransferStandalone(w) \/ DeferForget(w)
               \/ SettleOrRefund(w) \/ PayStep(w) \/ PayDone(w) \/ Recover(w)

-----------------------------------------------------------------------------
(* The status update worker takes an update and makes one attempt to send it.*)
ProcessStatusUpdate ==
  /\ updates > 0
  /\ updates' = updates - 1
  /\ UNCHANGED <<jobVars, envVars, running, handleVars, queueVars, checkVars, tasks, workVars,
                 boundVars, histVars, escrowVars>>

(* The process dies and Start runs again: tables and files survive, maps,    *)
(* channels and goroutines do not, and Start looks at no job that was RUNNING.*)
Restart ==
  /\ restarts < MaxRestarts
  /\ restarts' = restarts + 1
  /\ running' = {}
  /\ reqPc' = [j \in Jobs |-> IF reqPc[j] \in {"submit", "link"} THEN "refused" ELSE reqPc[j]]
  /\ startPc' = [j \in Jobs |-> [d \in Deliveries |->
                    IF startPc[j][d] = "none" THEN "none" ELSE "done"]]
  /\ cancels' = [j \in Jobs |-> [cancels[j] EXCEPT !.deleted = cancels[j].written]]
  /\ batch' = {} /\ queuePc' = "scan" /\ queueJob' = NoJob
  /\ idle' = {} /\ checkJob' = NoJob
  /\ tasks' = <<>>
  /\ workPc' = [w \in Workers |-> "idle"]
  /\ workJob' = [w \in Workers |-> NoJob]
  /\ report' = [w \in Workers |-> "RUNNING"]
  /\ panicked' = [w \in Workers |-> FALSE]
  /\ updates' = 0
  /\ EscrowCrash
  /\ UNCHANGED <<jobVars, envVars, faults, histVars>>

Next ==
  \/ \E j \in Jobs : \/ InputsArrive(j) \/ DestinationsAccept(j)
                     \/ VerifyPayment(j) \/ SubmitJob(j) \/ LinkPayment(j)
                     \/ CancelJob(j) \/ CancelForget(j)
                     \/ CheckIdleJob(j)
                     \/ \E d \in Deliveries : HandleJobStart(j, d) \/ StartStep(j, d)
  \/ StartCheck \/ WriteReady
  \/ QueueStep
  \/ \E w \in Workers : WorkStep(w) \/ BeginFails(w)
  \/ ProcessStatusUpdate
  \/ Restart

Spec == Init /\ [][Next]_vars

(* Goroutines are scheduled and tickers fire: each handler, the queue, the   *)
(* checker and every worker keeps moving.  Nothing is assumed of messages,   *)
(* of the arrival of inputs or of the status update worker.                  *)
Fairness ==
  /\ \A j \in Jobs, d \in Deliveries : WF_vars(StartStep(j, d))
  /\ WF_vars(QueueStep)
  /\ WF_vars(StartCheck \/ WriteReady \/ \E j \in Jobs : CheckIdleJob(j))
  /\ \A w \in Workers : WF_vars(WorkStep(w))

FairSpec == Spec /\ Fairness

-----------------------------------------------------------------------------
(* Properties. *)

Active == {"begin", "rowRead", "rowWrite", "exec", "transfer", "defer"}

(* A worker executes a job only when HandleJobStart has created its          *)
(* interfaces and, for an INPUTS_READY job, when its inputs are on disk,     *)
(* whatever the start handlers, the readiness checker, the queue and cancels *)
(* do to the status in between (the race the comment in                      *)
(* checkIdleJobsForReadiness is about).                                      *)
Eligible(j) == interfaces[j] /\ (j \in InputJobs => inputs[j])

RunsOnlyWhenEligible ==
  \A w \in Workers : workPc[w] \in Active => Eligible(workJob[w])

(* The runningJobs map keeps a job that was never cancelled out of the hands *)
(* of a second worker until the first has left it, although the queue enters *)
(* a job there only after it has handed it to the pool.                      *)
AtMostOneWorkerPerJob ==
  \A v, w \in Workers :
    (/\ v # w
     /\ workPc[v] \in Active /\ workPc[w] \in Active
     /\ workJob[v] = workJob[w])
    => cancels[workJob[v]].written > 0

(* The facilitator moves the money to the provider only for a job some run   *)
(* of which completed, and gives it back only for a job that was cancelled,  *)
(* failed or was never created: executeJob pays by the status it reads after *)
(* the run, which other goroutines may have overwritten.                     *)
PaymentsFollowOutcomes ==
  \A j \in Jobs :
    /\ "settle" \in ledger[j] => j \in completed
    /\ "refund" \in ledger[j] => j \in failed \/ cancels[j].written > 0

(* The payment row says settled or refunded only when the facilitator has    *)
(* done it: the rows lag behind the ledger, never the other way round, also  *)
(* when the node crashes or an answer is lost in between.                    *)
RowsLagLedger ==
  \A j \in Jobs : /\ payStatus[j] = "settled" => "settle" \in ledger[j]
                  /\ payStatus[j] = "refunded" => "refund" \in ledger[j]

(* The outputs of a Docker job have been through their transfer before the   *)
(* job is COMPLETED, and before the provider is paid for it, also when the   *)
(* job was cancelled or executed twice: executeDockerService transfers first *)
(* and executeJob pays by the status.                                        *)
DockerPaidAfterTransfer ==
  \A j \in Jobs :
    (Kind[j] = "docker" /\ (status[j] = "COMPLETED" \/ "settle" \in ledger[j]))
      => outputs[j] # "kept"

(* What the job lifecycle of docs/workflow-creation-and-execution.md says of *)
(* COMPLETED: the outputs were transferred.                                  *)
CompletedMeansTransferred ==
  \A j \in Jobs : (status[j] = "COMPLETED" /\ Kind[j] # "data") => outputs[j] = "sent"

(* What the escrow state machine of the payment protocol says: an escrow is  *)
(* settled or refunded, never both.                                          *)
NeverSettledAndRefunded == \A j \in Jobs : ledger[j] # {"settle", "refund"}

(* A job that was started, whose inputs are there and whose destinations     *)
(* have accepted runs to an end at least once, although both Submit and the  *)
(* status channel have a limited capacity and nobody may drain the latter.   *)
StartedJobsFinish ==
  \A j \in Jobs :
    (startReceived[j] /\ dests[j] /\ (j \in InputJobs => inputs[j]))
      ~> (j \in completed \cup failed)
=============================================================================
