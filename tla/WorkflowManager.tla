-------------------------- MODULE WorkflowManager --------------------------
(***************************************************************************)
(* The orchestrator side of a node (internal/core/workflow_manager.go with *)
(* the workflow_executions and workflow_jobs tables): one execution of a   *)
(* workflow.  ExecuteWorkflow runs in the goroutine of its caller (the     *)
(* driver): it registers the execution, creates one row per job, orders    *)
(* each job from its executor and sends the start commands.  A ticker (the *)
(* updater) looks at the rows of every active execution and closes the     *)
(* execution when they have all ended.  The executors report what their    *)
(* jobs do; a job that this node executes itself writes its row directly,  *)
(* the others send a status update, which is sent without an answer, may   *)
(* be queued and sent again over a relay, and is handled in a goroutine of *)
(* its own: updates are lost, duplicated, reordered and handled            *)
(* concurrently.  Executors are the subject of JobExecution; here they may *)
(* report RUNNING, COMPLETED and ERRORED in every order JobExecution       *)
(* allows, repeated runs included.                                         *)
(***************************************************************************)
EXTENDS Naturals, FiniteSets

CONSTANTS JobCount,     \* jobs of the workflow's definition, in its order
          LocalJobs,    \* jobs this node executes itself
          Handlers,     \* goroutines that update a row
          MaxRestarts,  \* bound on crashes of the orchestrator
          NoUpdate      \* the handler is idle

Jobs == 1..JobCount
Outcome == {"RUNNING", "COMPLETED", "ERRORED"}
Update  == [job : Jobs, status : Outcome]

ASSUME WorkflowConstantsAssumption ==
  /\ JobCount \in Nat \ {0}
  /\ LocalJobs \subseteq Jobs
  /\ MaxRestarts \in Nat
  /\ NoUpdate \notin Update

VARIABLES
  execStatus, \* workflow_executions.status; "none": not created
  row,        \* workflow_jobs.status of each job; "absent": no row
  ordered,    \* jobs whose job_execution_id the orchestrator knows
  active,     \* the execution is in activeWorkflows
  driverPc,   \* ExecuteWorkflow and executeWorkflowJobs
  next,       \* the job the driver's loops are at
  tickPc,     \* checkWorkflowCompletion
  verdict,    \* the final status it has computed
  handPc,     \* UpdateWorkflowJobStatus in each handler
  handled,    \* the update each handler works on
  started,    \* jobs whose executor has got the start command
  reported,   \* what the executor of each job has reported so far
  refused,    \* history: jobs whose order failed
  early,      \* history: the updater has judged the execution before any row
  restarts

tables   == <<execStatus, row>>
driver   == <<driverPc, next>>
updater  == <<tickPc, verdict>>
handlers == <<handPc, handled>>
vars == <<tables, ordered, active, driver, updater, handlers, started, reported,
          refused, early, restarts>>

Ended == {"COMPLETED", "ERRORED"}

TypeOK ==
  /\ execStatus \in {"none", "PENDING", "RUNNING", "COMPLETED", "FAILED"}
  /\ row \in [Jobs -> {"absent", "PENDING"} \cup Outcome]
  /\ ordered \subseteq Jobs
  /\ active \in BOOLEAN
  /\ driverPc \in {"new", "register", "mark", "create", "order", "start", "done"}
  /\ next \in Jobs
  /\ tickPc \in {"idle", "write", "remove"}
  /\ verdict \in {"none", "COMPLETED", "FAILED"}
  /\ handPc \in [Handlers -> {"idle", "read", "write"}]
  /\ handled \in [Handlers -> Update \cup {NoUpdate}]
  /\ started \subseteq Jobs
  /\ reported \in [Jobs -> SUBSET Outcome]
  /\ refused \subseteq Jobs
  /\ early \in BOOLEAN
  /\ restarts \in 0..MaxRestarts

Init ==
  /\ execStatus = "none"
  /\ row = [j \in Jobs |-> "absent"]
  /\ ordered = {}
  /\ active = FALSE
  /\ driverPc = "new" /\ next = 1
  /\ tickPc = "idle" /\ verdict = "none"
  /\ handPc = [h \in Handlers |-> "idle"]
  /\ handled = [h \in Handlers |-> NoUpdate]
  /\ started = {}
  /\ reported = [j \in Jobs |-> {}]
  /\ refused = {}
  /\ early = FALSE
  /\ restarts = 0

-----------------------------------------------------------------------------
(* ExecuteWorkflow.  The definition has been parsed and validated. *)

(* UpdateWorkflowExecutionStatus of the database, and its INSERT. *)
SetExecutionStatus(s) == execStatus' = s

CreateWorkflowExecution ==
  /\ driverPc = "new"
  /\ driverPc' = "register"
  /\ SetExecutionStatus("PENDING")
  /\ UNCHANGED <<row, ordered, active, next, updater, handlers, started, reported,
                 refused, early, restarts>>

(* From here on the updater sees the execution. *)
RegisterExecution ==
  /\ driverPc = "register"
  /\ driverPc' = "mark"
  /\ active' = TRUE
  /\ UNCHANGED <<tables, ordered, next, updater, handlers, started, reported, refused,
                 early, restarts>>

MarkExecutionRunning ==
  /\ driverPc = "mark"
  /\ driverPc' = "create"
  /\ SetExecutionStatus("RUNNING")
  /\ UNCHANGED <<row, ordered, active, next, updater, handlers, started, reported,
                 refused, early, restarts>>

(* Mutant: the loops go one job too far. *)
IteratePastEnd(phase, after) ==
  /\ driverPc = phase
  /\ IF next <= JobCount THEN next' = next + 1 /\ UNCHANGED driverPc
                         ELSE next' = 1 /\ driverPc' = after

(* One iteration of a loop over the jobs of the definition; after the last   *)
(* job the driver goes on to the next phase.                                 *)
Iterate(phase, after) ==
  /\ driverPc = phase
  /\ IF next < JobCount THEN next' = next + 1 /\ UNCHANGED driverPc
                        ELSE next' = 1 /\ driverPc' = after

InsertWorkflowJob(j) == row' = [row EXCEPT ![j] = "PENDING"]

(* Phase 1: the row is inserted, or the job is left out of the execution. *)
CreateWorkflowJob ==
  /\ Iterate("create", "order")
  /\ InsertWorkflowJob(next) \/ UNCHANGED row
  /\ UNCHANGED <<execStatus, ordered, active, updater, handlers, started, reported,
                 refused, early, restarts>>

UpdateWorkflowJobRemoteExecutionID(j) == ordered' = ordered \cup {j}

OrderFails(j) == refused' = refused \cup {j} /\ UNCHANGED ordered

(* When a local order fails the row stays as it is ... *)
createLocalJobExecution(j) ==
  /\ j \in LocalJobs
  /\ \/ UpdateWorkflowJobRemoteExecutionID(j) /\ UNCHANGED refused
     \/ OrderFails(j)
  /\ UNCHANGED row

(* ... when a remote one fails, is rejected, or its job execution id cannot  *)
(* be kept, the row becomes ERRORED.                                         *)
sendRemoteJobRequest(j) ==
  /\ j \notin LocalJobs
  /\ \/ UpdateWorkflowJobRemoteExecutionID(j) /\ UNCHANGED <<row, refused>>
     \/ OrderFails(j) /\ row' = [row EXCEPT ![j] = "ERRORED"]

(* Phase 2: every job is ordered; a job without a row is skipped. *)
OrderJob ==
  /\ Iterate("order", "start")
  /\ IF row[next] = "absent" THEN UNCHANGED <<row, ordered, refused>>
     ELSE createLocalJobExecution(next) \/ sendRemoteJobRequest(next)
  /\ UNCHANGED <<execStatus, active, updater, handlers, started, reported, early, restarts>>

(* sendStartCommands: the command reaches the executor, or its failure is    *)
(* only logged.  HandleJobStart of a local job is a direct call.             *)
SendStartCommand ==
  /\ Iterate("start", "done")
  /\ \/ next \in ordered /\ started' = started \cup {next}
     \/ next \notin ordered \cap LocalJobs /\ UNCHANGED started
  /\ UNCHANGED <<tables, ordered, active, updater, handlers, reported, refused, early,
                 restarts>>

Drive == \/ CreateWorkflowExecution \/ RegisterExecution \/ MarkExecutionRunning
         \/ CreateWorkflowJob \/ OrderJob \/ SendStartCommand

-----------------------------------------------------------------------------
(* The executors and the handlers of what they report. *)

MayReport(j, s) == j \in started /\ (s # "RUNNING" => "RUNNING" \in reported[j])

Begin(h, j, s) ==
  /\ handPc[h] = "idle"
  /\ handPc' = [handPc EXCEPT ![h] = "read"]
  /\ handled' = [handled EXCEPT ![h] = [job |-> j, status |-> s]]

(* A worker of this node writes the row of its job itself; it does so before *)
(* the job leaves runningJobs, so one run of a job at a time.                *)
LocalReport(h, j, s) ==
  /\ j \in LocalJobs /\ MayReport(j, s)
  /\ \A g \in Handlers : handPc[g] # "idle" => handled[g].job # j
  /\ Begin(h, j, s)
  /\ reported' = [reported EXCEPT ![j] = @ \cup {s}]
  /\ UNCHANGED <<tables, ordered, active, driver, updater, started, refused, early, restarts>>

(* Another node sends a status update ... *)
RemoteReport(j, s) ==
  /\ j \notin LocalJobs /\ MayReport(j, s)
  /\ reported' = [reported EXCEPT ![j] = @ \cup {s}]
  /\ UNCHANGED <<tables, ordered, active, driver, updater, handlers, started, refused,
                 early, restarts>>

(* ... which HandleJobStatusUpdate may get never, late or more than once. *)
HandleJobStatusUpdate(h, j, s) ==
  /\ j \notin LocalJobs /\ s \in reported[j]
  /\ Begin(h, j, s)
  /\ UNCHANGED <<tables, ordered, active, driver, updater, started, reported, refused,
                 early, restarts>>

(* Mutant: terminal rows are not protected. *)
WritableAlways(j, s) == row[j] # "absent"

(* UpdateWorkflowJobStatus, first statement: no row is an error, a terminal  *)
(* row that would change is kept.                                            *)
Writable(j, s) == row[j] # "absent" /\ (row[j] \in Ended => row[j] = s)

EndHandler(h) ==
  /\ handPc' = [handPc EXCEPT ![h] = "idle"]
  /\ handled' = [handled EXCEPT ![h] = NoUpdate]

ReadRow(h) ==
  /\ handPc[h] = "read"
  /\ IF Writable(handled[h].job, handled[h].status)
     THEN handPc' = [handPc EXCEPT ![h] = "write"] /\ UNCHANGED handled
     ELSE EndHandler(h)
  /\ UNCHANGED <<tables, ordered, active, driver, updater, started, reported, refused,
                 early, restarts>>

(* Mutant: the update is applied to the row with another id. *)
WriteOtherRow(h) ==
  /\ handPc[h] = "write"
  /\ row' = [row EXCEPT ![(handled[h].job % JobCount) + 1] = handled[h].status]
  /\ EndHandler(h)
  /\ UNCHANGED <<execStatus, ordered, active, driver, updater, started, reported, refused,
                 early, restarts>>

(* Second statement: the row is written whatever it has become. *)
WriteRow(h) ==
  /\ handPc[h] = "write"
  /\ row' = [row EXCEPT ![handled[h].job] = handled[h].status]
  /\ EndHandler(h)
  /\ UNCHANGED <<execStatus, ordered, active, driver, updater, started, reported, refused,
                 early, restarts>>

-----------------------------------------------------------------------------
(* updateActiveWorkflowStatuses, every ten seconds: checkWorkflowCompletion  *)
(* reads the rows there are ...                                              *)

(* The rows GetWorkflowJobsByExecution returns. *)
Created == {j \in Jobs : row[j] # "absent"}

(* Mutant: only RUNNING jobs count as pending. *)
NoneRunning == \A j \in Created : row[j] # "RUNNING"

(* No pending job: the status of every row is terminal. *)
AllEnded == \A j \in Created : row[j] \in Ended

(* Mutant: failed jobs are not counted, so a failed execution stays open. *)
checkOnlyCompleted ==
  /\ tickPc = "idle" /\ active
  /\ \A j \in Created : row[j] = "COMPLETED"
  /\ tickPc' = "write"
  /\ verdict' = "COMPLETED"
  /\ early' = (early \/ Created = {})
  /\ UNCHANGED <<tables, ordered, active, driver, handlers, started, reported, refused,
                 restarts>>

checkWorkflowCompletion ==
  /\ tickPc = "idle" /\ active
  /\ AllEnded
  /\ tickPc' = "write"
  /\ verdict' = IF \E j \in Created : row[j] = "ERRORED" THEN "FAILED" ELSE "COMPLETED"
  /\ early' = (early \/ Created = {})
  /\ UNCHANGED <<tables, ordered, active, driver, handlers, started, reported, refused,
                 restarts>>

(* ... writes the status of the execution ... *)
UpdateWorkflowExecutionStatus ==
  /\ tickPc = "write"
  /\ tickPc' = "remove"
  /\ SetExecutionStatus(verdict)
  /\ UNCHANGED <<row, ordered, active, driver, verdict, handlers, started, reported,
                 refused, early, restarts>>

(* ... and forgets the execution. *)
RemoveExecution ==
  /\ tickPc = "remove"
  /\ tickPc' = "idle" /\ verdict' = "none"
  /\ active' = FALSE
  /\ UNCHANGED <<tables, ordered, driver, handlers, started, reported, refused, early,
                 restarts>>

Tick == checkWorkflowCompletion \/ UpdateWorkflowExecutionStatus \/ RemoveExecution

(* A crash and a new Start.  recoverRunningWorkflows looks for the status    *)
(* 'running', which no row ever has, so no execution is active again.        *)
Restart ==
  /\ restarts < MaxRestarts
  /\ restarts' = restarts + 1
  /\ driverPc' = "done" /\ next' = 1
  /\ active' = FALSE
  /\ tickPc' = "idle" /\ verdict' = "none"
  /\ handPc' = [h \in Handlers |-> "idle"]
  /\ handled' = [h \in Handlers |-> NoUpdate]
  /\ UNCHANGED <<tables, ordered, started, reported, refused, early>>

Next ==
  \/ Drive
  \/ \E j \in Jobs, s \in Outcome :
        \/ RemoteReport(j, s)
        \/ \E h \in Handlers : LocalReport(h, j, s) \/ HandleJobStatusUpdate(h, j, s)
  \/ \E h \in Handlers : ReadRow(h) \/ WriteRow(h)
  \/ Tick
  \/ Restart

Spec == Init /\ [][Next]_vars

(* The ticker of the updater fires and the handlers that have begun go on.   *)
Fairness == WF_vars(Tick) /\ \A h \in Handlers : WF_vars(ReadRow(h) \/ WriteRow(h))

FairSpec == Spec /\ Fairness

-----------------------------------------------------------------------------
(* Properties. *)

(* A row says of its job only what the job's executor has reported, or       *)
(* ERRORED when the order itself failed: no reordering, duplicate or         *)
(* concurrent handling of updates invents an outcome or moves one to another *)
(* job (UpdateWorkflowJobStatus, executeWorkflowJobs).                       *)
RowsTellTheTruth ==
  \A j \in Jobs : row[j] \in Outcome
     => row[j] \in reported[j] \/ (row[j] = "ERRORED" /\ j \in refused)

(* Unless the updater judged the execution before its first row existed, the *)
(* execution is COMPLETED only when every job with a row was completed by    *)
(* its executor, and FAILED only when some job failed or could not be        *)
(* ordered, although rows change between the updater's read and its write.   *)
VerdictIsRight ==
  ~early => /\ execStatus = "COMPLETED" => \A j \in Created : "COMPLETED" \in reported[j]
            /\ execStatus = "FAILED" =>
                  \E j \in Created : "ERRORED" \in reported[j] \/ j \in refused

(* What the comment in checkWorkflowCompletion is about: an execution is     *)
(* COMPLETED only when all the jobs of its workflow, those still pending     *)
(* acceptance included, have completed.                                      *)
CompletedMeansAllJobs ==
  execStatus = "COMPLETED" => \A j \in Created : "COMPLETED" \in reported[j]

(* What the comment in UpdateWorkflowJobStatus says: the terminal states of  *)
(* a row cannot be overwritten, in whatever order updates arrive.            *)
EndedRowsStay ==
  [][\A j \in Jobs : row[j] \in Ended => row'[j] = row[j]]_vars

(* An execution that was not judged before its first row existed, and whose  *)
(* rows have all ended once its start commands are sent, is closed: it gets  *)
(* a final status, unless a crash makes the node forget it.                  *)
EndedWorkflowsClose ==
  (driverPc = "done" /\ active /\ ~early /\ AllEnded)
    ~> (execStatus \in {"COMPLETED", "FAILED"} \/ restarts > 0)
=============================================================================
