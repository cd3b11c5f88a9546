----------------------- MODULE WorkflowManager_proofs -----------------------
(***************************************************************************)
(* What holds of an execution of a workflow for every number of jobs,      *)
(* handlers and crashes: its rows tell the truth, its verdict is right,    *)
(* and rows that have ended stay as they are when updates are handled one  *)
(* after the other.                                                        *)
(***************************************************************************)
EXTENDS WorkflowManager, TLAPS

USE WorkflowConstantsAssumption

(* Updates that are being handled are updates, and the updater has a verdict *)
(* when it writes one.                                                       *)
TypeInv ==
  /\ TypeOK
  /\ \A h \in Handlers : handPc[h] # "idle" => handled[h] \in Update
  /\ tickPc = "write" => verdict # "none"

(* The loops of the driver stay among the jobs of the definition. *)
LEMMA JobNumbers == 1 \in Jobs /\ \A j \in Jobs : j < JobCount => j + 1 \in Jobs
  BY DEF Jobs

(* The first state, with no workflow and no job, has the types. *)
LEMMA InitType == Init => TypeInv
<1> SUFFICES ASSUME Init PROVE TypeInv
  OBVIOUS
<1>1. 0 \in 0..MaxRestarts
  OBVIOUS
<1>2. TypeOK
  BY <1>1, JobNumbers DEF Init, TypeOK
<1> QED
  BY <1>2 DEF Init, TypeInv

(* Every step keeps the types. *)
LEMMA NextType == TypeInv /\ [Next]_vars => TypeInv'
<1> SUFFICES ASSUME TypeInv, [Next]_vars PROVE TypeInv'
  OBVIOUS
<1> USE DEF TypeInv, TypeOK, tables, driver, updater, handlers
<1>1. CASE CreateWorkflowExecution
  BY <1>1 DEF CreateWorkflowExecution, SetExecutionStatus
<1>2. CASE RegisterExecution
  BY <1>2 DEF RegisterExecution
<1>3. CASE MarkExecutionRunning
  BY <1>3 DEF MarkExecutionRunning, SetExecutionStatus
<1>4. CASE CreateWorkflowJob
  BY <1>4, JobNumbers DEF CreateWorkflowJob, Iterate, InsertWorkflowJob
<1>5. CASE OrderJob
  BY <1>5, JobNumbers DEF OrderJob, Iterate, createLocalJobExecution, sendRemoteJobRequest, OrderFails,
              UpdateWorkflowJobRemoteExecutionID, Outcome
<1>6. CASE SendStartCommand
  BY <1>6, JobNumbers DEF SendStartCommand, Iterate
<1>7. ASSUME NEW j \in Jobs, NEW s \in Outcome, RemoteReport(j, s) PROVE TypeInv'
  BY <1>7 DEF RemoteReport
<1>8. ASSUME NEW j \in Jobs, NEW s \in Outcome, NEW h \in Handlers, LocalReport(h, j, s)
      PROVE TypeInv'
  BY <1>8 DEF LocalReport, Begin, Update
<1>9. ASSUME NEW j \in Jobs, NEW s \in Outcome, NEW h \in Handlers,
             HandleJobStatusUpdate(h, j, s)
      PROVE TypeInv'
  BY <1>9 DEF HandleJobStatusUpdate, Begin, Update
<1>10. ASSUME NEW h \in Handlers, ReadRow(h) PROVE TypeInv'
  BY <1>10 DEF ReadRow, EndHandler
<1>11. ASSUME NEW h \in Handlers, WriteRow(h) PROVE TypeInv'
  BY <1>11 DEF WriteRow, EndHandler, Update
<1>12. CASE checkWorkflowCompletion
  BY <1>12 DEF checkWorkflowCompletion
<1>13. CASE UpdateWorkflowExecutionStatus
  BY <1>13 DEF UpdateWorkflowExecutionStatus, SetExecutionStatus
<1>14. CASE RemoveExecution
  BY <1>14 DEF RemoveExecution
<1>15. CASE Restart
  <2>1. restarts' \in 0..MaxRestarts
    BY <1>15 DEF Restart
  <2>2. /\ handPc' \in [Handlers -> {"idle", "read", "write"}]
        /\ handled' \in [Handlers -> Update \cup {NoUpdate}]
        /\ \A h \in Handlers : handPc'[h] = "idle"
    BY <1>15 DEF Restart
  <2> QED
    BY <1>15, <2>1, <2>2, JobNumbers DEF Restart
<1>16. CASE UNCHANGED vars
  BY <1>16 DEF vars
<1> QED
  BY <1>1, <1>2, <1>3, <1>4, <1>5, <1>6, <1>7, <1>8, <1>9, <1>10, <1>11, <1>12, <1>13,
     <1>14, <1>15, <1>16 DEF Next, Drive, Tick

(* The variables always have their types (TypeOK), whatever order driver,    *)
(* updater, handlers, executors and crashes take.                            *)
THEOREM TypeInvariant == Spec => []TypeInv
  BY InitType, NextType, PTL DEF Spec

(* The rows of jobs and of the workflow, the goroutines that write them and the *)
(* messages about them have their types at any time, restarts included          *)
(* (workflow_manager.go).                                                       *)
THEOREM TypeCorrect == Spec => []TypeOK
<1>1. TypeInv => TypeOK
  BY DEF TypeInv
<1> QED
  BY <1>1, TypeInvariant, PTL

-----------------------------------------------------------------------------
(* What the rows say. *)

(* Why rows tell the truth: what is being handled was reported.  A handler   *)
(* that is about to write has found a row.                                   *)
TruthInv ==
  /\ \A h \in Handlers : handPc[h] = "write" => row[handled[h].job] # "absent"
  /\ \A h \in Handlers : handPc[h] # "idle" => handled[h].status \in reported[handled[h].job]
  /\ RowsTellTheTruth

(* Every step keeps what the rows say true of the jobs. *)
LEMMA TruthNext ==
  ASSUME TypeInv, TruthInv, [Next]_vars PROVE TruthInv'
<1> USE DEF TruthInv, RowsTellTheTruth, TypeInv, TypeOK, tables, driver, updater, handlers
<1>1. CASE CreateWorkflowExecution
  BY <1>1 DEF CreateWorkflowExecution
<1>2. CASE RegisterExecution
  BY <1>2 DEF RegisterExecution
<1>3. CASE MarkExecutionRunning
  BY <1>3 DEF MarkExecutionRunning
<1>4. CASE CreateWorkflowJob
  <2>1. \A j \in Jobs : row'[j] \in {row[j], "PENDING"}
    BY <1>4 DEF CreateWorkflowJob, InsertWorkflowJob
  <2>2. UNCHANGED <<handPc, handled, reported, refused>>
    BY <1>4 DEF CreateWorkflowJob
  <2> QED
    BY <2>1, <2>2 DEF Outcome, Update
<1>5. CASE OrderJob
  BY <1>5 DEF OrderJob, createLocalJobExecution, sendRemoteJobRequest, OrderFails,
              Update
<1>6. CASE SendStartCommand
  BY <1>6 DEF SendStartCommand
<1>7. ASSUME NEW j \in Jobs, NEW s \in Outcome, RemoteReport(j, s) PROVE TruthInv'
  <2>1. \A k \in Jobs : reported[k] \subseteq reported'[k]
    BY <1>7 DEF RemoteReport
  <2> QED
    BY <1>7, <2>1 DEF RemoteReport, Update
<1>8. ASSUME NEW j \in Jobs, NEW s \in Outcome, NEW h \in Handlers, LocalReport(h, j, s)
      PROVE TruthInv'
  <2>1. s \in reported'[j] /\ \A k \in Jobs : reported[k] \subseteq reported'[k]
    BY <1>8 DEF LocalReport
  <2> QED
    BY <1>8, <2>1 DEF LocalReport, Begin, Update
<1>9. ASSUME NEW j \in Jobs, NEW s \in Outcome, NEW h \in Handlers,
             HandleJobStatusUpdate(h, j, s)
      PROVE TruthInv'
  BY <1>9 DEF HandleJobStatusUpdate, Begin
<1>10. ASSUME NEW h \in Handlers, ReadRow(h) PROVE TruthInv'
  BY <1>10 DEF ReadRow, EndHandler, Writable
<1>11. ASSUME NEW h \in Handlers, WriteRow(h) PROVE TruthInv'
  BY <1>11 DEF WriteRow, EndHandler, Update, Outcome
<1>12. CASE Tick
  BY <1>12 DEF Tick, checkWorkflowCompletion, UpdateWorkflowExecutionStatus, RemoveExecution
<1>13. CASE Restart
  BY <1>13 DEF Restart
<1>14. CASE UNCHANGED vars
  BY <1>14 DEF vars
<1> QED
  BY <1>1, <1>2, <1>3, <1>4, <1>5, <1>6, <1>7, <1>8, <1>9, <1>10, <1>11, <1>12, <1>13,
     <1>14 DEF Next, Drive

(* The inductive form of the next theorem. *)
THEOREM TruthInvariant == Spec => []TruthInv
<1>1. Init => TruthInv
  BY DEF Init, TruthInv, RowsTellTheTruth, Outcome
<1>2. TypeInv /\ TruthInv /\ [Next]_vars => TruthInv'
  BY TruthNext
<1> QED
  BY <1>1, <1>2, TypeInvariant, PTL DEF Spec

(* A row says of its job only what its executor has reported, or ERRORED     *)
(* when the order failed, however updates are repeated, reordered and        *)
(* handled concurrently (UpdateWorkflowJobStatus, executeWorkflowJobs).      *)
THEOREM RowsAreTrue == Spec => []RowsTellTheTruth
<1>1. TruthInv => RowsTellTheTruth
  BY DEF TruthInv
<1> QED
  BY <1>1, TruthInvariant, PTL

-----------------------------------------------------------------------------
(* The verdict. *)

(* The driver has not created all the rows yet. *)
Creating == driverPc \in {"new", "register", "mark", "create"}

(* What makes a verdict right, as VerdictIsRight says it of execStatus. *)
Right(v) ==
  /\ v = "COMPLETED" => \A j \in Created : "COMPLETED" \in reported[j]
  /\ v = "FAILED" => \E j \in Created : "ERRORED" \in reported[j] \/ j \in refused

(* Why the verdict is right: no row has ended before all of them exist, so   *)
(* an updater that has not judged an execution without rows judges nothing   *)
(* before that; afterwards there are no new rows, and reports are not taken  *)
(* back.                                                                     *)
VerdictInv ==
  /\ driverPc \notin {"start", "done"} => started = {}
  /\ \A j \in Jobs : reported[j] # {} => j \in started
  /\ Creating => refused = {}
  /\ Creating /\ ~early => tickPc = "idle" /\ execStatus \notin {"COMPLETED", "FAILED"}
  /\ ~early /\ tickPc = "write" => Right(verdict)
  /\ ~early => Right(execStatus)

(* A step that adds no row and takes no report back keeps a verdict right. *)
LEMMA RightStays ==
  ASSUME Created' = Created, refused \subseteq refused',
         \A j \in Jobs : reported[j] \subseteq reported'[j]
  PROVE  /\ execStatus' = execStatus /\ Right(execStatus) => Right(execStatus)'
         /\ verdict' = verdict /\ Right(verdict) => Right(verdict)'
<1> SUFFICES ASSUME NEW v
             PROVE  /\ v = "COMPLETED" /\ (\A j \in Created : "COMPLETED" \in reported[j])
                          => \A j \in Created' : "COMPLETED" \in reported'[j]
                    /\ v = "FAILED"
                       /\ (\E j \in Created : "ERRORED" \in reported[j] \/ j \in refused)
                          => \E j \in Created' : "ERRORED" \in reported'[j] \/ j \in refused'
  BY DEF Right
<1> QED
  BY DEF Created

(* Every step keeps the verdict on the workflow right. *)
LEMMA VerdictNext ==
  ASSUME TypeInv, TruthInv, VerdictInv, [Next]_vars PROVE VerdictInv'
<1> USE DEF VerdictInv, Creating, TypeInv, TypeOK, tables, driver, updater, handlers
<1>0. ASSUME Creating PROVE \A j \in Jobs : reported[j] = {} /\ row[j] \notin Outcome
  BY <1>0 DEF TruthInv, RowsTellTheTruth
<1>1. CASE CreateWorkflowExecution
  <2>1. UNCHANGED <<row, reported, refused, started, early, tickPc>> /\ Creating'
    BY <1>1 DEF CreateWorkflowExecution
  <2> QED
    BY <1>1, <2>1 DEF CreateWorkflowExecution, SetExecutionStatus, Right
<1>2. CASE RegisterExecution
  BY <1>2 DEF RegisterExecution, Right, Created
<1>3. CASE MarkExecutionRunning
  BY <1>3 DEF MarkExecutionRunning, SetExecutionStatus, Right
<1>4. CASE CreateWorkflowJob
  <2>1. Creating /\ UNCHANGED <<execStatus, tickPc, early, refused, started, reported>>
    BY <1>4 DEF CreateWorkflowJob, Iterate
  <2> QED
    BY <1>4, <2>1 DEF CreateWorkflowJob, Iterate, Right
<1>5. CASE OrderJob
  <2>1. driverPc = "order" /\ driverPc' \in {"order", "start"}
    BY <1>5 DEF OrderJob, Iterate
  <2>2. Created' = Created /\ refused \subseteq refused'
    BY <1>5 DEF OrderJob, createLocalJobExecution, sendRemoteJobRequest, OrderFails, Created
  <2>3. UNCHANGED <<execStatus, tickPc, verdict, early, started, reported>>
    BY <1>5 DEF OrderJob
  <2> QED
    BY <2>1, <2>2, <2>3, RightStays
<1>6. CASE SendStartCommand
  <2>1. /\ driverPc = "start" /\ driverPc' \in {"start", "done"} /\ started \subseteq started'
        /\ UNCHANGED <<row, execStatus, tickPc, verdict, early, refused, reported>>
    BY <1>6 DEF SendStartCommand, Iterate
  <2> QED
    BY <2>1 DEF Right, Created
<1>7. ASSUME NEW j \in Jobs, NEW s \in Outcome,
             RemoteReport(j, s) \/ \E h \in Handlers : LocalReport(h, j, s)
      PROVE VerdictInv'
  <2>1. /\ j \in started
        /\ UNCHANGED <<row, execStatus, driverPc, started, tickPc, verdict, early, refused>>
        /\ reported' = [reported EXCEPT ![j] = @ \cup {s}]
    BY <1>7 DEF RemoteReport, LocalReport, MayReport
  <2>2. Created' = Created /\ \A k \in Jobs : reported[k] \subseteq reported'[k]
    BY <2>1 DEF Created
  <2>3. \A k \in Jobs : reported'[k] # {} => k \in started'
    BY <2>1
  <2> QED
    BY <2>1, <2>2, <2>3, RightStays
<1>8. ASSUME NEW h \in Handlers,
             \/ \E j \in Jobs, s \in Outcome : HandleJobStatusUpdate(h, j, s)
             \/ ReadRow(h)
      PROVE VerdictInv'
  <2>1. UNCHANGED <<row, execStatus, driverPc, started, tickPc, verdict, early, refused, reported>>
    BY <1>8 DEF HandleJobStatusUpdate, ReadRow
  <2> QED
    BY <2>1 DEF Right, Created
<1>9. ASSUME NEW h \in Handlers, WriteRow(h) PROVE VerdictInv'
  <2>1. UNCHANGED <<execStatus, driverPc, started, tickPc, verdict, early, refused, reported>>
    BY <1>9 DEF WriteRow
  <2>2. Created' = Created
    BY <1>9 DEF WriteRow, TruthInv, Update, Created, Outcome
  <2> QED
    BY <2>1, <2>2, RightStays
<1>10. CASE checkWorkflowCompletion
  <2>1. UNCHANGED <<row, execStatus, driverPc, started, refused, reported>> /\ Created' = Created
    BY <1>10 DEF checkWorkflowCompletion, Created
  <2>2. ~early' => ~early /\ ~Creating
    BY <1>0, <1>10 DEF checkWorkflowCompletion, AllEnded, Created, Ended, Outcome
  <2>3. ~early' => Right(verdict)'
    BY <1>10, <2>1 DEF checkWorkflowCompletion, AllEnded, Created, Ended, Right, TruthInv,
                RowsTellTheTruth, Outcome
  <2> QED
    BY <2>1, <2>2, <2>3, RightStays
<1>11. CASE UpdateWorkflowExecutionStatus
  BY <1>11 DEF UpdateWorkflowExecutionStatus, SetExecutionStatus, Right, Created
<1>12. CASE RemoveExecution
  BY <1>12 DEF RemoveExecution, Right, Created
<1>13. CASE Restart
  BY <1>13 DEF Restart, Right, Created
<1>14. CASE UNCHANGED vars
  BY <1>14 DEF vars, Right, Created
<1> QED
  BY <1>1, <1>2, <1>3, <1>4, <1>5, <1>6, <1>7, <1>8, <1>9, <1>10, <1>11, <1>12, <1>13,
     <1>14 DEF Next, Drive, Tick

(* The inductive form of the next theorem. *)
THEOREM VerdictInvariant == Spec => []VerdictInv
<1>1. Init => VerdictInv
  BY DEF Init, VerdictInv, Creating, Right
<1>2. TypeInv /\ TruthInv /\ VerdictInv /\ [Next]_vars => VerdictInv'
  BY VerdictNext
<1> QED
  BY <1>1, <1>2, TypeInvariant, TruthInvariant, PTL DEF Spec

(* The final status of an execution that was not judged before its first row *)
(* is right, although rows change between the updater's read of them and its *)
(* write, and the driver creates and orders jobs meanwhile                   *)
(* (checkWorkflowCompletion, executeWorkflowJobs).                           *)
THEOREM VerdictsAreRight == Spec => []VerdictIsRight
<1>1. VerdictInv => VerdictIsRight
  BY DEF VerdictInv, VerdictIsRight, Right
<1> QED
  BY <1>1, VerdictInvariant, PTL

-----------------------------------------------------------------------------
(* Rows that have ended. *)

(* Nobody else handles an update of job j meanwhile. *)
Alone(j) == j \in LocalJobs \/ \A g, h \in Handlers : g = h

(* Why the check of UpdateWorkflowJobStatus still holds when it writes: the  *)
(* updates of a job of this node do not overlap, and the driver leaves the   *)
(* rows alone once jobs report.                                              *)
KeepInv ==
  /\ \A g, h \in Handlers :
        /\ g # h /\ handPc[g] # "idle" /\ handPc[h] # "idle"
        /\ handled[g].job = handled[h].job
        => handled[g].job \notin LocalJobs
  /\ \A h \in Handlers :
        handPc[h] = "write" /\ Alone(handled[h].job)
          => Writable(handled[h].job, handled[h].status)

(* What a step may not do to the row of such a job. *)
Kept == \A j \in Jobs : Alone(j) /\ row[j] \in Ended => row'[j] = row[j]

(* No step overwrites a row of a job that has ended, if nothing else is being *)
(* handled for that job.                                                      *)
LEMMA KeepNext ==
  ASSUME TypeInv, TruthInv, VerdictInv, KeepInv, [Next]_vars PROVE KeepInv' /\ Kept
<1> USE DEF KeepInv, Kept, TypeInv, TypeOK, tables, driver, updater, handlers
<1>1. CASE driverPc \in {"new", "register", "mark", "create", "order"} /\ Drive
  <2>1. /\ \A j \in Jobs : reported[j] = {}
        /\ \A h \in Handlers : handPc[h] = "idle"
    BY <1>1 DEF VerdictInv, TruthInv, Update
  <2>2. \A j \in Jobs : row[j] \in Ended => row[j] = "ERRORED" /\ ~Creating
    BY <1>1, <2>1 DEF VerdictInv, TruthInv, RowsTellTheTruth, Creating, Ended, Outcome
  <2>3. UNCHANGED handlers
    BY <1>1 DEF Drive, CreateWorkflowExecution, RegisterExecution, MarkExecutionRunning,
               CreateWorkflowJob, OrderJob, SendStartCommand
  <2>4. Kept
    <3>1. CASE UNCHANGED row
      BY <3>1
    <3>2. CASE CreateWorkflowJob
      BY <2>2, <3>2 DEF CreateWorkflowJob, Iterate, InsertWorkflowJob, Creating
    <3>3. CASE OrderJob
      BY <2>2, <3>3 DEF OrderJob, createLocalJobExecution, sendRemoteJobRequest
    <3> QED
      BY <1>1, <3>1, <3>2, <3>3 DEF Drive, CreateWorkflowExecution, RegisterExecution,
         MarkExecutionRunning, SendStartCommand
  <2> QED
    BY <2>1, <2>3, <2>4
<1>2. CASE driverPc \notin {"new", "register", "mark", "create", "order"} /\ Drive
  <2>1. UNCHANGED <<row, handPc, handled>>
    BY <1>2 DEF Drive, CreateWorkflowExecution, RegisterExecution, MarkExecutionRunning,
         CreateWorkflowJob, OrderJob, SendStartCommand, Iterate
  <2> QED
    BY <2>1 DEF Writable
<1>3. ASSUME NEW j \in Jobs, NEW s \in Outcome, RemoteReport(j, s) PROVE KeepInv' /\ Kept
  BY <1>3 DEF RemoteReport, Writable
<1>4. ASSUME NEW j \in Jobs, NEW s \in Outcome, NEW h \in Handlers, LocalReport(h, j, s)
      PROVE KeepInv' /\ Kept
  BY <1>4 DEF LocalReport, Begin, Writable
<1>5. ASSUME NEW j \in Jobs, NEW s \in Outcome, NEW h \in Handlers,
             HandleJobStatusUpdate(h, j, s)
      PROVE KeepInv' /\ Kept
  BY <1>5 DEF HandleJobStatusUpdate, Begin, Writable
<1>6. ASSUME NEW h \in Handlers, ReadRow(h) PROVE KeepInv' /\ Kept
  BY <1>6 DEF ReadRow, EndHandler, Writable
<1>7. ASSUME NEW h \in Handlers, WriteRow(h) PROVE KeepInv' /\ Kept
  <2>1. Kept
    BY <1>7 DEF WriteRow, Writable, Update
  <2>2. ASSUME NEW g \in Handlers, handPc'[g] = "write", Alone(handled'[g].job)
        PROVE  Writable(handled[g].job, handled[g].status)' /\ g # h
    BY <1>7, <2>2 DEF WriteRow, EndHandler, Writable, Update, Alone
  <2> QED
    BY <1>7, <2>1, <2>2 DEF WriteRow, EndHandler
<1>8. CASE Tick
  BY <1>8 DEF Tick, checkWorkflowCompletion, UpdateWorkflowExecutionStatus, RemoveExecution,
     Writable
<1>9. CASE Restart
  BY <1>9 DEF Restart
<1>10. CASE UNCHANGED vars
  BY <1>10 DEF vars, Writable
<1> QED
  BY <1>1, <1>2, <1>3, <1>4, <1>5, <1>6, <1>7, <1>8, <1>9, <1>10 DEF Next

(* The inductive form, with the steps it allows. *)
LEMMA KeptAlways == Spec => [][Kept]_vars
<1>1. Init => KeepInv
  BY DEF Init, KeepInv
<1>2. TypeInv /\ TruthInv /\ VerdictInv /\ KeepInv /\ [Next]_vars => KeepInv' /\ [Kept]_vars
  BY KeepNext
<1> QED
  BY <1>1, <1>2, TypeInvariant, TruthInvariant, VerdictInvariant, PTL DEF Spec

(* The terminal states of the row of a job that this node executes itself    *)
(* cannot be overwritten, as the comment in UpdateWorkflowJobStatus says,    *)
(* however many handlers there are.                                          *)
THEOREM LocalRowsStay ==
  Spec => [][\A j \in LocalJobs : row[j] \in Ended => row'[j] = row[j]]_vars
<1>1. [Kept]_vars => [\A j \in LocalJobs : row[j] \in Ended => row'[j] = row[j]]_vars
  BY DEF Kept, Alone
<1> QED
  BY <1>1, KeptAlways, PTL

(* Nor can those of any row, when updates are handled one after the other.   *)
(* Two handlers of the same job are enough to break it.                      *)
THEOREM SerialRowsStay ==
  ASSUME \A g, h \in Handlers : g = h PROVE Spec => EndedRowsStay
<1>1. [Kept]_vars => [\A j \in Jobs : row[j] \in Ended => row'[j] = row[j]]_vars
  BY DEF Kept, Alone
<1> QED
  BY <1>1, KeptAlways, PTL DEF EndedRowsStay

=============================================================================
