------------------------ MODULE JobExecution_proofs ------------------------
(***************************************************************************)
(* Proofs about JobExecution for every number of jobs, workers, deliveries,*)
(* cancels and crashes.  Each theorem rests on an invariant that is        *)
(* inductive relative to the type invariant; the step lemmas have one case *)
(* per action of Next.                                                     *)
(***************************************************************************)
EXTENDS JobExecution, TLAPS

(* The type invariant, and that a busy worker or dispatcher has a job. *)
TypeInv ==
  /\ TypeOK
  /\ \A w \in Workers : workPc[w] # "idle" => workJob[w] \in Jobs
  /\ \A w \in Workers : callPc[w] # "idle" => callPay[w] \in Payments
  /\ queuePc # "scan" => queueJob \in Jobs

USE JobConstantsAssumption, NoPaymentAssumption

(* The state every behaviour starts in is well typed. *)
LEMMA InitType == Init => TypeInv
  BY DEF Init, TypeInv, TypeOK, EscrowInit, EscrowTypeOK, Status, RowStatus, StartPc, WorkPc,
         Output, PayStatus, Movement, CallPc, Deliveries

(* The sets the pieces of the state range over, named for the proofs. *)
ReqPc     == {"none", "submit", "link", "accepted", "refused"}
Report    == {"RUNNING", "COMPLETED", "ERRORED"}
CancelRec == [written : 0..MaxCancels, deleted : 0..MaxCancels]

(* What a step of executeJob must keep: the part of TypeInv about workers. *)
WorkType ==
  /\ workPc \in [Workers -> WorkPc]
  /\ workJob \in [Workers -> Jobs \cup {NoJob}]
  /\ report \in [Workers -> Report]
  /\ panicked \in [Workers -> BOOLEAN]
  /\ \A w \in Workers : workPc[w] # "idle" => workJob[w] \in Jobs

(* The escrow of a paid job is created, or its payment is refused. *)
LEMMA VerifyPaymentType ==
  ASSUME TypeInv, NEW j \in Jobs, VerifyPayment(j) PROVE TypeInv'
<1>1. payStatus' \in [Payments -> PayStatus] /\ UNCHANGED <<ledger, callPc, callPay>>
  BY ZenonT(30) DEF TypeInv, TypeOK, EscrowTypeOK, VerifyPayment, CreateEscrow,
       UpdateJobPaymentStatus, escrowVars, PayStatus
<1>2. reqPc' \in [Jobs -> ReqPc]
  <2>1. reqPc \in [Jobs -> ReqPc]
    BY DEF TypeInv, TypeOK, ReqPc
  <2>2. \E pc \in {"submit", "refused"} : reqPc' = [reqPc EXCEPT ![j] = pc]
    BY DEF VerifyPayment
  <2> QED
    BY <2>1, <2>2 DEF ReqPc
<1>3. UNCHANGED <<jobVars, envVars, running, startPc, cancels, queueVars, checkVars, tasks,
                  workVars, updates, boundVars, histVars>>
  BY DEF VerifyPayment
<1> QED
  BY <1>1, <1>2, <1>3 DEF TypeInv, TypeOK, EscrowTypeOK, ReqPc, jobVars, envVars, queueVars,
     checkVars, workVars, boundVars, histVars

(* A job is created, or the payment of one that cannot be is given back. *)
LEMMA SubmitJobType ==
  ASSUME TypeInv, NEW j \in Jobs, SubmitJob(j) PROVE TypeInv'
<1>1. /\ payStatus' = payStatus \/ payStatus' = [payStatus EXCEPT ![j] = "refunded"]
      /\ ledger' = ledger \/ ledger' = [ledger EXCEPT ![j] = @ \cup {"refund"}]
      /\ UNCHANGED <<callPc, callPay>>
  BY DEF SubmitJob, CreateJobExecution, escrowVars
<1>2. payStatus' \in [Payments -> PayStatus] /\ ledger' \in [Payments -> SUBSET Movement]
  <2>1. payStatus \in [Payments -> PayStatus] /\ ledger \in [Payments -> SUBSET Movement]
    BY DEF TypeInv, TypeOK, EscrowTypeOK
  <2>2. payStatus' \in [Payments -> PayStatus]
    BY <1>1, <2>1 DEF PayStatus
  <2>3. ledger' \in [Payments -> SUBSET Movement]
    BY <1>1, <2>1 DEF Movement
  <2> QED
    BY <2>2, <2>3
<1>3. reqPc' \in [Jobs -> ReqPc]
  BY ZenonT(30) DEF TypeInv, TypeOK, SubmitJob, CreateJobExecution, ReqPc
<1>4. status' \in [Jobs -> Status] /\ failed' \subseteq Jobs
  <2>1. status' = status \/ status' = [status EXCEPT ![j] = "IDLE"]
    BY DEF SubmitJob, CreateJobExecution, UpdateJobStatus
  <2>2. failed' = failed \/ failed' = failed \cup {j}
    BY DEF SubmitJob, CreateJobExecution
  <2>3. status' \in [Jobs -> Status]
    BY <2>1 DEF TypeInv, TypeOK, Status
  <2>4. failed' \subseteq Jobs
    BY <2>2 DEF TypeInv, TypeOK
  <2> QED
    BY <2>3, <2>4
<1>5. UNCHANGED <<startReceived, interfaces, linked, wfRow, envVars, running, startPc, cancels,
                  queueVars, checkVars, tasks, workVars, updates, boundVars, completed>>
  BY DEF SubmitJob, CreateJobExecution
<1> QED
  BY <1>1, <1>2, <1>3, <1>4, <1>5 DEF TypeInv, TypeOK, EscrowTypeOK, ReqPc, envVars,
                                      queueVars,
     checkVars, workVars, boundVars

(* The counts of cancel handlers stay within their bound. *)
LEMMA CancelJobType ==
  ASSUME TypeInv, NEW j \in Jobs, CancelJob(j) PROVE TypeInv'
<1>1. cancels \in [Jobs -> CancelRec]
  BY DEF TypeInv, TypeOK, CancelRec
<1>2. [cancels[j] EXCEPT !.written = @ + 1] \in CancelRec
  BY <1>1 DEF CancelJob, CancelRec
<1>3. cancels' \in [Jobs -> CancelRec]
  BY <1>1, <1>2 DEF CancelJob
<1>4. status' \in [Jobs -> Status]
  BY DEF TypeInv, TypeOK, CancelJob, UpdateJobStatus, Status
<1> QED
  BY <1>3, <1>4 DEF CancelJob, CancelRec, TypeInv, TypeOK, EscrowTypeOK, envVars, queueVars,
     checkVars, workVars, boundVars, histVars, escrowVars

(* A handler that has finished had written before it. *)
LEMMA CancelForgetType ==
  ASSUME TypeInv, NEW j \in Jobs, CancelForget(j) PROVE TypeInv'
<1>1. cancels \in [Jobs -> CancelRec]
  BY DEF TypeInv, TypeOK, CancelRec
<1>2. [cancels[j] EXCEPT !.deleted = @ + 1] \in CancelRec
  BY <1>1 DEF CancelForget, CancelRec
<1>3. cancels' \in [Jobs -> CancelRec]
  BY <1>1, <1>2 DEF CancelForget
<1>4. running' \subseteq Jobs
  BY DEF TypeInv, TypeOK, CancelForget
<1> QED
  BY <1>3, <1>4 DEF CancelForget, CancelRec, TypeInv, TypeOK, EscrowTypeOK, jobVars, envVars,
     queueVars, checkVars, workVars, boundVars, histVars, escrowVars

(* Every outcome a worker writes is a status, whatever happens to outputs. *)
LEMMA WriteOutcomeType ==
  ASSUME TypeInv, NEW w \in Workers, NEW from \in WorkPc \ {"idle"}, NEW s \in Report,
         WriteOutcome(w, from, s), outputs' \in [Jobs -> Output]
  PROVE  TypeInv'
<1>1. workJob[w] \in Jobs
  BY DEF TypeInv, WriteOutcome, StepWork
<1>2. status' \in [Jobs -> Status]
  BY <1>1 DEF TypeInv, TypeOK, WriteOutcome, UpdateJobStatus, Status, Report
<1>3. completed' \subseteq Jobs /\ failed' \subseteq Jobs
  BY <1>1 DEF TypeInv, TypeOK, WriteOutcome
<1>4. WorkType'
  BY <1>1 DEF TypeInv, TypeOK, WriteOutcome, StepWork, WorkType, WorkPc, Report
<1>5. UNCHANGED <<startReceived, interfaces, linked, wfRow, inputs, dests, running,
                  handleVars, queueVars, checkVars, tasks, updates, boundVars, escrowVars>>
  BY DEF WriteOutcome
<1> QED
  BY <1>2, <1>3, <1>4, <1>5 DEF TypeInv, TypeOK, EscrowTypeOK, WorkType, Report, handleVars,
     queueVars, checkVars, boundVars, escrowVars

(* Once its outcome is reported a worker transfers, ends or goes on. *)
LEMMA ReportedType ==
  ASSUME NEW w \in Workers PROVE Reported(w) \in {"exec", "transfer", "defer"}
  BY DEF Reported

(* The row of the workflow job is read; the update may be sent at once. *)
LEMMA ReadRowType ==
  ASSUME TypeInv, NEW w \in Workers, ReadRow(w) PROVE TypeInv'
<1>1. updates' \in 0..StatusCap
  BY DEF TypeInv, TypeOK, ReadRow, sendStatusUpdate
<1>2. PICK pc \in WorkPc : StepWork(w, "rowRead", pc)
  BY ReportedType DEF ReadRow, WorkPc
<1>3. WorkType'
  BY <1>2 DEF TypeInv, TypeOK, ReadRow, StepWork, WorkType, Report
<1>4. UNCHANGED <<jobVars, envVars, running, handleVars, queueVars, checkVars, tasks,
                  boundVars, histVars, escrowVars>>
  BY DEF ReadRow
<1> QED
  BY <1>1, <1>3, <1>4 DEF TypeInv, TypeOK, EscrowTypeOK, WorkType, Report, jobVars, envVars,
     handleVars, queueVars, checkVars, boundVars, histVars, escrowVars

(* The end of a run, with or without a call of the escrow manager. *)
LEMMA SettleOrRefundType ==
  ASSUME TypeInv, NEW w \in Workers, SettleOrRefund(w) PROVE TypeInv'
<1>1. workJob[w] \in Jobs
  BY DEF TypeInv, SettleOrRefund
<1>2. /\ UNCHANGED <<payStatus, ledger>>
      /\ \/ UNCHANGED <<callPc, callPay>>
         \/ Enter(w, workJob[w], "settleRead")
         \/ Enter(w, workJob[w], "refundRead")
  BY DEF SettleOrRefund, SettleEscrow, RefundEscrow, escrowVars
<1>3. EscrowTypeOK' /\ \A v \in Workers : callPc'[v] # "idle" => callPay'[v] \in Payments
  <2>1. /\ EscrowTypeOK
        /\ \A v \in Workers : callPc[v] # "idle" => callPay[v] \in Payments
    BY DEF TypeInv, TypeOK
  <2>2. CASE UNCHANGED <<callPc, callPay>>
    BY <1>2, <2>1, <2>2 DEF EscrowTypeOK
  <2>3. ASSUME NEW pc \in {"settleRead", "refundRead"}, Enter(w, workJob[w], pc)
        PROVE  /\ EscrowTypeOK'
               /\ \A v \in Workers : callPc'[v] # "idle" => callPay'[v] \in Payments
    BY <1>1, <1>2, <2>1, <2>3 DEF EscrowTypeOK, Enter, CallPc
  <2> QED
    BY <1>2, <2>2, <2>3
<1>4. \/ EndRun(w)
      \/ StepWork(w, "final", "paying") /\ UNCHANGED <<workJob, report, panicked>>
  BY DEF SettleOrRefund
<1>5. WorkType'
  BY <1>1, <1>4, ZenonT(30) DEF TypeInv, TypeOK, WorkType, EndRun, StepWork, WorkPc, Report
<1>6. UNCHANGED <<jobVars, envVars, running, handleVars, queueVars, checkVars, tasks,
                  updates, boundVars, histVars>>
  BY DEF SettleOrRefund
<1> QED
  BY <1>3, <1>5, <1>6 DEF TypeInv, TypeOK, WorkType, Report, jobVars, envVars,
     handleVars, queueVars, checkVars, boundVars, histVars

(* One step inside the escrow manager. *)
LEMMA EscrowStepType ==
  ASSUME EscrowTypeOK, NEW c \in Callers, EscrowStep(c), callPay[c] \in Payments
  PROVE  /\ EscrowTypeOK'
         /\ \A d \in Callers : d # c => callPc'[d] = callPc[d] /\ callPay'[d] = callPay[d]
         /\ callPc'[c] # "idle" => callPay'[c] \in Payments
<1>1. \/ payStatus' = payStatus
      \/ \E s \in PayStatus : payStatus' = [payStatus EXCEPT ![callPay[c]] = s]
  BY DEF EscrowStep, SettleRead, SettleCall, SettleWrite, UpdateJobPaymentStatus,
       RefundRead, RefundCall,
         RefundWrite,
         FacilitatorCall, PayStatus
<1>2. \/ ledger' = ledger
      \/ \E m \in Movement : ledger' = [ledger EXCEPT ![callPay[c]] = @ \cup {m}]
  BY DEF EscrowStep, SettleRead, SettleCall, SettleWrite, UpdateJobPaymentStatus,
       RefundRead, RefundCall,
         RefundWrite,
         FacilitatorCall, Movement
<1>3. Leave(c) \/ \E pc \in CallPc : Move(c, pc)
  BY DEF EscrowStep, SettleRead, SettleCall, SettleWrite, UpdateJobPaymentStatus,
       RefundRead, RefundCall,
         RefundWrite,
         FacilitatorCall, CallPc
<1>4. callPc' \in [Callers -> CallPc] /\ callPay' \in [Callers -> Payments \cup {NoPayment}]
  BY <1>3 DEF EscrowTypeOK, Leave, Move, CallPc
<1>5. /\ \A d \in Callers : d # c => callPc'[d] = callPc[d] /\ callPay'[d] = callPay[d]
      /\ callPc'[c] # "idle" => callPay'[c] \in Payments
  BY <1>3 DEF EscrowTypeOK, Leave, Move
<1>6. ledger' \in [Payments -> SUBSET Movement]
  BY <1>2 DEF EscrowTypeOK
<1>7. payStatus' \in [Payments -> PayStatus]
  BY <1>1 DEF EscrowTypeOK
<1> QED
  BY <1>4, <1>5, <1>6, <1>7 DEF EscrowTypeOK

(* A worker inside the escrow manager. *)
LEMMA PayStepType ==
  ASSUME TypeInv, NEW w \in Workers, PayStep(w) PROVE TypeInv'
<1>1. callPc[w] # "idle"
  BY DEF PayStep, EscrowStep, SettleRead, SettleCall, SettleWrite,
       UpdateJobPaymentStatus, RefundRead, RefundCall,
         RefundWrite
<1>2. /\ EscrowTypeOK'
      /\ \A d \in Callers : d # w => callPc'[d] = callPc[d] /\ callPay'[d] = callPay[d]
      /\ callPc'[w] # "idle" => callPay'[w] \in Payments
  BY <1>1, EscrowStepType DEF TypeInv, TypeOK, PayStep
<1>3. UNCHANGED <<jobVars, envVars, running, handleVars, queueVars, checkVars, tasks,
                  workVars, updates, boundVars, histVars>>
  BY DEF PayStep
<1> QED
  BY <1>2, <1>3 DEF TypeInv, TypeOK, jobVars, envVars, handleVars, queueVars, checkVars,
     workVars, boundVars, histVars

(* A panic is recovered: the job has failed, its payment is refunded. *)
LEMMA RecoverType ==
  ASSUME TypeInv, NEW w \in Workers, Recover(w) PROVE TypeInv'
<1>1. workJob[w] \in Jobs
  BY DEF TypeInv, Recover
<1>2. /\ UNCHANGED <<payStatus, ledger>>
      /\ \/ UNCHANGED <<callPc, callPay>>
         \/ Enter(w, workJob[w], "refundRead")
  BY DEF Recover, RefundEscrow, escrowVars
<1>3. EscrowTypeOK' /\ \A v \in Workers : callPc'[v] # "idle" => callPay'[v] \in Payments
  BY <1>1, <1>2, ZenonT(30) DEF TypeInv, TypeOK, EscrowTypeOK, Enter, CallPc
<1>4. WorkType'
  <2>1. \/ workPc' = [workPc EXCEPT ![w] = "paying"] /\ UNCHANGED workJob
        \/ /\ workPc' = [workPc EXCEPT ![w] = "idle"]
           /\ workJob' = [workJob EXCEPT ![w] = NoJob]
    BY DEF Recover
  <2>2. panicked' = [panicked EXCEPT ![w] = FALSE] /\ UNCHANGED report
    BY DEF Recover
  <2> QED
    BY <1>1, <2>1, <2>2, ZenonT(30) DEF TypeInv, TypeOK, WorkType, WorkPc, Report
<1>5. status' \in [Jobs -> Status] /\ failed' \subseteq Jobs /\ updates' \in 0..StatusCap
  BY <1>1 DEF TypeInv, TypeOK, Recover, UpdateJobStatus, sendStatusUpdate, Status
<1>6. UNCHANGED <<startReceived, interfaces, linked, wfRow, envVars, running, handleVars,
                  queueVars, checkVars, tasks, boundVars, completed>>
  BY DEF Recover
<1> QED
  BY <1>3, <1>4, <1>5, <1>6 DEF TypeInv, TypeOK, WorkType, Report, envVars, handleVars,
     queueVars, checkVars, boundVars

(* A crash: what is left of the handlers, workers and escrow calls. *)
LEMMA RestartType ==
  ASSUME TypeInv, Restart PROVE TypeInv'
<1>1. /\ EscrowTypeOK'
      /\ \A w \in Workers : callPc'[w] = "idle"
  BY DEF TypeInv, TypeOK, EscrowTypeOK, Restart, EscrowCrash, CallPc
<1>2. WorkType'
  BY DEF Restart, WorkType, WorkPc, Report
<1>3. cancels' \in [Jobs -> CancelRec]
  <2>1. cancels \in [Jobs -> CancelRec]
    BY DEF TypeInv, TypeOK, CancelRec
  <2>2. \A j \in Jobs : [cancels[j] EXCEPT !.deleted = cancels[j].written] \in CancelRec
    BY <2>1 DEF CancelRec
  <2> QED
    BY <2>2 DEF Restart
<1>4. reqPc' \in [Jobs -> ReqPc]
  BY DEF TypeInv, TypeOK, Restart, ReqPc
<1>5. startPc' \in [Jobs -> [Deliveries -> StartPc]]
  BY DEF Restart, StartPc
<1>6. restarts' \in 0..MaxRestarts /\ updates' \in 0..StatusCap
  BY SMTT(30) DEF TypeInv, TypeOK, Restart
<1>7. /\ running' = {} /\ batch' = {} /\ queuePc' = "scan" /\ queueJob' = NoJob
      /\ idle' = {} /\ checkJob' = NoJob /\ tasks' = <<>>
      /\ UNCHANGED <<jobVars, envVars, faults, histVars>>
  BY DEF Restart
<1>8. /\ running' \subseteq Jobs /\ batch' \subseteq Jobs /\ idle' \subseteq Jobs
      /\ queuePc' = "scan" /\ queueJob' \in Jobs \cup {NoJob}
      /\ checkJob' \in Jobs \cup {NoJob} /\ tasks' \in Seq(Jobs)
  BY <1>7
<1>9. UNCHANGED <<jobVars, envVars, faults, histVars>>
  BY <1>7
<1> QED
  BY <1>1, <1>2, <1>3, <1>4, <1>5, <1>6, <1>8, <1>9 DEF TypeInv, TypeOK, WorkType, Report,
     ReqPc, CancelRec, jobVars, envVars, histVars


(* Every step of every goroutine keeps the state well typed. *)
LEMMA NextType == TypeInv /\ [Next]_vars => TypeInv'
<1> SUFFICES ASSUME TypeInv, [Next]_vars PROVE TypeInv'
  OBVIOUS
<1> USE DEF TypeInv, TypeOK, EscrowTypeOK, Status, RowStatus, StartPc, WorkPc, PayStatus,
            Movement, CallPc, jobVars, envVars, handleVars, queueVars, checkVars, workVars,
            boundVars, histVars, escrowVars
<1>1. ASSUME NEW j \in Jobs, InputsArrive(j) PROVE TypeInv'
  BY <1>1 DEF InputsArrive
<1>2. ASSUME NEW j \in Jobs, DestinationsAccept(j) PROVE TypeInv'
  BY <1>2 DEF DestinationsAccept
<1>3. ASSUME NEW j \in Jobs, VerifyPayment(j) PROVE TypeInv'
  BY <1>3, VerifyPaymentType
<1>4. ASSUME NEW j \in Jobs, SubmitJob(j) PROVE TypeInv'
  BY <1>4, SubmitJobType
<1>5. ASSUME NEW j \in Jobs, LinkPayment(j) PROVE TypeInv'
  BY <1>5 DEF LinkPayment
<1>6. ASSUME NEW j \in Jobs, CancelJob(j) PROVE TypeInv'
  BY <1>6, CancelJobType
<1>7. ASSUME NEW j \in Jobs, CancelForget(j) PROVE TypeInv'
  BY <1>7, CancelForgetType
<1>8. ASSUME NEW j \in Jobs, CheckIdleJob(j) PROVE TypeInv'
  BY <1>8 DEF CheckIdleJob, CheckReady, checkInputsReady
<1>9. ASSUME NEW j \in Jobs, NEW d \in Deliveries, HandleJobStart(j, d) PROVE TypeInv'
  BY <1>9 DEF HandleJobStart, CreateJobInterface, StepStart
<1>10. ASSUME NEW j \in Jobs, NEW d \in Deliveries, CreateJobInterfaces(j, d) PROVE TypeInv'
  <2>1. status' = status \/ status' = [status EXCEPT ![j] = "READY"]
    BY <1>10 DEF CreateJobInterfaces, UpdateJobStatus
  <2>2. status' \in [Jobs -> Status]
    BY <2>1, ZenonT(30)
  <2> QED
    BY <1>10, <2>2 DEF CreateJobInterfaces, StepStart
<1>11. ASSUME NEW j \in Jobs, NEW d \in Deliveries, MarkJobStartReceived(j, d) PROVE TypeInv'
  BY <1>11 DEF MarkJobStartReceived, StepStart
<1>12. ASSUME NEW j \in Jobs, NEW d \in Deliveries, DecideStartStatus(j, d) PROVE TypeInv'
  BY <1>12 DEF DecideStartStatus, StepStart, checkInputsReady
<1>13. ASSUME NEW j \in Jobs, NEW d \in Deliveries, WriteStartStatus(j, d) PROVE TypeInv'
  BY <1>13 DEF WriteStartStatus, UpdateJobStatus
<1>14. ASSUME StartCheck PROVE TypeInv'
  BY <1>14 DEF StartCheck, GetJobsByStatus
<1>15. ASSUME WriteReady PROVE TypeInv'
  BY <1>15 DEF WriteReady, UpdateJobStatus
<1>16. ASSUME GetReadyJobs PROVE TypeInv'
  BY <1>16 DEF GetReadyJobs
<1>17. ASSUME NEW j \in Jobs, SelectJob(j) PROVE TypeInv'
  BY <1>17 DEF SelectJob, Dispatchable
<1>18. ASSUME SubmitTask PROVE TypeInv'
  BY <1>18 DEF SubmitTask
<1>19. ASSUME MarkRunning PROVE TypeInv'
  BY <1>19 DEF MarkRunning
<1>20. ASSUME NEW w \in Workers, TakeTask(w) PROVE TypeInv'
  <2>1. Head(tasks) \in Jobs /\ tasks' \in Seq(Jobs)
    BY <1>20 DEF TakeTask
  <2>2. /\ workPc' \in [Workers -> WorkPc]
        /\ workJob' \in [Workers -> Jobs \cup {NoJob}]
        /\ \A v \in Workers : workPc'[v] # "idle" => workJob'[v] \in Jobs
    BY <1>20, <2>1 DEF TakeTask, StepWork
  <2> QED
    BY <1>20, <2>1, <2>2 DEF TakeTask
<1>21. ASSUME NEW w \in Workers, BeginRun(w) PROVE TypeInv'
  BY <1>21, WriteOutcomeType DEF BeginRun, Report, envVars
<1>22. ASSUME NEW w \in Workers, BeginFails(w) PROVE TypeInv'
  BY <1>22 DEF BeginFails, StepWork
<1>23. ASSUME NEW w \in Workers, ReadRow(w) PROVE TypeInv'
  BY <1>23, ReadRowType
<1>24. ASSUME NEW w \in Workers, WriteRow(w) PROVE TypeInv'
  <2>1. workPc' = [workPc EXCEPT ![w] = Reported(w)]
    BY <1>24 DEF WriteRow, StepWork
  <2>2. updates' \in 0..StatusCap /\ wfRow' \in [WfJobs -> RowStatus]
    BY <1>24 DEF WriteRow, sendStatusUpdate
  <2> QED
    BY <1>24, <2>1, <2>2, ReportedType, SMTT(30) DEF WriteRow
<1>25. ASSUME NEW w \in Workers, ServiceSucceeds(w) PROVE TypeInv'
  <2>1. CASE Kind[workJob[w]] # "docker"
    <3>1. WriteOutcome(w, "exec", "COMPLETED") /\ UNCHANGED outputs
      BY <1>25, <2>1 DEF ServiceSucceeds, executeDataService, executeStandaloneService,
           executeDockerService
    <3>2. outputs' \in [Jobs -> Output] /\ "COMPLETED" \in Report
          /\ "exec" \in WorkPc \ {"idle"}
      BY <3>1 DEF Report
    <3> HIDE DEF TypeInv, WorkPc
    <3> QED
      BY <3>1, <3>2, WriteOutcomeType
  <2>2. CASE Kind[workJob[w]] = "docker"
    <3>1. /\ StepWork(w, "exec", "transfer")
          /\ UNCHANGED <<jobVars, envVars, running, handleVars, queueVars, checkVars, tasks,
                         workJob, report, panicked, updates, boundVars, histVars, escrowVars>>
      BY <1>25, <2>2 DEF ServiceSucceeds, executeDataService, executeStandaloneService,
           executeDockerService
    <3> QED
      BY <3>1 DEF StepWork
  <2> QED
    BY <2>1, <2>2
<1>26. ASSUME NEW w \in Workers, ServiceFails(w) PROVE TypeInv'
  BY <1>26, WriteOutcomeType DEF ServiceFails, Report, envVars
<1>27. ASSUME NEW w \in Workers, Panic(w) PROVE TypeInv'
  BY <1>27 DEF Panic
<1>28. ASSUME NEW w \in Workers, TransferDocker(w) PROVE TypeInv'
  <2>1. workJob[w] \in Jobs
    BY <1>28 DEF TransferDocker
  <2>2. outputs' \in [Jobs -> Output]
    <3>1. \/ \E o \in {"sent", "lost"} : outputs' = [outputs EXCEPT ![workJob[w]] = o]
          \/ outputs' = outputs
      BY <1>28 DEF TransferDocker, transferDockerOutputs, transferOutputLocally,
           transferPackageRemotely
    <3> QED
      BY <2>1, <3>1 DEF Output
  <2>3. PICK s \in Report : WriteOutcome(w, "transfer", s)
    BY <1>28 DEF TransferDocker, Report
  <2> QED
    BY <2>2, <2>3, WriteOutcomeType
<1>29. ASSUME NEW w \in Workers, TransferStandalone(w) PROVE TypeInv'
  <2>1. workJob[w] \in Jobs
    BY <1>29 DEF TransferStandalone
  <2>2. outputs' \in [Jobs -> Output]
    <3>1. \/ \E o \in {"sent", "lost"} : outputs' = [outputs EXCEPT ![workJob[w]] = o]
          \/ outputs' = outputs
      BY <1>29 DEF TransferStandalone, transferDockerOutputs, transferOutputLocally,
           transferPackageRemotely
    <3> QED
      BY <2>1, <3>1 DEF Output
  <2> QED
    BY <1>29, <2>1, <2>2 DEF TransferStandalone, StepWork
<1>30. ASSUME NEW w \in Workers, DeferForget(w) PROVE TypeInv'
  BY <1>30 DEF DeferForget, StepWork
<1>31. ASSUME NEW w \in Workers, SettleOrRefund(w) PROVE TypeInv'
  BY <1>31, SettleOrRefundType
<1>32. ASSUME NEW w \in Workers, PayStep(w) PROVE TypeInv'
  BY <1>32, PayStepType
<1>33. ASSUME NEW w \in Workers, PayDone(w) PROVE TypeInv'
  BY <1>33, SMTT(30) DEF PayDone, EndRun
<1>34. ASSUME NEW w \in Workers, Recover(w) PROVE TypeInv'
  BY <1>34, RecoverType
<1>35. ASSUME ProcessStatusUpdate PROVE TypeInv'
  BY <1>35 DEF ProcessStatusUpdate
<1>36. ASSUME Restart PROVE TypeInv'
  BY <1>36, RestartType
<1>37. CASE UNCHANGED vars
  BY <1>37 DEF vars
<1> QED
  BY <1>1, <1>2, <1>3, <1>4, <1>5, <1>6, <1>7, <1>8, <1>9, <1>10, <1>11, <1>12, <1>13,
       <1>14, <1>15, <1>16, <1>17, <1>18, <1>19, <1>20, <1>21, <1>22, <1>23, <1>24,
       <1>25, <1>26, <1>27, <1>28, <1>29, <1>30, <1>31, <1>32, <1>33, <1>34, <1>35,
       <1>36, <1>37 DEF Next, StartStep, QueueStep, WorkStep

(* The inductive invariant holds in every state: what the other proofs use. *)
THEOREM TypeInvariant == Spec => []TypeInv
  BY InitType, NextType, PTL DEF Spec

(* Type correctness, for every value of the constants: in particular the     *)
(* status channel never holds more updates than its capacity, although every *)
(* worker sends to it and nothing but its own worker drains it.              *)
THEOREM TypeCorrect == Spec => []TypeOK
<1>1. TypeInv => TypeOK
  BY DEF TypeInv
<1> QED
  BY <1>1, TypeInvariant, PTL

-----------------------------------------------------------------------------
(* The safety theorems: who may run, how often, and what is paid.  Each has  *)
(* an invariant that is inductive relative to the type invariant.            *)

-----------------------------------------------------------------------------
(* Eligibility. *)

(* Why a worker only gets eligible jobs: every place a job passes through on *)
(* its way from a status READY to a worker holds eligible jobs only.         *)
EligibleInv ==
  /\ \A j \in Jobs : status[j] = "READY" => Eligible(j)
  /\ \A j \in Jobs : startReceived[j] => interfaces[j]
  /\ \A j \in Jobs, d \in Deliveries :
        /\ startPc[j][d] \notin {"none", "done"} => interfaces[j]
        /\ startPc[j][d] = "READY" => Eligible(j)
  /\ \A j \in idle : interfaces[j]
  /\ checkJob \in Jobs => Eligible(checkJob)
  /\ \A j \in batch : Eligible(j)
  /\ queueJob \in Jobs => Eligible(queueJob)
  /\ \A i \in 1..Len(tasks) : Eligible(tasks[i])
  /\ \A w \in Workers : workJob[w] \in Jobs => Eligible(workJob[w])

(* Interfaces and inputs never go away: eligibility lasts. *)
LEMMA EligibleLasts ==
  ASSUME TypeInv, [Next]_vars
  PROVE  \A j \in Jobs : /\ interfaces[j] => interfaces'[j]
                         /\ Eligible(j) => Eligible(j)'
<1>1. \/ interfaces' = interfaces
      \/ \E j \in Jobs : interfaces' = [interfaces EXCEPT ![j] = TRUE]
  BY SMTT(30), ZenonT(60) DEF Next, StartStep, QueueStep, WorkStep, vars, jobVars, WriteOutcome,
       InputsArrive, DestinationsAccept, VerifyPayment, SubmitJob, CreateJobExecution,
       LinkPayment,
       CancelJob, CancelForget, CheckIdleJob, HandleJobStart, CreateJobInterface,
       CreateJobInterfaces,
       MarkJobStartReceived, DecideStartStatus, WriteStartStatus, StartCheck,
       GetJobsByStatus,
       WriteReady, GetReadyJobs, SelectJob, SubmitTask, MarkRunning, TakeTask, BeginRun,
       BeginFails, ReadRow, WriteRow, ServiceSucceeds, executeDataService,
       executeStandaloneService, executeDockerService, ServiceFails, Panic,
       TransferDocker, TransferStandalone, DeferForget, SettleOrRefund, PayStep,
       PayDone, Recover, ProcessStatusUpdate, Restart
<1>2. \/ inputs' = inputs
      \/ \E j \in Jobs : inputs' = [inputs EXCEPT ![j] = TRUE]
  BY SMTT(30), ZenonT(60) DEF Next, StartStep, QueueStep, WorkStep, vars, envVars, WriteOutcome,
       InputsArrive, DestinationsAccept, VerifyPayment, SubmitJob, CreateJobExecution,
       LinkPayment,
       CancelJob, CancelForget, CheckIdleJob, HandleJobStart, CreateJobInterface,
       CreateJobInterfaces,
       MarkJobStartReceived, DecideStartStatus, WriteStartStatus, StartCheck,
       GetJobsByStatus,
       WriteReady, GetReadyJobs, SelectJob, SubmitTask, MarkRunning, TakeTask, BeginRun,
       BeginFails, ReadRow, WriteRow, ServiceSucceeds, executeDataService,
       executeStandaloneService, executeDockerService, ServiceFails, Panic,
       TransferDocker, TransferStandalone, DeferForget, SettleOrRefund, PayStep,
       PayDone, Recover, ProcessStatusUpdate, Restart
<1> QED
  BY <1>1, <1>2 DEF TypeInv, TypeOK, Eligible

(* A step that marks no job READY and hands none on keeps it. *)
LEMMA EligibleFrame ==
  ASSUME TypeInv, EligibleInv,
         \A j \in Jobs : (interfaces[j] => interfaces'[j]) /\ (Eligible(j) => Eligible(j)'),
         UNCHANGED <<startReceived, startPc, idle, checkJob, batch, tasks>>,
         queueJob' \in Jobs => queueJob' = queueJob,
         \A j \in Jobs : status'[j] = "READY" => status[j] = "READY",
         \A w \in Workers : workJob'[w] \in Jobs => workJob'[w] = workJob[w]
  PROVE  EligibleInv'
<1>1. \A w \in Workers : (workJob[w] \in Jobs => Eligible(workJob[w]))'
  BY DEF EligibleInv, Eligible
<1>2. \A i \in 1..Len(tasks) : Eligible(tasks[i])'
  BY SMTT(30) DEF EligibleInv, TypeInv, TypeOK, Eligible
<1> QED
  BY <1>1, <1>2 DEF EligibleInv, TypeInv, TypeOK

(* Every step keeps it: a job gets into a snapshot, a task or a worker only  *)
(* from a place where it already was eligible.                               *)
LEMMA EligibleNext ==
  ASSUME TypeInv, EligibleInv, [Next]_vars PROVE EligibleInv'
<1>0. \A j \in Jobs : (interfaces[j] => interfaces'[j]) /\ (Eligible(j) => Eligible(j)')
  BY EligibleLasts
<1> USE DEF jobVars, handleVars, queueVars, checkVars, workVars
<1>1. ASSUME NEW j \in Jobs, InputsArrive(j) PROVE EligibleInv'
  BY <1>0, <1>1, EligibleFrame DEF InputsArrive
<1>2. ASSUME NEW j \in Jobs, DestinationsAccept(j) PROVE EligibleInv'
  BY <1>0, <1>2, EligibleFrame DEF DestinationsAccept
<1>3. ASSUME NEW j \in Jobs, VerifyPayment(j) PROVE EligibleInv'
  BY <1>0, <1>3, EligibleFrame DEF VerifyPayment
<1>4. ASSUME NEW j \in Jobs, SubmitJob(j) PROVE EligibleInv'
  <2>1. UNCHANGED <<startReceived, startPc, idle, checkJob, batch, queueJob, tasks>>
    BY <1>4 DEF SubmitJob, CreateJobExecution
  <2>2. \A k \in Jobs : status'[k] = "READY" => status[k] = "READY"
    BY <1>4 DEF SubmitJob, CreateJobExecution, UpdateJobStatus, TypeInv, TypeOK
  <2>3. \A v \in Workers : workJob'[v] \in Jobs => workJob'[v] = workJob[v]
    BY <1>4 DEF SubmitJob, CreateJobExecution, UpdateJobStatus, TypeInv, TypeOK
  <2> QED
    BY <1>0, <2>1, <2>2, <2>3, EligibleFrame
<1>5. ASSUME NEW j \in Jobs, LinkPayment(j) PROVE EligibleInv'
  BY <1>0, <1>5, EligibleFrame DEF LinkPayment
<1>6. ASSUME NEW j \in Jobs, CancelJob(j) PROVE EligibleInv'
  <2>1. UNCHANGED <<startReceived, startPc, idle, checkJob, batch, queueJob, tasks>>
    BY <1>6 DEF CancelJob
  <2>2. \A k \in Jobs : status'[k] = "READY" => status[k] = "READY"
    BY <1>6 DEF CancelJob, UpdateJobStatus, TypeInv, TypeOK
  <2>3. \A v \in Workers : workJob'[v] \in Jobs => workJob'[v] = workJob[v]
    BY <1>6 DEF CancelJob, UpdateJobStatus, TypeInv, TypeOK
  <2> QED
    BY <1>0, <2>1, <2>2, <2>3, EligibleFrame
<1>7. ASSUME NEW j \in Jobs, CancelForget(j) PROVE EligibleInv'
  BY <1>0, <1>7, EligibleFrame DEF CancelForget
<1>8. ASSUME NEW j \in Jobs, CheckIdleJob(j) PROVE EligibleInv'
  <2> USE <1>0 DEF EligibleInv, TypeInv, TypeOK
  <2>1. interfaces[j] /\ (CheckReady(j) => Eligible(j))
    BY <1>8 DEF CheckIdleJob, CheckReady, checkInputsReady, Eligible
  <2> QED
    BY <1>8, <2>1 DEF CheckIdleJob
<1>9. ASSUME NEW j \in Jobs, NEW d \in Deliveries, HandleJobStart(j, d) PROVE EligibleInv'
  BY <1>0, <1>9 DEF EligibleInv, TypeInv, TypeOK, HandleJobStart, CreateJobInterface,
       StepStart
<1>10. ASSUME NEW j \in Jobs, NEW d \in Deliveries, CreateJobInterfaces(j, d)
       PROVE EligibleInv'
  <2> USE <1>0 DEF EligibleInv, TypeInv, TypeOK
  <2>1. interfaces[j]
    BY <1>10 DEF CreateJobInterfaces, StepStart
  <2>2. \/ status' = status
        \/ status' = [status EXCEPT ![j] = "READY"] /\ Eligible(j)
    BY <1>10, <2>1 DEF CreateJobInterfaces, UpdateJobStatus, checkInputsReady, Eligible
  <2> QED
    BY <1>10, <2>1, <2>2 DEF CreateJobInterfaces, StepStart
<1>11. ASSUME NEW j \in Jobs, NEW d \in Deliveries, MarkJobStartReceived(j, d)
       PROVE EligibleInv'
  <2> USE <1>0 DEF EligibleInv, TypeInv, TypeOK
  <2>1. interfaces[j]
    BY <1>11 DEF MarkJobStartReceived, StepStart
  <2> QED
    BY <1>11, <2>1 DEF MarkJobStartReceived, StepStart
<1>12. ASSUME NEW j \in Jobs, NEW d \in Deliveries, DecideStartStatus(j, d)
       PROVE EligibleInv'
  <2> USE <1>0 DEF EligibleInv, TypeInv, TypeOK
  <2>1. interfaces[j]
    BY <1>12 DEF DecideStartStatus, StepStart
  <2>2. PICK pc \in {"READY", "IDLE"} :
           startPc' = [startPc EXCEPT ![j][d] = pc] /\ (pc = "READY" => Eligible(j))
    BY <1>12, <2>1 DEF DecideStartStatus, StepStart, checkInputsReady, Eligible
  <2> QED
    BY <1>12, <2>1, <2>2 DEF DecideStartStatus
<1>13. ASSUME NEW j \in Jobs, NEW d \in Deliveries, WriteStartStatus(j, d) PROVE EligibleInv'
  BY <1>0, <1>13 DEF EligibleInv, TypeInv, TypeOK, WriteStartStatus, UpdateJobStatus
<1>14. ASSUME StartCheck PROVE EligibleInv'
  BY <1>0, <1>14 DEF EligibleInv, TypeInv, TypeOK, StartCheck, GetJobsByStatus
<1>15. ASSUME WriteReady PROVE EligibleInv'
  BY <1>0, <1>15 DEF EligibleInv, TypeInv, TypeOK, WriteReady, UpdateJobStatus
<1>16. ASSUME GetReadyJobs PROVE EligibleInv'
  BY <1>0, <1>16 DEF EligibleInv, TypeInv, TypeOK, GetReadyJobs
<1>17. ASSUME NEW j \in Jobs, SelectJob(j) PROVE EligibleInv'
  BY <1>0, <1>17 DEF EligibleInv, TypeInv, TypeOK, SelectJob, Dispatchable
<1>18. ASSUME SubmitTask PROVE EligibleInv'
  <2>1. /\ queueJob \in Jobs /\ tasks \in Seq(Jobs) /\ tasks' = Append(tasks, queueJob)
        /\ UNCHANGED <<status, startReceived, startPc, idle, checkJob, batch, queueJob,
                      workJob>>
    BY <1>18 DEF TypeInv, TypeOK, SubmitTask
  <2>2. \A i \in 1..Len(tasks') :
           tasks'[i] = queueJob \/ (i \in 1..Len(tasks) /\ tasks'[i] = tasks[i])
    BY <2>1
  <2>3. \A i \in 1..Len(tasks) : tasks[i] \in Jobs /\ Eligible(tasks[i])
    BY <2>1 DEF EligibleInv
  <2>4. \A i \in 1..Len(tasks') : tasks'[i] \in Jobs /\ Eligible(tasks'[i])
    BY <2>1, <2>2, <2>3 DEF EligibleInv
  <2>5. (\A i \in 1..Len(tasks) : Eligible(tasks[i]))'
    BY <1>0, <2>4 DEF Eligible
  <2> QED
    BY <1>0, <2>1, <2>5 DEF EligibleInv, TypeInv, TypeOK
<1>19. ASSUME MarkRunning PROVE EligibleInv'
  BY <1>0, <1>19, EligibleFrame DEF MarkRunning
<1>20. ASSUME NEW w \in Workers, TakeTask(w) PROVE EligibleInv'
  BY <1>0, <1>20 DEF EligibleInv, TypeInv, TypeOK, TakeTask, StepWork
<1>21. ASSUME NEW w \in Workers, BeginRun(w) PROVE EligibleInv'
  <2>1. UNCHANGED <<startReceived, startPc, idle, checkJob, batch, queueJob, tasks>>
    BY <1>21 DEF BeginRun, WriteOutcome
  <2>2. \A k \in Jobs : status'[k] = "READY" => status[k] = "READY"
    BY <1>21 DEF BeginRun, WriteOutcome, UpdateJobStatus, TypeInv, TypeOK
  <2>3. \A v \in Workers : workJob'[v] \in Jobs => workJob'[v] = workJob[v]
    BY <1>21 DEF BeginRun, WriteOutcome, UpdateJobStatus, TypeInv, TypeOK
  <2> QED
    BY <1>0, <2>1, <2>2, <2>3, EligibleFrame
<1>22. ASSUME NEW w \in Workers, BeginFails(w) PROVE EligibleInv'
  BY <1>0, <1>22, EligibleFrame DEF BeginFails
<1>23. ASSUME NEW w \in Workers, ReadRow(w) PROVE EligibleInv'
  BY <1>0, <1>23, EligibleFrame DEF ReadRow
<1>24. ASSUME NEW w \in Workers, WriteRow(w) PROVE EligibleInv'
  BY <1>0, <1>24, EligibleFrame DEF WriteRow
<1>25. ASSUME NEW w \in Workers, ServiceSucceeds(w) PROVE EligibleInv'
  <2>1. UNCHANGED <<startReceived, startPc, idle, checkJob, batch, queueJob, tasks>>
    BY <1>25 DEF ServiceSucceeds, executeDataService, executeStandaloneService,
         executeDockerService, WriteOutcome
  <2>2. \A k \in Jobs : status'[k] = "READY" => status[k] = "READY"
    BY <1>25 DEF ServiceSucceeds, executeDataService, executeStandaloneService,
         executeDockerService, WriteOutcome, UpdateJobStatus, TypeInv, TypeOK
  <2>3. \A v \in Workers : workJob'[v] \in Jobs => workJob'[v] = workJob[v]
    BY <1>25 DEF ServiceSucceeds, executeDataService, executeStandaloneService,
         executeDockerService, WriteOutcome, UpdateJobStatus, TypeInv, TypeOK
  <2> QED
    BY <1>0, <2>1, <2>2, <2>3, EligibleFrame
<1>26. ASSUME NEW w \in Workers, ServiceFails(w) PROVE EligibleInv'
  <2>1. UNCHANGED <<startReceived, startPc, idle, checkJob, batch, queueJob, tasks>>
    BY <1>26 DEF ServiceFails, WriteOutcome
  <2>2. \A k \in Jobs : status'[k] = "READY" => status[k] = "READY"
    BY <1>26 DEF ServiceFails, WriteOutcome, UpdateJobStatus, TypeInv, TypeOK
  <2>3. \A v \in Workers : workJob'[v] \in Jobs => workJob'[v] = workJob[v]
    BY <1>26 DEF ServiceFails, WriteOutcome, UpdateJobStatus, TypeInv, TypeOK
  <2> QED
    BY <1>0, <2>1, <2>2, <2>3, EligibleFrame
<1>27. ASSUME NEW w \in Workers, Panic(w) PROVE EligibleInv'
  BY <1>0, <1>27, EligibleFrame DEF Panic
<1>28. ASSUME NEW w \in Workers, TransferDocker(w) PROVE EligibleInv'
  <2>1. UNCHANGED <<startReceived, startPc, idle, checkJob, batch, queueJob, tasks>>
    BY <1>28 DEF TransferDocker, WriteOutcome
  <2>2. \A k \in Jobs : status'[k] = "READY" => status[k] = "READY"
    BY <1>28 DEF TransferDocker, WriteOutcome, UpdateJobStatus, TypeInv, TypeOK
  <2>3. \A v \in Workers : workJob'[v] \in Jobs => workJob'[v] = workJob[v]
    BY <1>28 DEF TransferDocker, WriteOutcome, UpdateJobStatus, TypeInv, TypeOK
  <2> QED
    BY <1>0, <2>1, <2>2, <2>3, EligibleFrame
<1>29. ASSUME NEW w \in Workers, TransferStandalone(w) PROVE EligibleInv'
  BY <1>0, <1>29, EligibleFrame DEF TransferStandalone
<1>30. ASSUME NEW w \in Workers, DeferForget(w) PROVE EligibleInv'
  BY <1>0, <1>30, EligibleFrame DEF DeferForget
<1>31. ASSUME NEW w \in Workers, SettleOrRefund(w) PROVE EligibleInv'
  <2>1. UNCHANGED <<startReceived, startPc, idle, checkJob, batch, queueJob, tasks>>
    BY <1>31 DEF SettleOrRefund
  <2>2. \A k \in Jobs : status'[k] = "READY" => status[k] = "READY"
    BY <1>31 DEF SettleOrRefund, EndRun, TypeInv, TypeOK
  <2>3. \A v \in Workers : workJob'[v] \in Jobs => workJob'[v] = workJob[v]
    BY <1>31 DEF SettleOrRefund, EndRun, TypeInv, TypeOK
  <2> QED
    BY <1>0, <2>1, <2>2, <2>3, EligibleFrame
<1>32. ASSUME NEW w \in Workers, PayStep(w) PROVE EligibleInv'
  BY <1>0, <1>32, EligibleFrame DEF PayStep
<1>33. ASSUME NEW w \in Workers, PayDone(w) PROVE EligibleInv'
  <2>1. UNCHANGED <<startReceived, startPc, idle, checkJob, batch, queueJob, tasks>>
    BY <1>33 DEF PayDone
  <2>2. \A k \in Jobs : status'[k] = "READY" => status[k] = "READY"
    BY <1>33 DEF PayDone, EndRun, TypeInv, TypeOK
  <2>3. \A v \in Workers : workJob'[v] \in Jobs => workJob'[v] = workJob[v]
    BY <1>33 DEF PayDone, EndRun, TypeInv, TypeOK
  <2> QED
    BY <1>0, <2>1, <2>2, <2>3, EligibleFrame
<1>34. ASSUME NEW w \in Workers, Recover(w) PROVE EligibleInv'
  <2>1. UNCHANGED <<startReceived, startPc, idle, checkJob, batch, queueJob, tasks>>
    BY <1>34 DEF Recover
  <2>2. \A k \in Jobs : status'[k] = "READY" => status[k] = "READY"
    BY <1>34 DEF Recover, UpdateJobStatus, TypeInv, TypeOK
  <2>3. \A v \in Workers : workJob'[v] \in Jobs => workJob'[v] = workJob[v]
    BY <1>34 DEF Recover, UpdateJobStatus, TypeInv, TypeOK
  <2> QED
    BY <1>0, <2>1, <2>2, <2>3, EligibleFrame
<1>35. ASSUME ProcessStatusUpdate PROVE EligibleInv'
  BY <1>0, <1>35, EligibleFrame DEF ProcessStatusUpdate
<1>36. ASSUME Restart PROVE EligibleInv'
  BY <1>0, <1>36 DEF EligibleInv, TypeInv, TypeOK, Restart, EscrowCrash
<1>37. CASE UNCHANGED vars
  BY <1>0, <1>37, EligibleFrame DEF vars
<1> QED
  BY <1>1, <1>2, <1>3, <1>4, <1>5, <1>6, <1>7, <1>8, <1>9, <1>10, <1>11, <1>12, <1>13,
       <1>14, <1>15, <1>16, <1>17, <1>18, <1>19, <1>20, <1>21, <1>22, <1>23, <1>24,
       <1>25, <1>26, <1>27, <1>28, <1>29, <1>30, <1>31, <1>32, <1>33, <1>34, <1>35,
       <1>36, <1>37 DEF Next, StartStep, QueueStep, WorkStep

(* The theorem on eligibility: a worker only ever executes a job whose start *)
(* command has created its interfaces and whose inputs, if it waits for any, *)
(* have arrived.                                                             *)
THEOREM OnlyEligibleJobsRun == Spec => []RunsOnlyWhenEligible
<1>1. Init => EligibleInv
  BY DEF Init, EligibleInv
<1>2. TypeInv /\ EligibleInv /\ [Next]_vars => EligibleInv'
  BY EligibleNext
<1>3. TypeInv /\ EligibleInv => RunsOnlyWhenEligible
  BY DEF TypeInv, EligibleInv, RunsOnlyWhenEligible, Active
<1> QED
  BY <1>1, <1>2, <1>3, TypeInvariant, PTL DEF Spec

-----------------------------------------------------------------------------
(* Payments. *)

(* A job is due for a refund when a run of it failed, it could not be        *)
(* created, or it was cancelled.                                             *)
Refundable(j) == j \in failed \/ cancels[j].written > 0

(* Why payments follow outcomes: a terminal status has a cause, a call of    *)
(* the escrow manager keeps the cause it was made for, and a call that is    *)
(* about to write the row has moved the money.                               *)
PayInv ==
  /\ \A j \in Jobs : /\ status[j] = "COMPLETED" => j \in completed
                     /\ status[j] \in {"ERRORED", "CANCELLED"} => Refundable(j)
  /\ \A c \in Workers :
        /\ callPc[c] \in {"settleRead", "settleCall", "settleWrite"}
              => callPay[c] \in completed
        /\ callPc[c] \in {"refundRead", "refundCall", "refundWrite"}
              => Refundable(callPay[c])
        /\ callPc[c] = "settleWrite" => "settle" \in ledger[callPay[c]]
        /\ callPc[c] = "refundWrite" => "refund" \in ledger[callPay[c]]
  /\ PaymentsFollowOutcomes
  /\ RowsLagLedger

(* Every step keeps it, the steps inside the escrow manager and the crash    *)
(* included.                                                                 *)
LEMMA PayNext ==
  ASSUME TypeInv, PayInv, [Next]_vars PROVE PayInv'
<1> USE DEF PayInv, PaymentsFollowOutcomes, RowsLagLedger, Refundable, TypeInv, TypeOK,
            EscrowTypeOK, jobVars, handleVars, histVars, escrowVars
<1>1. ASSUME NEW j \in Jobs, InputsArrive(j) PROVE PayInv'
  BY <1>1 DEF InputsArrive
<1>2. ASSUME NEW j \in Jobs, DestinationsAccept(j) PROVE PayInv'
  BY <1>2 DEF DestinationsAccept
<1>3. ASSUME NEW j \in Jobs, VerifyPayment(j) PROVE PayInv'
  BY <1>3 DEF VerifyPayment, CreateEscrow, UpdateJobPaymentStatus
<1>4. ASSUME NEW j \in Jobs, SubmitJob(j) PROVE PayInv'
  <2>1. /\ UNCHANGED <<callPc, callPay, cancels, completed>>
        /\ \A k \in Jobs : status'[k] \in {status[k], "IDLE"}
        /\ failed \subseteq failed'
    BY <1>4 DEF SubmitJob, CreateJobExecution, UpdateJobStatus
  <2>2. \/ UNCHANGED ledger
        \/ ledger' = [ledger EXCEPT ![j] = @ \cup {"refund"}] /\ j \in failed'
    BY <1>4 DEF SubmitJob, CreateJobExecution
  <2>3. \/ UNCHANGED payStatus
        \/ /\ payStatus' = [payStatus EXCEPT ![j] = "refunded"]
           /\ ledger' = [ledger EXCEPT ![j] = @ \cup {"refund"}]
    BY <1>4 DEF SubmitJob, CreateJobExecution
  <2>4. \A k \in Jobs : /\ ledger[k] \subseteq ledger'[k]
                        /\ "settle" \in ledger'[k] => "settle" \in ledger[k]
                        /\ "refund" \in ledger'[k] => "refund" \in ledger[k] \/ k \in failed'
    <3>1. CASE UNCHANGED ledger
      BY <3>1
    <3>2. CASE ledger' = [ledger EXCEPT ![j] = @ \cup {"refund"}] /\ j \in failed'
      BY <3>2
    <3> QED
      BY <2>2, <3>1, <3>2
  <2>5. \A k \in Jobs : /\ payStatus'[k] = "settled" => payStatus[k] = "settled"
                        /\ payStatus'[k] = "refunded"
                             => payStatus[k] = "refunded" \/ "refund" \in ledger'[k]
    BY <2>3
  <2> QED
    BY <2>1, <2>4, <2>5
<1>5. ASSUME NEW j \in Jobs, LinkPayment(j) PROVE PayInv'
  BY <1>5 DEF LinkPayment
<1>6. ASSUME NEW j \in Jobs, CancelJob(j) PROVE PayInv'
  BY <1>6 DEF CancelJob, UpdateJobStatus
<1>7. ASSUME NEW j \in Jobs, CancelForget(j) PROVE PayInv'
  BY <1>7 DEF CancelForget
<1>8. ASSUME NEW j \in Jobs, CheckIdleJob(j) PROVE PayInv'
  BY <1>8 DEF CheckIdleJob, CheckReady, checkInputsReady
<1>9. ASSUME NEW j \in Jobs, NEW d \in Deliveries, HandleJobStart(j, d) PROVE PayInv'
  BY <1>9 DEF HandleJobStart, CreateJobInterface, StepStart
<1>10. ASSUME NEW j \in Jobs, NEW d \in Deliveries, CreateJobInterfaces(j, d) PROVE PayInv'
  BY <1>10 DEF CreateJobInterfaces, StepStart, UpdateJobStatus, checkInputsReady
<1>11. ASSUME NEW j \in Jobs, NEW d \in Deliveries, MarkJobStartReceived(j, d) PROVE PayInv'
  BY <1>11 DEF MarkJobStartReceived, StepStart
<1>12. ASSUME NEW j \in Jobs, NEW d \in Deliveries, DecideStartStatus(j, d) PROVE PayInv'
  BY <1>12 DEF DecideStartStatus, StepStart, checkInputsReady
<1>13. ASSUME NEW j \in Jobs, NEW d \in Deliveries, WriteStartStatus(j, d) PROVE PayInv'
  BY <1>13 DEF WriteStartStatus, UpdateJobStatus
<1>14. ASSUME StartCheck PROVE PayInv'
  BY <1>14 DEF StartCheck, GetJobsByStatus
<1>15. ASSUME WriteReady PROVE PayInv'
  BY <1>15 DEF WriteReady, UpdateJobStatus
<1>16. ASSUME GetReadyJobs PROVE PayInv'
  BY <1>16 DEF GetReadyJobs
<1>17. ASSUME NEW j \in Jobs, SelectJob(j) PROVE PayInv'
  BY <1>17 DEF SelectJob, Dispatchable
<1>18. ASSUME SubmitTask PROVE PayInv'
  BY <1>18 DEF SubmitTask
<1>19. ASSUME MarkRunning PROVE PayInv'
  BY <1>19 DEF MarkRunning
<1>20. ASSUME NEW w \in Workers, TakeTask(w) PROVE PayInv'
  BY <1>20 DEF TakeTask, StepWork
<1>21. ASSUME NEW w \in Workers, BeginRun(w) PROVE PayInv'
  BY <1>21 DEF BeginRun, WriteOutcome, StepWork, UpdateJobStatus
<1>22. ASSUME NEW w \in Workers, BeginFails(w) PROVE PayInv'
  BY <1>22 DEF BeginFails, StepWork
<1>23. ASSUME NEW w \in Workers, ReadRow(w) PROVE PayInv'
  BY <1>23 DEF ReadRow, StepWork, sendStatusUpdate, Reported
<1>24. ASSUME NEW w \in Workers, WriteRow(w) PROVE PayInv'
  BY <1>24 DEF WriteRow, StepWork, sendStatusUpdate, Reported
<1>25. ASSUME NEW w \in Workers, ServiceSucceeds(w) PROVE PayInv'
  BY <1>25, SMTT(30) DEF ServiceSucceeds, executeDataService, executeStandaloneService,
       executeDockerService, WriteOutcome, StepWork, UpdateJobStatus
<1>26. ASSUME NEW w \in Workers, ServiceFails(w) PROVE PayInv'
  BY <1>26 DEF ServiceFails, WriteOutcome, StepWork, UpdateJobStatus
<1>27. ASSUME NEW w \in Workers, Panic(w) PROVE PayInv'
  BY <1>27 DEF Panic
<1>28. ASSUME NEW w \in Workers, TransferDocker(w) PROVE PayInv'
  BY <1>28 DEF TransferDocker, WriteOutcome, StepWork, UpdateJobStatus
<1>29. ASSUME NEW w \in Workers, TransferStandalone(w) PROVE PayInv'
  BY <1>29 DEF TransferStandalone, StepWork
<1>30. ASSUME NEW w \in Workers, DeferForget(w) PROVE PayInv'
  BY <1>30 DEF DeferForget, StepWork
<1>31. ASSUME NEW w \in Workers, SettleOrRefund(w) PROVE PayInv'
  <2>1. UNCHANGED <<status, cancels, completed, failed, payStatus, ledger>>
    BY <1>31 DEF SettleOrRefund, SettleEscrow, RefundEscrow
  <2>2. workJob[w] \in Jobs
    BY <1>31 DEF SettleOrRefund
  <2>3. \/ UNCHANGED <<callPc, callPay>>
        \/ Enter(w, workJob[w], "settleRead") /\ workJob[w] \in completed
        \/ Enter(w, workJob[w], "refundRead") /\ Refundable(workJob[w])
    BY <1>31, <2>2 DEF SettleOrRefund, SettleEscrow, RefundEscrow
  <2> QED
    BY <2>1, <2>2, <2>3 DEF Enter
<1>32. ASSUME NEW w \in Workers, PayStep(w) PROVE PayInv'
  <2>0. UNCHANGED <<status, cancels, completed, failed>>
    BY <1>32 DEF PayStep
  <2>1. CASE SettleRead(w)
    BY <2>1, <2>0 DEF SettleRead, Move, Leave
  <2>2. CASE SettleCall(w)
    <3>1. callPay[w] \in Jobs /\ UNCHANGED payStatus
      BY <2>2 DEF SettleCall, FacilitatorCall
    <3>2. \/ UNCHANGED ledger
          \/ ledger' = [ledger EXCEPT ![callPay[w]] = @ \cup {"settle"}]
      BY <2>2 DEF SettleCall, FacilitatorCall
    <3>3. \A k \in Jobs : /\ ledger[k] \subseteq ledger'[k]
                          /\ "refund" \in ledger'[k] => "refund" \in ledger[k]
                          /\ "settle" \in ledger'[k] => "settle" \in ledger[k] \/ k = callPay[w]
      BY <3>1, <3>2
    <3>4. Leave(w) \/ (Move(w, "settleWrite") /\ "settle" \in ledger'[callPay[w]])
      BY <2>2, <3>1 DEF SettleCall, FacilitatorCall
    <3>5. callPc[w] = "settleCall"
      BY <2>2 DEF SettleCall
    <3>6. CASE Leave(w)
      BY <2>0, <3>1, <3>3, <3>5, <3>6 DEF Leave
    <3>7. CASE Move(w, "settleWrite") /\ "settle" \in ledger'[callPay[w]]
      BY <2>0, <3>1, <3>3, <3>5, <3>7 DEF Move
    <3> QED
      BY <3>4, <3>6, <3>7
  <2>3. CASE SettleWrite(w)
    BY <2>3, <2>0 DEF SettleWrite, UpdateJobPaymentStatus, Leave
  <2>4. CASE RefundRead(w)
    BY <2>4, <2>0 DEF RefundRead, Move, Leave
  <2>5. CASE RefundCall(w)
    <3>1. callPay[w] \in Jobs /\ UNCHANGED payStatus
      BY <2>5 DEF RefundCall, FacilitatorCall
    <3>2. \/ UNCHANGED ledger
          \/ ledger' = [ledger EXCEPT ![callPay[w]] = @ \cup {"refund"}]
      BY <2>5 DEF RefundCall, FacilitatorCall
    <3>3. \A k \in Jobs : /\ ledger[k] \subseteq ledger'[k]
                          /\ "settle" \in ledger'[k] => "settle" \in ledger[k]
                          /\ "refund" \in ledger'[k] => "refund" \in ledger[k] \/ k = callPay[w]
      BY <3>1, <3>2
    <3>4. Leave(w) \/ (Move(w, "refundWrite") /\ "refund" \in ledger'[callPay[w]])
      BY <2>5, <3>1 DEF RefundCall, FacilitatorCall
    <3>5. callPc[w] = "refundCall"
      BY <2>5 DEF RefundCall
    <3>6. CASE Leave(w)
      BY <2>0, <3>1, <3>3, <3>5, <3>6 DEF Leave
    <3>7. CASE Move(w, "refundWrite") /\ "refund" \in ledger'[callPay[w]]
      BY <2>0, <3>1, <3>3, <3>5, <3>7 DEF Move
    <3> QED
      BY <3>4, <3>6, <3>7
  <2>6. CASE RefundWrite(w)
    BY <2>6, <2>0 DEF RefundWrite, UpdateJobPaymentStatus, Leave
  <2> QED
    BY <1>32, <2>1, <2>2, <2>3, <2>4, <2>5, <2>6 DEF PayStep, EscrowStep
<1>33. ASSUME NEW w \in Workers, PayDone(w) PROVE PayInv'
  BY <1>33 DEF PayDone, EndRun
<1>34. ASSUME NEW w \in Workers, Recover(w) PROVE PayInv'
  <2>1. UNCHANGED <<cancels, completed, payStatus, ledger>>
    BY <1>34 DEF Recover, RefundEscrow
  <2>2. /\ workJob[w] \in Jobs
        /\ failed' = failed \cup {workJob[w]}
        /\ status' = [status EXCEPT ![workJob[w]] = "ERRORED"]
    BY <1>34 DEF Recover, UpdateJobStatus
  <2>3. UNCHANGED <<callPc, callPay>> \/ Enter(w, workJob[w], "refundRead")
    BY <1>34 DEF Recover, RefundEscrow
  <2> QED
    BY <2>1, <2>2, <2>3 DEF Enter
<1>35. ASSUME ProcessStatusUpdate PROVE PayInv'
  BY <1>35 DEF ProcessStatusUpdate
<1>36. ASSUME Restart PROVE PayInv'
  <2>1. UNCHANGED <<status, completed, failed, payStatus, ledger>>
    BY <1>36 DEF Restart, EscrowCrash
  <2>2. \A k \in Jobs : cancels'[k].written = cancels[k].written
    BY <1>36 DEF Restart
  <2>3. \A c \in Workers : callPc'[c] = "idle"
    BY <1>36 DEF Restart, EscrowCrash
  <2> QED
    BY <2>1, <2>2, <2>3
<1>37. CASE UNCHANGED vars
  BY <1>37 DEF vars
<1> QED
  BY <1>1, <1>2, <1>3, <1>4, <1>5, <1>6, <1>7, <1>8, <1>9, <1>10, <1>11, <1>12, <1>13,
       <1>14, <1>15, <1>16, <1>17, <1>18, <1>19, <1>20, <1>21, <1>22, <1>23, <1>24,
       <1>25, <1>26, <1>27, <1>28, <1>29, <1>30, <1>31, <1>32, <1>33, <1>34, <1>35,
       <1>36, <1>37 DEF Next, StartStep, QueueStep, WorkStep

(* The invariant holds: executeJob and the escrow manager together keep the  *)
(* cause of every payment.                                                   *)
THEOREM PaymentInvariant == Spec => []PayInv
<1>1. Init => PayInv
  BY DEF Init, EscrowInit, PayInv, PaymentsFollowOutcomes, RowsLagLedger
<1>2. TypeInv /\ PayInv /\ [Next]_vars => PayInv'
  BY PayNext
<1> QED
  BY <1>1, <1>2, TypeInvariant, PTL DEF Spec

(* The theorem on payments: money goes to the provider only for a job that   *)
(* completed and back only for one that failed or was cancelled.             *)
THEOREM PaymentsAreDue == Spec => []PaymentsFollowOutcomes
<1>1. PayInv => PaymentsFollowOutcomes
  BY DEF PayInv
<1> QED
  BY <1>1, PaymentInvariant, PTL

(* The payment rows never claim a movement the facilitator has not made,     *)
(* crashes and lost answers included.                                        *)
THEOREM RowsNeverAhead == Spec => []RowsLagLedger
<1>1. PayInv => RowsLagLedger
  BY DEF PayInv
<1> QED
  BY <1>1, PaymentInvariant, PTL

-----------------------------------------------------------------------------
(* Exclusion. *)

(* The worker has the job and has not yet taken it out of runningJobs. *)
Holds(w, j) == workPc[w] \in Active /\ workJob[w] = j

(* The queue cannot dispatch the job: it is in runningJobs, or the queue     *)
(* itself is just about to enter it there.                                   *)
Guarded(j) == j \in running \/ (queuePc = "mark" /\ queueJob = j)

(* Why one worker at a time: a job nobody has cancelled is in one place of   *)
(* the pool at most, is guarded while it is there, and is nowhere in the     *)
(* pool while the queue waits to submit it.                                  *)
ExclusiveInv ==
  \A j \in Jobs : cancels[j].written = 0 =>
    /\ \A i \in 1..Len(tasks) : tasks[i] = j => Guarded(j)
    /\ \A w \in Workers : Holds(w, j) => Guarded(j)
    /\ \A i, k \in 1..Len(tasks) : tasks[i] = j /\ tasks[k] = j => i = k
    /\ \A v, w \in Workers : Holds(v, j) /\ Holds(w, j) => v = w
    /\ \A i \in 1..Len(tasks), w \in Workers : tasks[i] = j => ~Holds(w, j)
    /\ queuePc = "submit" /\ queueJob = j =>
          /\ \A i \in 1..Len(tasks) : tasks[i] # j
          /\ \A w \in Workers : ~Holds(w, j)

(* A step that moves no job into or inside the pool keeps it. *)
LEMMA PoolFrame ==
  ASSUME TypeInv, ExclusiveInv,
         UNCHANGED <<running, tasks, queuePc, queueJob>>,
         \A w \in Workers, j \in Jobs : Holds(w, j)' => Holds(w, j),
         \A j \in Jobs : cancels'[j].written = 0 => cancels[j].written = 0
  PROVE  ExclusiveInv'
  BY DEF ExclusiveInv, Guarded

(* A step that touches nothing of the pool keeps it. *)
LEMMA PoolStill ==
  ASSUME TypeInv, ExclusiveInv,
         UNCHANGED <<running, tasks, queuePc, queueJob, cancels, workPc, workJob>>
  PROVE  ExclusiveInv'
<1>1. \A w \in Workers, j \in Jobs : Holds(w, j)' => Holds(w, j)
  BY DEF Holds
<1> QED
  BY <1>1, PoolFrame

(* The worker takes no job in the step, though it may leave one. *)
WorkerKeeps(w) ==
  /\ \A v \in Workers : v # w => workPc'[v] = workPc[v] /\ workJob'[v] = workJob[v]
  /\ workPc'[w] \in Active => workPc[w] \in Active /\ workJob'[w] = workJob[w]

(* A step of one worker that takes no job keeps it. *)
LEMMA PoolWorker ==
  ASSUME TypeInv, ExclusiveInv, NEW w \in Workers, WorkerKeeps(w),
         UNCHANGED <<running, tasks, queuePc, queueJob, cancels>>
  PROVE  ExclusiveInv'
<1>1. \A v \in Workers, j \in Jobs : Holds(v, j)' => Holds(v, j)
  BY DEF Holds, WorkerKeeps
<1> QED
  BY <1>1, PoolFrame

(* Every step keeps it: SelectJob, SubmitTask, MarkRunning and TakeTask hand *)
(* the job on, DeferForget gives it up, only a cancel breaks the guard.      *)
LEMMA ExclusiveNext ==
  ASSUME TypeInv, ExclusiveInv, [Next]_vars PROVE ExclusiveInv'
<1> USE DEF handleVars, queueVars, workVars
<1>1. ASSUME NEW j \in Jobs, InputsArrive(j) PROVE ExclusiveInv'
  BY <1>1, PoolStill DEF InputsArrive
<1>2. ASSUME NEW j \in Jobs, DestinationsAccept(j) PROVE ExclusiveInv'
  BY <1>2, PoolStill DEF DestinationsAccept
<1>3. ASSUME NEW j \in Jobs, VerifyPayment(j) PROVE ExclusiveInv'
  BY <1>3, PoolStill DEF VerifyPayment
<1>4. ASSUME NEW j \in Jobs, SubmitJob(j) PROVE ExclusiveInv'
  BY <1>4, PoolStill DEF SubmitJob, CreateJobExecution
<1>5. ASSUME NEW j \in Jobs, LinkPayment(j) PROVE ExclusiveInv'
  BY <1>5, PoolStill DEF LinkPayment
<1>6. ASSUME NEW j \in Jobs, CancelJob(j) PROVE ExclusiveInv'
  <2> USE DEF ExclusiveInv, Holds, Guarded, Active, TypeInv, TypeOK
  <2>1. \A k \in Jobs : cancels'[k].written = 0 => cancels[k].written = 0
    BY <1>6 DEF CancelJob
  <2>2. UNCHANGED <<running, tasks, queuePc, queueJob, workPc, workJob>>
    BY <1>6 DEF CancelJob
  <2>3. \A v \in Workers, k \in Jobs : Holds(v, k)' => Holds(v, k)
    BY <2>2
  <2> QED
    BY <2>1, <2>2, <2>3, PoolFrame
<1>7. ASSUME NEW j \in Jobs, CancelForget(j) PROVE ExclusiveInv'
  <2> USE DEF ExclusiveInv, Holds, Guarded, Active, TypeInv, TypeOK
  <2>1. /\ cancels[j].written \in Nat /\ cancels[j].deleted \in Nat
        /\ cancels[j].written # 0
        /\ \A k \in Jobs : cancels'[k].written = cancels[k].written
    BY <1>7 DEF CancelForget
  <2>2. \A k \in Jobs : k # j => Guarded(k)' = Guarded(k)
    BY <1>7 DEF CancelForget
  <2>3. UNCHANGED <<tasks, queuePc, queueJob, workPc, workJob>>
    BY <1>7 DEF CancelForget
  <2>4. \A k \in Jobs, w \in Workers : Holds(w, k)' = Holds(w, k)
    BY <2>3
  <2> HIDE DEF Holds, Guarded, TypeInv, TypeOK
  <2>5. \A k \in Jobs : cancels'[k].written = 0 => Guarded(k)' = Guarded(k)
    BY <2>1, <2>2
  <2>6. \A k \in Jobs : cancels'[k].written = 0 => cancels[k].written = 0
    BY <2>1
  <2> QED
    BY <2>3, <2>4, <2>5, <2>6
<1>8. ASSUME NEW j \in Jobs, CheckIdleJob(j) PROVE ExclusiveInv'
  BY <1>8, PoolStill DEF CheckIdleJob
<1>9. ASSUME NEW j \in Jobs, NEW d \in Deliveries, HandleJobStart(j, d) PROVE ExclusiveInv'
  BY <1>9, PoolStill DEF HandleJobStart, CreateJobInterface
<1>10. ASSUME NEW j \in Jobs, NEW d \in Deliveries, CreateJobInterfaces(j, d)
       PROVE ExclusiveInv'
  BY <1>10, PoolStill DEF CreateJobInterfaces
<1>11. ASSUME NEW j \in Jobs, NEW d \in Deliveries, MarkJobStartReceived(j, d)
       PROVE ExclusiveInv'
  BY <1>11, PoolStill DEF MarkJobStartReceived
<1>12. ASSUME NEW j \in Jobs, NEW d \in Deliveries, DecideStartStatus(j, d)
       PROVE ExclusiveInv'
  BY <1>12, PoolStill DEF DecideStartStatus
<1>13. ASSUME NEW j \in Jobs, NEW d \in Deliveries, WriteStartStatus(j, d)
       PROVE ExclusiveInv'
  BY <1>13, PoolStill DEF WriteStartStatus
<1>14. ASSUME StartCheck PROVE ExclusiveInv'
  BY <1>14, PoolStill DEF StartCheck, GetJobsByStatus
<1>15. ASSUME WriteReady PROVE ExclusiveInv'
  BY <1>15, PoolStill DEF WriteReady
<1>16. ASSUME GetReadyJobs PROVE ExclusiveInv'
  BY <1>16, PoolStill DEF GetReadyJobs
<1>17. ASSUME NEW j \in Jobs, SelectJob(j) PROVE ExclusiveInv'
  BY <1>17 DEF ExclusiveInv, Holds, Guarded, Active, TypeInv, TypeOK, SelectJob, Dispatchable
<1>18. ASSUME SubmitTask PROVE ExclusiveInv'
  <2> USE DEF ExclusiveInv, Holds, Guarded, Active, TypeInv, TypeOK
  <2>1. /\ queuePc = "submit" /\ queuePc' = "mark" /\ queueJob \in Jobs
        /\ tasks' = Append(tasks, queueJob)
        /\ UNCHANGED <<running, queueJob, cancels, workPc, workJob>>
    BY <1>18 DEF SubmitTask
  <2>2. /\ Len(tasks) \in Nat /\ Len(tasks') = Len(tasks) + 1
        /\ \A i \in 1..Len(tasks) : tasks'[i] = tasks[i]
        /\ tasks'[Len(tasks) + 1] = queueJob
    BY <2>1
  <2>3. \A v \in Workers, k \in Jobs : Holds(v, k)' <=> Holds(v, k)
    BY <2>1
  <2>4. \A k \in Jobs : Guarded(k)' <=> Guarded(k) \/ k = queueJob
    BY <2>1
  <2> HIDE DEF Holds, Guarded, TypeInv, TypeOK
  <2>5. \A i \in 1..Len(tasks') : i \in 1..Len(tasks) \/ i = Len(tasks) + 1
    BY <2>2
  <2>6. SUFFICES ASSUME NEW k \in Jobs, cancels[k].written = 0
                 PROVE  /\ \A i \in 1..Len(tasks') : tasks'[i] = k => Guarded(k)'
                        /\ \A v \in Workers : Holds(v, k)' => Guarded(k)'
                        /\ \A i, l \in 1..Len(tasks') :
                              tasks'[i] = k /\ tasks'[l] = k => i = l
                        /\ \A v, w \in Workers : Holds(v, k)' /\ Holds(w, k)' => v = w
                        /\ \A i \in 1..Len(tasks'), v \in Workers :
                              tasks'[i] = k => ~Holds(v, k)'
    BY <2>1
  <2>7. CASE k = queueJob
    <3>1. (\A i \in 1..Len(tasks) : tasks[i] # k) /\ (\A v \in Workers : ~Holds(v, k))
      BY <2>1, <2>6, <2>7
    <3> QED
      BY <2>2, <2>3, <2>4, <2>5, <2>7, <3>1
  <2>8. CASE k # queueJob
    BY <2>2, <2>3, <2>4, <2>5, <2>6, <2>8
  <2> QED
    BY <2>7, <2>8
<1>19. ASSUME MarkRunning PROVE ExclusiveInv'
  BY <1>19 DEF ExclusiveInv, Holds, Guarded, Active, TypeInv, TypeOK, MarkRunning
<1>20. ASSUME NEW w \in Workers, TakeTask(w) PROVE ExclusiveInv'
  <2> USE DEF ExclusiveInv, Holds, Guarded, Active, TypeInv, TypeOK
  <2>1. /\ tasks # <<>> /\ tasks' = Tail(tasks)
        /\ workPc[w] = "idle" /\ workPc' = [workPc EXCEPT ![w] = "begin"]
        /\ workJob' = [workJob EXCEPT ![w] = Head(tasks)]
        /\ UNCHANGED <<running, queuePc, queueJob, cancels>>
    BY <1>20 DEF TakeTask, StepWork
  <2>2. /\ Len(tasks) \in Nat \ {0} /\ Len(tasks') = Len(tasks) - 1
        /\ \A i \in 1..Len(tasks') : i + 1 \in 1..Len(tasks) /\ tasks'[i] = tasks[i + 1]
        /\ 1 \in 1..Len(tasks) /\ Head(tasks) = tasks[1]
    BY <2>1
  <2>3. \A v \in Workers, k \in Jobs : Holds(v, k)' <=> IF v = w THEN k = tasks[1] ELSE Holds(v, k)
    BY <2>1, <2>2
  <2>4. \A k \in Jobs : Guarded(k)' = Guarded(k)
    BY <2>1
  <2> HIDE DEF Holds, Guarded
  <2> HIDE DEF TypeInv, TypeOK
  <2>5. ASSUME NEW k \in Jobs, cancels[k].written = 0
        PROVE  /\ \A i \in 1..Len(tasks') : tasks'[i] = k => Guarded(k)'
               /\ \A v \in Workers : Holds(v, k)' => Guarded(k)'
               /\ \A i, m \in 1..Len(tasks') : tasks'[i] = k /\ tasks'[m] = k => i = m
               /\ \A u, v \in Workers : Holds(u, k)' /\ Holds(v, k)' => u = v
               /\ \A i \in 1..Len(tasks'), v \in Workers : tasks'[i] = k => ~Holds(v, k)'
               /\ queuePc' = "submit" /\ queueJob' = k =>
                     /\ \A i \in 1..Len(tasks') : tasks'[i] # k
                     /\ \A v \in Workers : ~Holds(v, k)'
    <3>1. /\ \A i \in 1..Len(tasks) : tasks[i] = k => Guarded(k)
          /\ \A v \in Workers : Holds(v, k) => Guarded(k)
          /\ \A i, m \in 1..Len(tasks) : tasks[i] = k /\ tasks[m] = k => i = m
          /\ \A u, v \in Workers : Holds(u, k) /\ Holds(v, k) => u = v
          /\ \A i \in 1..Len(tasks), v \in Workers : tasks[i] = k => ~Holds(v, k)
          /\ queuePc = "submit" /\ queueJob = k =>
                /\ \A i \in 1..Len(tasks) : tasks[i] # k
                /\ \A v \in Workers : ~Holds(v, k)
      BY <2>5
    <3> HIDE DEF ExclusiveInv
    <3>2. /\ \A i \in 1..Len(tasks') : tasks'[i] = k => Guarded(k)'
          /\ \A v \in Workers : Holds(v, k)' => Guarded(k)'
      BY <3>1, <2>2, <2>3, <2>4
    <3>3. \A i, m \in 1..Len(tasks') : tasks'[i] = k /\ tasks'[m] = k => i = m
      <4> SUFFICES ASSUME NEW i \in 1..Len(tasks'), NEW m \in 1..Len(tasks'),
                          tasks'[i] = k, tasks'[m] = k
                   PROVE  i = m
        OBVIOUS
      <4>1. i + 1 \in 1..Len(tasks) /\ m + 1 \in 1..Len(tasks)
            /\ tasks[i + 1] = k /\ tasks[m + 1] = k
        BY <2>2
      <4>2. i + 1 = m + 1
        BY <4>1, <3>1
      <4> QED
        BY <4>2
    <3>4. \A u, v \in Workers : Holds(u, k)' /\ Holds(v, k)' => u = v
      BY <3>1, <2>2, <2>3
    <3>5. \A i \in 1..Len(tasks'), v \in Workers : tasks'[i] = k => ~Holds(v, k)'
      <4> SUFFICES ASSUME NEW i \in 1..Len(tasks'), NEW v \in Workers,
                          tasks'[i] = k, Holds(v, k)'
                   PROVE  FALSE
        OBVIOUS
      <4>1. i + 1 \in 1..Len(tasks) /\ tasks[i + 1] = k /\ i + 1 # 1
        BY <2>2
      <4>2. CASE v = w
        <5>1. tasks[1] = k
          BY <4>2, <2>3
        <5>2. i + 1 = 1
          BY <5>1, <4>1, <3>1, <2>2
        <5> QED
          BY <5>2, <4>1
      <4>3. CASE v # w
        BY <4>3, <4>1, <3>1, <2>3
      <4> QED
        BY <4>2, <4>3
    <3>6. queuePc' = "submit" /\ queueJob' = k =>
             /\ \A i \in 1..Len(tasks') : tasks'[i] # k
             /\ \A v \in Workers : ~Holds(v, k)'
      <4>1. UNCHANGED <<queuePc, queueJob>>
        BY <2>1
      <4> QED
        BY <4>1, <3>1, <2>2, <2>3
    <3> QED
      BY <3>2, <3>3, <3>4, <3>5, <3>6
  <2>6. UNCHANGED cancels
    BY <2>1
  <2> QED
    BY <2>5, <2>6
<1>21. ASSUME NEW w \in Workers, BeginRun(w) PROVE ExclusiveInv'
  <2>1. UNCHANGED <<running, tasks, queuePc, queueJob, cancels>>
    BY <1>21 DEF BeginRun, WriteOutcome
  <2>2. WorkerKeeps(w)
    BY <1>21 DEF WorkerKeeps, Active, TypeInv, TypeOK, BeginRun, WriteOutcome, StepWork
  <2> QED
    BY <2>1, <2>2, PoolWorker
<1>22. ASSUME NEW w \in Workers, BeginFails(w) PROVE ExclusiveInv'
  <2>1. UNCHANGED <<running, tasks, queuePc, queueJob, cancels>>
    BY <1>22 DEF BeginFails
  <2>2. WorkerKeeps(w)
    BY <1>22 DEF WorkerKeeps, Active, TypeInv, TypeOK, BeginFails, StepWork
  <2> QED
    BY <2>1, <2>2, PoolWorker
<1>23. ASSUME NEW w \in Workers, ReadRow(w) PROVE ExclusiveInv'
  <2>1. UNCHANGED <<running, tasks, queuePc, queueJob, cancels>>
    BY <1>23 DEF ReadRow
  <2>2. WorkerKeeps(w)
    BY <1>23 DEF WorkerKeeps, Active, TypeInv, TypeOK, ReadRow, StepWork
  <2> QED
    BY <2>1, <2>2, PoolWorker
<1>24. ASSUME NEW w \in Workers, WriteRow(w) PROVE ExclusiveInv'
  <2>1. UNCHANGED <<running, tasks, queuePc, queueJob, cancels>>
    BY <1>24 DEF WriteRow
  <2>2. WorkerKeeps(w)
    BY <1>24 DEF WorkerKeeps, Active, TypeInv, TypeOK, WriteRow, StepWork
  <2> QED
    BY <2>1, <2>2, PoolWorker
<1>25. ASSUME NEW w \in Workers, ServiceSucceeds(w) PROVE ExclusiveInv'
  <2>1. UNCHANGED <<running, tasks, queuePc, queueJob, cancels>>
    BY <1>25 DEF ServiceSucceeds, executeDataService, executeStandaloneService,
         executeDockerService, WriteOutcome
  <2>2. WorkerKeeps(w)
    BY <1>25 DEF WorkerKeeps, Active, TypeInv, TypeOK, ServiceSucceeds,
         executeDataService, executeStandaloneService, executeDockerService,
    WriteOutcome, StepWork
  <2> QED
    BY <2>1, <2>2, PoolWorker
<1>26. ASSUME NEW w \in Workers, ServiceFails(w) PROVE ExclusiveInv'
  <2>1. UNCHANGED <<running, tasks, queuePc, queueJob, cancels>>
    BY <1>26 DEF ServiceFails, WriteOutcome
  <2>2. WorkerKeeps(w)
    BY <1>26 DEF WorkerKeeps, Active, TypeInv, TypeOK, ServiceFails, WriteOutcome, StepWork
  <2> QED
    BY <2>1, <2>2, PoolWorker
<1>27. ASSUME NEW w \in Workers, Panic(w) PROVE ExclusiveInv'
  <2>1. UNCHANGED <<running, tasks, queuePc, queueJob, cancels>>
    BY <1>27 DEF Panic
  <2>2. WorkerKeeps(w)
    BY <1>27 DEF WorkerKeeps, Active, TypeInv, TypeOK, Panic
  <2> QED
    BY <2>1, <2>2, PoolWorker
<1>28. ASSUME NEW w \in Workers, TransferDocker(w) PROVE ExclusiveInv'
  <2>1. UNCHANGED <<running, tasks, queuePc, queueJob, cancels>>
    BY <1>28 DEF TransferDocker, WriteOutcome
  <2>2. WorkerKeeps(w)
    BY <1>28 DEF WorkerKeeps, Active, TypeInv, TypeOK, TransferDocker, WriteOutcome, StepWork
  <2> QED
    BY <2>1, <2>2, PoolWorker
<1>29. ASSUME NEW w \in Workers, TransferStandalone(w) PROVE ExclusiveInv'
  <2>1. UNCHANGED <<running, tasks, queuePc, queueJob, cancels>>
    BY <1>29 DEF TransferStandalone
  <2>2. WorkerKeeps(w)
    BY <1>29 DEF WorkerKeeps, Active, TypeInv, TypeOK, TransferStandalone, StepWork
  <2> QED
    BY <2>1, <2>2, PoolWorker
<1>30. ASSUME NEW w \in Workers, DeferForget(w) PROVE ExclusiveInv'
  BY <1>30 DEF ExclusiveInv, Holds, Guarded, Active, TypeInv, TypeOK, DeferForget, StepWork
<1>31. ASSUME NEW w \in Workers, SettleOrRefund(w) PROVE ExclusiveInv'
  <2>1. UNCHANGED <<running, tasks, queuePc, queueJob, cancels>>
    BY <1>31 DEF SettleOrRefund
  <2>2. WorkerKeeps(w)
    BY <1>31 DEF WorkerKeeps, Active, TypeInv, TypeOK, SettleOrRefund, EndRun, StepWork
  <2> QED
    BY <2>1, <2>2, PoolWorker
<1>32. ASSUME NEW w \in Workers, PayStep(w) PROVE ExclusiveInv'
  BY <1>32, PoolStill DEF PayStep
<1>33. ASSUME NEW w \in Workers, PayDone(w) PROVE ExclusiveInv'
  <2>1. UNCHANGED <<running, tasks, queuePc, queueJob, cancels>>
    BY <1>33 DEF PayDone
  <2>2. WorkerKeeps(w)
    BY <1>33 DEF WorkerKeeps, Active, TypeInv, TypeOK, PayDone, EndRun
  <2> QED
    BY <2>1, <2>2, PoolWorker
<1>34. ASSUME NEW w \in Workers, Recover(w) PROVE ExclusiveInv'
  <2>1. UNCHANGED <<running, tasks, queuePc, queueJob, cancels>>
    BY <1>34 DEF Recover
  <2>2. WorkerKeeps(w)
    BY <1>34 DEF WorkerKeeps, Active, TypeInv, TypeOK, Recover
  <2> QED
    BY <2>1, <2>2, PoolWorker
<1>35. ASSUME ProcessStatusUpdate PROVE ExclusiveInv'
  BY <1>35, PoolStill DEF ProcessStatusUpdate
<1>36. ASSUME Restart PROVE ExclusiveInv'
  BY <1>36 DEF ExclusiveInv, Holds, Guarded, Active, TypeInv, TypeOK, Restart, EscrowCrash
<1>37. CASE UNCHANGED vars
  BY <1>37, PoolStill DEF vars
<1> QED
  BY <1>1, <1>2, <1>3, <1>4, <1>5, <1>6, <1>7, <1>8, <1>9, <1>10, <1>11, <1>12, <1>13,
       <1>14, <1>15, <1>16, <1>17, <1>18, <1>19, <1>20, <1>21, <1>22, <1>23, <1>24,
       <1>25, <1>26, <1>27, <1>28, <1>29, <1>30, <1>31, <1>32, <1>33, <1>34, <1>35,
       <1>36, <1>37 DEF Next, StartStep, QueueStep, WorkStep

(* The theorem on exclusion: two workers execute the same job at the same    *)
(* time only if the job was cancelled.                                       *)
THEOREM OneWorkerPerJob == Spec => []AtMostOneWorkerPerJob
<1>1. Init => ExclusiveInv
  BY DEF Init, ExclusiveInv, Holds, Active
<1>2. TypeInv /\ ExclusiveInv /\ [Next]_vars => ExclusiveInv'
  BY ExclusiveNext
<1>3. TypeInv /\ ExclusiveInv => AtMostOneWorkerPerJob
  BY DEF TypeInv, TypeOK, ExclusiveInv, AtMostOneWorkerPerJob, Holds, Active
<1> QED
  BY <1>1, <1>2, <1>3, TypeInvariant, PTL DEF Spec
-----------------------------------------------------------------------------
(* Delivery. *)

(* Why delivery comes before payment: a job some run of which completed has  *)
(* had its outputs transferred, and nothing takes that back.                 *)
TransferInv == \A j \in completed : Kind[j] = "docker" => outputs[j] # "kept"

(* Every step keeps it: COMPLETED is written for a Docker job only by the    *)
(* step that ends its transfer.                                              *)
LEMMA TransferNext ==
  ASSUME TypeInv, TransferInv, [Next]_vars PROVE TransferInv'
<1>0. /\ outputs \in [Jobs -> Output] /\ completed \subseteq Jobs
      /\ \A w \in Workers : workPc[w] # "idle" => workJob[w] \in Jobs
  BY DEF TypeInv, TypeOK
<1> USE <1>0 DEF TransferInv, Output, envVars, histVars, transferDockerOutputs,
     transferOutputLocally, transferPackageRemotely
<1>1. ASSUME NEW j \in Jobs, InputsArrive(j) PROVE TransferInv'
  BY <1>1 DEF InputsArrive
<1>2. ASSUME NEW j \in Jobs, DestinationsAccept(j) PROVE TransferInv'
  BY <1>2 DEF DestinationsAccept
<1>3. ASSUME NEW j \in Jobs, VerifyPayment(j) PROVE TransferInv'
  BY <1>3 DEF VerifyPayment, CreateEscrow, UpdateJobPaymentStatus
<1>4. ASSUME NEW j \in Jobs, SubmitJob(j) PROVE TransferInv'
  BY <1>4 DEF SubmitJob, CreateJobExecution, UpdateJobStatus
<1>5. ASSUME NEW j \in Jobs, LinkPayment(j) PROVE TransferInv'
  BY <1>5 DEF LinkPayment
<1>6. ASSUME NEW j \in Jobs, CancelJob(j) PROVE TransferInv'
  BY <1>6 DEF CancelJob, UpdateJobStatus
<1>7. ASSUME NEW j \in Jobs, CancelForget(j) PROVE TransferInv'
  BY <1>7 DEF CancelForget
<1>8. ASSUME NEW j \in Jobs, CheckIdleJob(j) PROVE TransferInv'
  BY <1>8 DEF CheckIdleJob, CheckReady, checkInputsReady
<1>9. ASSUME NEW j \in Jobs, NEW d \in Deliveries, HandleJobStart(j, d) PROVE TransferInv'
  BY <1>9 DEF HandleJobStart, CreateJobInterface, StepStart
<1>10. ASSUME NEW j \in Jobs, NEW d \in Deliveries, CreateJobInterfaces(j, d) PROVE TransferInv'
  BY <1>10 DEF CreateJobInterfaces, StepStart, UpdateJobStatus, checkInputsReady
<1>11. ASSUME NEW j \in Jobs, NEW d \in Deliveries, MarkJobStartReceived(j, d) PROVE TransferInv'
  BY <1>11 DEF MarkJobStartReceived, StepStart
<1>12. ASSUME NEW j \in Jobs, NEW d \in Deliveries, DecideStartStatus(j, d) PROVE TransferInv'
  BY <1>12 DEF DecideStartStatus, StepStart, checkInputsReady
<1>13. ASSUME NEW j \in Jobs, NEW d \in Deliveries, WriteStartStatus(j, d) PROVE TransferInv'
  BY <1>13 DEF WriteStartStatus, UpdateJobStatus
<1>14. ASSUME StartCheck PROVE TransferInv'
  BY <1>14 DEF StartCheck, GetJobsByStatus
<1>15. ASSUME WriteReady PROVE TransferInv'
  BY <1>15 DEF WriteReady, UpdateJobStatus
<1>16. ASSUME GetReadyJobs PROVE TransferInv'
  BY <1>16 DEF GetReadyJobs
<1>17. ASSUME NEW j \in Jobs, SelectJob(j) PROVE TransferInv'
  BY <1>17 DEF SelectJob, Dispatchable
<1>18. ASSUME SubmitTask PROVE TransferInv'
  BY <1>18 DEF SubmitTask
<1>19. ASSUME MarkRunning PROVE TransferInv'
  BY <1>19 DEF MarkRunning
<1>20. ASSUME NEW w \in Workers, TakeTask(w) PROVE TransferInv'
  BY <1>20 DEF TakeTask, StepWork
<1>21. ASSUME NEW w \in Workers, BeginRun(w) PROVE TransferInv'
  BY <1>21 DEF BeginRun, WriteOutcome, StepWork, UpdateJobStatus
<1>22. ASSUME NEW w \in Workers, BeginFails(w) PROVE TransferInv'
  BY <1>22 DEF BeginFails, StepWork
<1>23. ASSUME NEW w \in Workers, ReadRow(w) PROVE TransferInv'
  BY <1>23 DEF ReadRow, StepWork, sendStatusUpdate, Reported
<1>24. ASSUME NEW w \in Workers, WriteRow(w) PROVE TransferInv'
  BY <1>24 DEF WriteRow, StepWork, sendStatusUpdate, Reported
<1>25. ASSUME NEW w \in Workers, ServiceSucceeds(w) PROVE TransferInv'
  BY <1>25 DEF ServiceSucceeds, executeDataService, executeStandaloneService,
       executeDockerService, WriteOutcome, StepWork, UpdateJobStatus
<1>26. ASSUME NEW w \in Workers, ServiceFails(w) PROVE TransferInv'
  BY <1>26 DEF ServiceFails, WriteOutcome, StepWork, UpdateJobStatus
<1>27. ASSUME NEW w \in Workers, Panic(w) PROVE TransferInv'
  BY <1>27 DEF Panic
<1>28. ASSUME NEW w \in Workers, TransferDocker(w) PROVE TransferInv'
  BY <1>28 DEF TransferDocker, WriteOutcome, StepWork, UpdateJobStatus
<1>29. ASSUME NEW w \in Workers, TransferStandalone(w) PROVE TransferInv'
  BY <1>29 DEF TransferStandalone, StepWork
<1>30. ASSUME NEW w \in Workers, DeferForget(w) PROVE TransferInv'
  BY <1>30 DEF DeferForget, StepWork
<1>31. ASSUME NEW w \in Workers, SettleOrRefund(w) PROVE TransferInv'
  BY <1>31 DEF SettleOrRefund, StepWork, EndRun, SettleEscrow, RefundEscrow, Enter
<1>32. ASSUME NEW w \in Workers, PayStep(w) PROVE TransferInv'
  BY <1>32 DEF PayStep, EscrowStep, SettleRead, SettleCall, SettleWrite,
       UpdateJobPaymentStatus, RefundRead,
       RefundCall, RefundWrite, FacilitatorCall, Move, Leave
<1>33. ASSUME NEW w \in Workers, PayDone(w) PROVE TransferInv'
  BY <1>33 DEF PayDone, EndRun
<1>34. ASSUME NEW w \in Workers, Recover(w) PROVE TransferInv'
  BY <1>34 DEF Recover, UpdateJobStatus, sendStatusUpdate, RefundEscrow, Enter
<1>35. ASSUME ProcessStatusUpdate PROVE TransferInv'
  BY <1>35 DEF ProcessStatusUpdate
<1>36. ASSUME Restart PROVE TransferInv'
  BY <1>36 DEF Restart, EscrowCrash
<1>37. CASE UNCHANGED vars
  BY <1>37 DEF vars
<1> QED
  BY <1>1, <1>2, <1>3, <1>4, <1>5, <1>6, <1>7, <1>8, <1>9, <1>10, <1>11, <1>12, <1>13,
       <1>14, <1>15, <1>16, <1>17, <1>18, <1>19, <1>20, <1>21, <1>22, <1>23, <1>24,
       <1>25, <1>26, <1>27, <1>28, <1>29, <1>30, <1>31, <1>32, <1>33, <1>34, <1>35,
       <1>36, <1>37 DEF Next, StartStep, QueueStep, WorkStep

(* The theorem on delivery: a Docker job is completed, and its provider paid,*)
(* only after its outputs have been through their transfer, however often it *)
(* ran and whoever overwrote its status.                                     *)
THEOREM TransferBeforePay == Spec => []DockerPaidAfterTransfer
<1>1. Init => TransferInv
  BY DEF Init, TransferInv
<1>2. TypeInv /\ TransferInv /\ [Next]_vars => TransferInv'
  BY TransferNext
<1>3. TransferInv /\ PayInv => DockerPaidAfterTransfer
  BY DEF TransferInv, PayInv, PaymentsFollowOutcomes, DockerPaidAfterTransfer
<1> QED
  BY <1>1, <1>2, <1>3, TypeInvariant, PaymentInvariant, PTL DEF Spec
=============================================================================
