---------------------------- MODULE DataTransfer ----------------------------
(***************************************************************************)
(* One file goes from the node that executed a job (the sender) to the     *)
(* node whose job waits for it (the receiver): internal/workers/           *)
(* data_worker.go with the data_transfers table of each node, the data     *)
(* messages of internal/p2p/job_handler.go and the resume check of         *)
(* internal/core/peer.go.                                                  *)
(*                                                                         *)
(* The sender offers the transfer, sends the chunks in order, checkpoints  *)
(* its row and closes it when everything is sent; a second goroutine may   *)
(* resume a row that is still active.  Every chunk is handled by the       *)
(* receiver in a goroutine of its own.  Chunks and requests that are sent  *)
(* again over a relay are duplicated; both nodes may crash; a chunk may be *)
(* lost; a stall may outlast the receiver's patience: each of these counts *)
(* as one fault.  Failing disks are left out: a correct archive extracts.  *)
(***************************************************************************)
EXTENDS Naturals, FiniteSets

CONSTANTS ChunkCount,      \* TotalChunks of the file
          Handlers,        \* goroutines that handle chunks
          AckEvery,        \* the receiver acknowledges every so many chunks
          CheckpointEvery, \* the sender writes its row every so many chunks
          MaxFaults,       \* bound on faults
          NoFile           \* the path does not exist

Chunks  == 0 .. ChunkCount - 1
Objects == 1 .. Cardinality(Handlers) + 1   \* IncomingTransfer values in memory
Paths   == {"job", "tmp"}                   \* the .dat in the job's input, the one in /tmp
Forms   == {"cipher", "plain"}              \* a chunk of the encrypted or of the original file
Contents == [Chunks -> Forms \cup {"hole"}]
RowStatus == {"none", "active", "completed", "failed"}
Object  == [path : Paths, got : SUBSET Chunks, open : BOOLEAN]

ASSUME TransferConstantsAssumption ==
  /\ ChunkCount \in Nat \ {0}
  /\ AckEvery \in Nat \ {0}
  /\ CheckpointEvery \in Nat \ {0}
  /\ MaxFaults \in Nat
  /\ IsFiniteSet(Handlers)
  /\ NoFile \notin Contents

VARIABLES
  encrypted, \* the sender knows the receiver's key
  sendPc,    \* transferDataToPeer
  sendNext,  \* its chunkIndex
  sendRow,   \* the sender's data_transfers row: status, chunks_acked
  resumeDue, \* checkAndResumeActiveTransfers has been scheduled
  resumePc,  \* ResumeTransfer
  resumeTodo,\* its missingChunks
  resumeRow, \* chunks_acked of the copy of the row it works from
  ackHeld,   \* the list, if any, handleJobDataChunkAck is about to write
  requests,  \* transfer requests on their way
  chunkNet,  \* chunks on their way
  ackNet,    \* acknowledgements on their way
  entry,     \* incomingTransfers of the transfer's id: an object, 0 if absent
  object,    \* the objects
  file,      \* the two .dat files
  placed,    \* what was extracted beside each of them
  recvRow,   \* the receiver's data_transfers row: status
  handPc,    \* HandleDataChunk in each handler
  handMsg,   \* the chunk each handler holds
  handObj,   \* the object each handler holds, 0 if none
  handList,  \* the receivedList each handler has computed
  jobRow,    \* job_executions.status of the job that waits for the file
  faults

sender   == <<sendPc, sendNext, sendRow>>
resumer  == <<resumeDue, resumePc, resumeTodo, resumeRow>>
network  == <<requests, chunkNet, ackNet>>
disk     == <<file, placed>>
handlers == <<handPc, handMsg, handObj, handList>>
vars == <<encrypted, sender, resumer, ackHeld, network, entry, object, disk, recvRow,
          handlers, jobRow, faults>>

Message == [index : Chunks, form : Forms]

\* What the request announced: the hash is that of the encrypted file when there is one.
wireForm == IF encrypted THEN "cipher" ELSE "plain"
Empty == [i \in Chunks |-> "hole"]
Uniform(form) == [i \in Chunks |-> form]

TypeOK ==
  /\ encrypted \in BOOLEAN
  /\ sendPc \in {"idle", "copy", "request", "record", "send", "notify", "over"}
  /\ sendNext \in 0 .. ChunkCount
  /\ sendRow \in [status : RowStatus, acked : SUBSET Chunks]
  /\ resumeDue \in BOOLEAN
  /\ resumePc \in {"idle", "mark", "send"}
  /\ resumeTodo \subseteq Chunks
  /\ resumeRow \subseteq Chunks
  /\ ackHeld \subseteq SUBSET Chunks
  /\ requests \in 0 .. MaxFaults + 1
  /\ chunkNet \subseteq Message
  /\ ackNet \subseteq SUBSET Chunks
  /\ entry \in Objects \cup {0}
  /\ object \in [Objects -> Object]
  /\ file \in [Paths -> Contents \cup {NoFile}]
  /\ placed \in [Paths -> {"none", "whole", "garbled"}]
  /\ recvRow \in RowStatus
  /\ handPc \in [Handlers -> {"idle", "look", "init", "get", "write", "ack", "finalize"}]
  /\ handMsg \in [Handlers -> Message]
  /\ handObj \in [Handlers -> Objects \cup {0}]
  /\ handList \in [Handlers -> SUBSET Chunks]
  /\ jobRow \in {"IDLE", "RUNNING", "COMPLETED"}
  /\ faults \in 0 .. MaxFaults

NoObject == [path |-> "tmp", got |-> {}, open |-> FALSE]
NoChunk  == [index |-> 0, form |-> "plain"]

Init ==
  /\ encrypted \in BOOLEAN
  /\ sendPc = "idle" /\ sendNext = 0 /\ sendRow = [status |-> "none", acked |-> {}]
  /\ resumeDue = FALSE /\ resumePc = "idle" /\ resumeTodo = {} /\ resumeRow = {}
  /\ ackHeld = {}
  /\ requests = 0 /\ chunkNet = {} /\ ackNet = {}
  /\ entry = 0 /\ object = [o \in Objects |-> NoObject]
  /\ file = [p \in Paths |-> NoFile] /\ placed = [p \in Paths |-> "none"]
  /\ recvRow = "none"
  /\ handPc = [h \in Handlers |-> "idle"]
  /\ handMsg = [h \in Handlers |-> NoChunk]
  /\ handObj = [h \in Handlers |-> 0]
  /\ handList = [h \in Handlers |-> {}]
  /\ jobRow = "IDLE"
  /\ faults = 0

Fault == faults < MaxFaults /\ faults' = faults + 1

-----------------------------------------------------------------------------
(* The tables.  None of the updates looks at the status it replaces.        *)

CreateDataTransfer == [status |-> "active", acked |-> {}]

\* The row, if there is one.
GetTransferByID == IF sendRow.status = "none" THEN {} ELSE {sendRow}

UpdateTransferProgress(acked) ==
  sendRow' = IF sendRow.status = "none" THEN sendRow ELSE [sendRow EXCEPT !.acked = acked]

SetStatus(status) ==
  sendRow' = IF sendRow.status = "none" THEN sendRow ELSE [sendRow EXCEPT !.status = status]

CompleteTransfer == SetStatus("completed")
FailTransfer     == SetStatus("failed")
ResumeMark       == SetStatus("active")

\* CompleteTransfer and FailTransfer on the receiver's table.
SetRecvStatus(status) ==
  recvRow' = IF recvRow = "none" THEN "none" ELSE status

-----------------------------------------------------------------------------
(* The sender: transferDataToPeer.                                          *)

\* handleLocalDataTransfer: the job that waits is on the same node.  The archive is
\* copied into its input directory, checked and extracted there; nothing is recorded.
OpenLocalCopy ==
  /\ sendPc = "idle" /\ ~encrypted
  /\ sendPc' = "copy"
  /\ file' = [file EXCEPT !["job"] = Empty]
  /\ UNCHANGED <<encrypted, sendNext, sendRow, resumer, ackHeld, network, entry, object,
                 placed, recvRow, handlers, jobRow, faults>>

copyFile ==
  /\ sendPc = "copy" /\ sendNext < ChunkCount
  /\ file' = [file EXCEPT !["job"][sendNext] = "plain"]
  /\ sendNext' = sendNext + 1
  /\ UNCHANGED <<encrypted, sendPc, sendRow, resumer, ackHeld, network, entry, object,
                 placed, recvRow, handlers, jobRow, faults>>

handleLocalDataTransfer ==
  /\ sendPc = "copy" /\ sendNext = ChunkCount
  /\ sendPc' = "over"
  /\ placed' = [placed EXCEPT !["job"] = "whole"]
  /\ file' = [file EXCEPT !["job"] = NoFile]
  /\ UNCHANGED <<encrypted, sendNext, sendRow, resumer, ackHeld, network, entry, object,
                 recvRow, handlers, jobRow, faults>>

\* The file is encrypted into a temporary file and the transfer offered.
SendJobDataTransferRequest ==
  /\ sendPc = "idle"
  /\ sendPc' = "request"
  /\ requests' = 1
  /\ UNCHANGED <<encrypted, sendNext, sendRow, resumer, ackHeld, chunkNet, ackNet, entry,
                 object, disk, recvRow, handlers, jobRow, faults>>

\* The answer to the direct request is late: the request goes out again over the relay.
RepeatRequest ==
  /\ sendPc = "request"
  /\ Fault
  /\ requests' = requests + 1
  /\ UNCHANGED <<encrypted, sender, resumer, ackHeld, chunkNet, ackNet, entry, object,
                 disk, recvRow, handlers, jobRow>>

\* No copy of the request is answered: the transfer ends without a row.
RequestUnanswered ==
  /\ sendPc = "request"
  /\ Fault
  /\ sendPc' = "over"
  /\ UNCHANGED <<encrypted, sendNext, sendRow, resumer, ackHeld, network, entry, object,
                 disk, recvRow, handlers, jobRow>>

\* The row names the original file, also when the encrypted copy is what is sent.
CreateSenderRow ==
  /\ sendPc = "record"
  /\ sendPc' = "send"
  /\ sendRow' = CreateDataTransfer
  /\ UNCHANGED <<encrypted, sendNext, resumer, ackHeld, network, entry, object, disk,
                 recvRow, handlers, jobRow, faults>>

\* Every CheckpointEvery chunks and after the last one the row is written, with the
\* acknowledged chunks of a map that is never filled.
Checkpoint(sent) ==
  IF sent % CheckpointEvery = 0 \/ sent = ChunkCount
  THEN UpdateTransferProgress({})
  ELSE sendRow' = sendRow

\* Mutant: the loop does not stop at the last chunk.
SendPastTheEnd ==
  /\ sendPc \in {"send", "notify"}
  /\ chunkNet' = chunkNet \cup {[index |-> sendNext, form |-> wireForm]}
  /\ sendNext' = sendNext + 1
  /\ sendPc' = "notify"
  /\ Checkpoint(sendNext + 1)
  /\ UNCHANGED <<encrypted, resumer, ackHeld, requests, ackNet, entry, object, disk,
                 recvRow, handlers, jobRow, faults>>

SendJobDataChunk ==
  /\ sendPc = "send" /\ sendNext < ChunkCount
  /\ chunkNet' = chunkNet \cup {[index |-> sendNext, form |-> wireForm]}
  /\ sendNext' = sendNext + 1
  /\ sendPc' = IF sendNext + 1 = ChunkCount THEN "notify" ELSE "send"
  /\ Checkpoint(sendNext + 1)
  /\ UNCHANGED <<encrypted, resumer, ackHeld, requests, ackNet, entry, object, disk,
                 recvRow, handlers, jobRow, faults>>

\* Three attempts fail; one of them may have got through.
SendChunkFails ==
  /\ sendPc = "send" /\ sendNext < ChunkCount
  /\ Fault
  /\ \E through \in BOOLEAN :
        chunkNet' = IF through
                    THEN chunkNet \cup {[index |-> sendNext, form |-> wireForm]}
                    ELSE chunkNet
  /\ sendPc' = "over"
  /\ FailTransfer
  /\ UNCHANGED <<encrypted, sendNext, resumer, ackHeld, requests, ackNet, entry, object,
                 disk, recvRow, handlers, jobRow>>

\* Everything is sent: the receiver is told, which only logs it, and the row is closed.
SendJobDataTransferComplete ==
  /\ sendPc = "notify"
  /\ sendPc' = "over"
  /\ CompleteTransfer
  /\ UNCHANGED <<encrypted, sendNext, resumer, ackHeld, network, entry, object, disk,
                 recvRow, handlers, jobRow, faults>>

-----------------------------------------------------------------------------
(* The sender: checkAndResumeActiveTransfers and ResumeTransfer.            *)

\* Start-up and a new relay connection schedule the check.  It takes the active sender
\* rows that have been idle for 30 seconds; transferDataToPeer may be at work on one of
\* them, because it writes its row only at its checkpoints.
RelayReconnected ==
  /\ sendRow.status # "none" /\ ~resumeDue
  /\ Fault
  /\ resumeDue' = TRUE
  /\ UNCHANGED <<encrypted, sender, resumePc, resumeTodo, resumeRow, ackHeld, network,
                 entry, object, disk, recvRow, handlers, jobRow>>

checkAndResumeActiveTransfers ==
  /\ resumeDue /\ resumePc = "idle"
  /\ resumeDue' = FALSE
  /\ \/ /\ sendRow.status = "active"
        /\ resumeTodo' = Chunks \ sendRow.acked
        /\ resumeRow' = sendRow.acked
        /\ resumePc' = "mark"
     \/ UNCHANGED <<resumePc, resumeTodo, resumeRow>>
  /\ UNCHANGED <<encrypted, sender, ackHeld, network, entry, object, disk, recvRow,
                 handlers, jobRow, faults>>

\* The receiver's metadata cannot be had for five minutes, or the file is gone.
ResumeGivesUp ==
  /\ resumePc = "mark"
  /\ Fault
  /\ resumePc' = "idle" /\ resumeTodo' = {} /\ resumeRow' = {}
  /\ FailTransfer
  /\ UNCHANGED <<encrypted, sendPc, sendNext, resumeDue, ackHeld, network, entry, object,
                 disk, recvRow, handlers, jobRow>>

ResumeTransfer ==
  /\ resumePc = "mark"
  /\ IF resumeTodo = {}
     THEN resumePc' = "idle" /\ resumeRow' = {} /\ CompleteTransfer
     ELSE resumePc' = "send" /\ resumeRow' = resumeRow /\ ResumeMark
  /\ UNCHANGED <<encrypted, sendPc, sendNext, resumeDue, resumeTodo, ackHeld, network, entry,
                 object, disk, recvRow, handlers, jobRow, faults>>

\* The missing chunks are read from file_path, the original file.  The last one is
\* followed by a write of the acknowledgements read at the start; the row stays active.
ResendChunk ==
  /\ resumePc = "send"
  /\ \E i \in resumeTodo :
       /\ \A k \in resumeTodo : i <= k
       /\ chunkNet' = chunkNet \cup {[index |-> i, form |-> "plain"]}
       /\ resumeTodo' = resumeTodo \ {i}
  /\ IF resumeTodo' = {}
     THEN resumePc' = "idle" /\ resumeRow' = {} /\ UpdateTransferProgress(resumeRow)
     ELSE UNCHANGED <<resumePc, resumeRow, sendRow>>
  /\ UNCHANGED <<encrypted, sendPc, sendNext, resumeDue, ackHeld, requests, ackNet, entry,
                 object, disk, recvRow, handlers, jobRow, faults>>

\* handleJobDataChunkAck reads the row, merges, and writes the list.
ReadAck ==
  /\ ackHeld = {}
  /\ \E ack \in ackNet :
       /\ ackNet' = ackNet \ {ack}
       /\ ackHeld' = {row.acked \cup ack : row \in GetTransferByID}
  /\ UNCHANGED <<encrypted, sender, resumer, requests, chunkNet, entry, object, disk,
                 recvRow, handlers, jobRow, faults>>

WriteAck ==
  /\ \E acked \in ackHeld : UpdateTransferProgress(acked)
  /\ ackHeld' = {}
  /\ UNCHANGED <<encrypted, sendPc, sendNext, resumer, network, entry, object, disk,
                 recvRow, handlers, jobRow, faults>>

SenderCrash ==
  /\ sendPc # "idle" /\ Fault
  /\ sendPc' = "over"
  /\ resumeDue' = TRUE /\ resumePc' = "idle" /\ resumeTodo' = {} /\ resumeRow' = {}
  /\ ackHeld' = {} /\ requests' = 0 /\ ackNet' = {}
  /\ UNCHANGED <<encrypted, sendNext, sendRow, chunkNet, entry, object, disk, recvRow,
                 handlers, jobRow>>

-----------------------------------------------------------------------------
(* The receiver: the incoming transfer.                                     *)

Free(o) == o # entry /\ \A h \in Handlers : handObj[h] # o
NewObject == CHOOSE o \in Objects : Free(o)

\* Mutant: the file is opened again before the map is consulted.
InitializeAgain(path) ==
  /\ file' = [file EXCEPT ![path] = Empty]
  /\ IF entry # 0
     THEN UNCHANGED <<entry, object>>
     ELSE /\ entry' = NewObject
          /\ object' = [object EXCEPT ![NewObject] =
                            [path |-> path, got |-> {}, open |-> TRUE]]

\* InitializeIncomingTransferFull under transfersMu: an entry that is there stays; a new
\* one opens its file with O_TRUNC.
InitializeIncomingTransfer(path) ==
  IF entry # 0
  THEN UNCHANGED <<entry, object, file>>
  ELSE /\ entry' = NewObject
       /\ object' = [object EXCEPT ![NewObject] = [path |-> path, got |-> {}, open |-> TRUE]]
       /\ file' = [file EXCEPT ![path] = Empty]

Answer(accepted) ==
  sendPc' = IF sendPc # "request" THEN sendPc ELSE IF accepted THEN "record" ELSE "over"

HandleJobDataTransferRequest ==
  /\ requests > 0
  /\ requests' = requests - 1
  /\ InitializeIncomingTransfer("job")
  /\ Answer(TRUE)
  /\ UNCHANGED <<encrypted, sendNext, sendRow, resumer, ackHeld, chunkNet, ackNet, placed,
                 recvRow, handlers, jobRow, faults>>

\* The job is not known, or the key cannot be derived: then the file was created already
\* and stays behind.
RefuseRequest ==
  /\ requests > 0
  /\ Fault
  /\ requests' = requests - 1
  /\ \E created \in BOOLEAN :
        file' = IF created /\ entry = 0 THEN [file EXCEPT !["job"] = Empty] ELSE file
  /\ Answer(FALSE)
  /\ UNCHANGED <<encrypted, sendNext, sendRow, resumer, ackHeld, chunkNet, ackNet, entry,
                 object, placed, recvRow, handlers, jobRow>>

-----------------------------------------------------------------------------
(* The receiver: HandleDataChunk, one goroutine per chunk.                  *)

Goto(h, pc) == handPc' = [handPc EXCEPT ![h] = pc]
Return(h) ==
  /\ Goto(h, "idle")
  /\ handMsg' = [handMsg EXCEPT ![h] = NoChunk]
  /\ handObj' = [handObj EXCEPT ![h] = 0]
  /\ handList' = [handList EXCEPT ![h] = {}]

\* A chunk arrives; a copy of it may still be on its way over the relay.
handleJobDataChunk(h) ==
  /\ handPc[h] = "idle"
  /\ \E m \in chunkNet :
       /\ handMsg' = [handMsg EXCEPT ![h] = m]
       /\ \/ chunkNet' = chunkNet \ {m} /\ faults' = faults
          \/ chunkNet' = chunkNet /\ Fault
  /\ Goto(h, "look")
  /\ UNCHANGED <<encrypted, sender, resumer, ackHeld, requests, ackNet, entry, object, disk,
                 recvRow, handObj, handList, jobRow>>

LoseChunk ==
  /\ Fault
  /\ \E m \in chunkNet : chunkNet' = chunkNet \ {m}
  /\ UNCHANGED <<encrypted, sender, resumer, ackHeld, requests, ackNet, entry, object, disk,
                 recvRow, handlers, jobRow>>

LookUp(h) ==
  /\ handPc[h] = "look"
  /\ handObj' = [handObj EXCEPT ![h] = entry]
  /\ Goto(h, IF entry # 0 THEN "write" ELSE "init")
  /\ UNCHANGED <<encrypted, sender, resumer, ackHeld, network, entry, object, disk, recvRow,
                 handMsg, handList, jobRow, faults>>

\* The id is not in the map: a transfer without job, hash or key is opened under /tmp.
AutoInitialize(h) ==
  /\ handPc[h] = "init"
  /\ InitializeIncomingTransfer("tmp")
  /\ Goto(h, "get")
  /\ UNCHANGED <<encrypted, sender, resumer, ackHeld, network, placed, recvRow, handMsg,
                 handObj, handList, jobRow, faults>>

\* The map is read again.  When another handler has finalised the transfer meanwhile the
\* result is nil, and using it ends the process: see ReceiverCrash.
LookUpAgain(h) ==
  /\ handPc[h] = "get" /\ entry # 0
  /\ handObj' = [handObj EXCEPT ![h] = entry]
  /\ Goto(h, "write")
  /\ UNCHANGED <<encrypted, sender, resumer, ackHeld, network, entry, object, disk, recvRow,
                 handMsg, handList, jobRow, faults>>

\* Under the transfer's mutex: a chunk that is there is ignored, a closed file is an error,
\* everything else is written, recorded and counted.
Ignored(o, i) == i \in object[o].got \/ ~object[o].open

IgnoreChunk(h) ==
  /\ handPc[h] = "write"
  /\ Ignored(handObj[h], handMsg[h].index)
  /\ Return(h)
  /\ UNCHANGED <<encrypted, sender, resumer, ackHeld, network, entry, object, disk, recvRow,
                 jobRow, faults>>

\* An open object whose file was removed writes into the void.
WriteAt(path, i, form) ==
  file' = IF file[path] = NoFile THEN file ELSE [file EXCEPT ![path][i] = form]

\* The row is created by the first chunk and keeps its status.
RecordChunk == IF recvRow = "none" THEN "active" ELSE recvRow

AfterWrite(got) ==
  IF got = Chunks \/ Cardinality(got) % AckEvery = 0 THEN "ack" ELSE "idle"

StoreChunk(h) ==
  LET o == handObj[h]
      i == handMsg[h].index
      got == object[o].got \cup {i}
  IN /\ handPc[h] = "write"
     /\ ~Ignored(o, i)
     /\ WriteAt(object[o].path, i, handMsg[h].form)
     /\ object' = [object EXCEPT ![o].got = got]
     /\ recvRow' = RecordChunk
     /\ IF AfterWrite(got) = "ack"
        THEN /\ Goto(h, "ack") /\ handList' = [handList EXCEPT ![h] = got]
             /\ UNCHANGED <<handMsg, handObj>>
        ELSE Return(h)
     /\ UNCHANGED <<encrypted, sender, resumer, ackHeld, network, entry, placed, jobRow,
                    faults>>

\* The mutex is released for the acknowledgement, which may get lost; whether to finalise
\* was decided before.
Complete(h) == handList[h] = Chunks

SendJobDataChunkAck(h) ==
  /\ handPc[h] = "ack"
  /\ \/ ackNet' = ackNet \cup {handList[h]} /\ faults' = faults
     \/ ackNet' = ackNet /\ Fault
  /\ IF Complete(h)
     THEN Goto(h, "finalize") /\ UNCHANGED <<handMsg, handObj, handList>>
     ELSE Return(h)
  /\ UNCHANGED <<encrypted, sender, resumer, ackHeld, requests, chunkNet, entry, object,
                 disk, recvRow, jobRow>>

-----------------------------------------------------------------------------
(* The receiver: finalizeTransfer, under transfersMu and the object's mutex. *)

Drop(o) ==
  /\ entry' = 0
  /\ object' = [object EXCEPT ![o] = IF \E h \in Handlers : handObj[h] = o
                                   THEN [@ EXCEPT !.open = FALSE] ELSE NoObject]

\* Only a transfer that was requested has a hash to compare with.
HashValid(o) ==
  object[o].path = "job" => file["job"] = Uniform(wireForm)

\* What is turned into the original bytes: a requested transfer is decrypted with the key of
\* its request, a nameless one is taken as it is.
decryptFile(path) == IF path = "job" THEN wireForm ELSE "plain"

\* The archive must be that of the original file.
Extracts(o) == LET path == object[o].path IN file[path] = Uniform(decryptFile(path))

\* Mutant: the archive is extracted before its hash is compared.
finalizeUnchecked(h) ==
  /\ handPc[h] = "finalize" /\ entry # 0
  /\ Return(h)
  /\ Drop(entry)
  /\ file' = [file EXCEPT ![object[entry].path] = NoFile]
  /\ placed' = [placed EXCEPT ![object[entry].path] =
                    IF Extracts(entry) THEN "whole" ELSE "garbled"]
  /\ UNCHANGED <<encrypted, sender, resumer, ackHeld, network, recvRow, jobRow, faults>>

finalizeTransfer(h) ==
  /\ handPc[h] = "finalize"
  /\ Return(h)
  /\ IF entry = 0
     THEN UNCHANGED <<entry, object, disk, recvRow, jobRow>>
     ELSE LET path == object[entry].path IN
          /\ Drop(entry)
          /\ file' = [file EXCEPT ![path] = NoFile]
          /\ IF ~HashValid(entry) THEN UNCHANGED <<placed, recvRow, jobRow>>
             ELSE IF ~Extracts(entry)
             THEN \* the whole directory of the archive is removed
                  placed' = [placed EXCEPT ![path] = "none"] /\ UNCHANGED <<recvRow, jobRow>>
             ELSE /\ placed' = [placed EXCEPT ![path] = "whole"]
                  /\ SetRecvStatus("completed")
                  /\ jobRow' = IF path = "job" /\ jobRow = "RUNNING" THEN "COMPLETED" ELSE jobRow
  /\ UNCHANGED <<encrypted, sender, resumer, ackHeld, network, faults>>

-----------------------------------------------------------------------------
(* The receiver: MonitorTransfers, the waiting job, crashes.                *)

\* No chunk that the entry lacks is under way: LastChunkAt stays as it is, because copies
\* of chunks it has do not count.
Stalled ==
  LET has(i) == i \in object[entry].got
  IN /\ \A m \in chunkNet : has(m.index)
     /\ \A h \in Handlers : handPc[h] = "idle" \/ has(handMsg[h].index)
     /\ sendPc = "over"
     /\ \A i \in resumeTodo : has(i)

\* An acknowledgement takes at most half a minute.
Finishing == \E h \in Handlers : handPc[h] \in {"ack", "finalize"} /\ handObj[h] = entry

\* Mutant: only what has begun to arrive is dropped.
cleanupStarted ==
  /\ entry # 0 /\ ~Finishing /\ object[entry].got # {}
  /\ IF Stalled THEN faults' = faults ELSE Fault
  /\ Drop(entry)
  /\ file' = [file EXCEPT ![object[entry].path] = NoFile]
  /\ SetRecvStatus("failed")
  /\ UNCHANGED <<encrypted, sender, resumer, ackHeld, network, placed, handlers, jobRow>>

\* Five minutes without a new chunk; while one is under way that takes a fault.
cleanupAbandonedTransfers ==
  /\ entry # 0 /\ ~Finishing
  /\ IF Stalled THEN faults' = faults ELSE Fault
  /\ Drop(entry)
  /\ file' = [file EXCEPT ![object[entry].path] = NoFile]
  /\ SetRecvStatus("failed")
  /\ UNCHANGED <<encrypted, sender, resumer, ackHeld, network, placed, handlers, jobRow>>

\* The process stops, of itself or in a handler that was given nil (LookUpAgain).
ReceiverCrash ==
  /\ Fault
  /\ \/ entry # 0
     \/ \E h \in Handlers : handPc[h] # "idle"
  /\ entry' = 0 /\ object' = [o \in Objects |-> NoObject]
  /\ handPc' = [h \in Handlers |-> "idle"]
  /\ handMsg' = [h \in Handlers |-> NoChunk]
  /\ handObj' = [h \in Handlers |-> 0]
  /\ handList' = [h \in Handlers |-> {}]
  /\ UNCHANGED <<encrypted, sender, resumer, ackHeld, network, disk, recvRow, jobRow>>

\* What the readiness check sees: pending transfers are sought with a direction that no
\* row has, and any file in the input directory counts, the .dat included.
HasPendingTransfersForJob == FALSE
PathExistsWithContent == file["job"] # NoFile \/ placed["job"] # "none"
checkInputsReady == ~HasPendingTransfersForJob /\ PathExistsWithContent

\* The job is READY and soon RUNNING; its own end is JobExecution's.
CheckIdleJob ==
  /\ jobRow = "IDLE" /\ checkInputsReady
  /\ jobRow' = "RUNNING"
  /\ UNCHANGED <<encrypted, sender, resumer, ackHeld, network, entry, object, disk, recvRow,
                 handlers, faults>>

-----------------------------------------------------------------------------
Handle(h) ==
  \/ handleJobDataChunk(h) \/ LookUp(h) \/ AutoInitialize(h) \/ LookUpAgain(h)
  \/ IgnoreChunk(h) \/ StoreChunk(h) \/ SendJobDataChunkAck(h) \/ finalizeTransfer(h)

\* The transfer to the one destination.
ExecuteDataService ==
  \/ OpenLocalCopy \/ copyFile \/ handleLocalDataTransfer
  \/ SendJobDataTransferRequest \/ CreateSenderRow \/ SendJobDataChunk
  \/ SendJobDataTransferComplete

Resume == ResumeTransfer \/ ResendChunk

Faulty ==
  \/ RepeatRequest \/ RequestUnanswered \/ SendChunkFails \/ RelayReconnected
  \/ ResumeGivesUp \/ SenderCrash
  \/ RefuseRequest \/ LoseChunk \/ ReceiverCrash

Next ==
  \/ ExecuteDataService \/ Resume \/ checkAndResumeActiveTransfers \/ ReadAck \/ WriteAck
  \/ HandleJobDataTransferRequest
  \/ \E h \in Handlers : Handle(h)
  \/ cleanupAbandonedTransfers
  \/ CheckIdleJob
  \/ Faulty

Fairness ==
  /\ WF_vars(ExecuteDataService) /\ WF_vars(Resume) /\ WF_vars(HandleJobDataTransferRequest)
  /\ \A h \in Handlers : WF_vars(Handle(h))
  /\ WF_vars(cleanupAbandonedTransfers)

Spec == Init /\ [][Next]_vars /\ Fairness
-----------------------------------------------------------------------------
(* Properties.                                                              *)

\* An incoming transfer in memory has its file open, the file exists, and every chunk it
\* counts as received is in the file: no second initialisation, late chunk, cleanup or
\* finalisation takes the file from under the live entry of the map.
EntryOwnsItsFile ==
  entry # 0 =>
    LET o == object[entry] IN
    /\ o.open
    /\ file[o.path] # NoFile
    /\ \A i \in o.got : file[o.path][i] # "hole"

\* A handler that goes on to finalise the transfer finds the object it has completed in
\* the map: no object is finalised twice and none in another's place, although the lock
\* is released for the acknowledgement and finalizeTransfer looks the id up again.
FinaliserOwnsEntry ==
  \A h \in Handlers : handPc[h] = "finalize" => entry = handObj[h]

\* Both: a transfer in memory is owned, file and entry, by the handlers that write to it and
\* the one that finalises it (HandleDataChunk and finalizeTransfer of data_worker.go).
TransfersAreOwned == EntryOwnsItsFile /\ FinaliserOwnsEntry

\* The transfer implements FileDelivery: the job's input appears in one step, only from an
\* archive whose every chunk is as announced (the hash is checked before extraction), and
\* stays, whatever resumes, duplicates, crashes and nameless transfers do.
Abstract == INSTANCE FileDelivery WITH
  archive <- IF file["job"] = NoFile THEN "none" ELSE "open",
  written <- IF file["job"] = NoFile THEN {} ELSE {i \in Chunks : file["job"][i] = wireForm},
  output  <- placed["job"]

Delivery == Abstract!Spec

\* An entry of incomingTransfers does not stay for ever (its file handle and its partial
\* file would leak): it is finalised, dropped as abandoned, or lost in a crash.
EntriesLeave == entry # 0 ~> entry = 0

\* checkInputsReady: "prevents starting execution while data is still being
\* transferred/decrypted" (job_manager.go, checkInputsReady).
ReadyMeansDelivered == jobRow # "IDLE" => placed["job"] = "whole"
=============================================================================
