---------------------------- MODULE Files_proofs ----------------------------
(***************************************************************************)
(* Proofs about files on their way: the transfer from node to node         *)
(* (DataTransfer) and the upload from the browser (FileUpload).            *)
(***************************************************************************)
EXTENDS Files, FiniteSetTheorems, TLAPS

-----------------------------------------------------------------------------
(* The transfer.                                                            *)

\* A copy of the request counts as a fault, except the first.
RequestsCounted == requests <= faults + 1

\* While nothing is offered, or the copy is local, the transfer is nowhere.
Quiet ==
  sendPc \in {"idle", "copy"} =>
    /\ sendRow.status = "none" /\ ~resumeDue /\ resumePc = "idle"
    /\ requests = 0 /\ chunkNet = {} /\ entry = 0
    /\ \A h \in Handlers : handPc[h] = "idle"

\* The local copy so far.
Copying ==
  /\ sendPc = "idle" => sendNext = 0
  /\ sendPc = "copy" =>
       ~encrypted /\ file["job"] # NoFile /\ \A i \in Chunks : i < sendNext => file["job"][i] = "plain"

\* A handler that writes or answers has an object.
HandlersHold ==
  \A h \in Handlers : handPc[h] \in {"write", "ack", "finalize"} => handObj[h] \in Objects

\* No file is open but that of the entry, and that one holds the chunks that are counted.
OneOpen == \A o \in Objects : object[o].open => o = entry
EntryFile ==
  entry # 0 =>
    LET o == object[entry] IN
    o.open /\ file[o.path] # NoFile /\ \A i \in Chunks : i \in o.got <=> file[o.path][i] # "hole"

\* One handler finishes, and what it finishes is the entry, complete.
Finisher(h) == handPc[h] \in {"ack", "finalize"} /\ handList[h] = Chunks
OneFinisher ==
  /\ \A h \in Handlers : handPc[h] = "finalize" => Finisher(h)
  /\ \A h \in Handlers : Finisher(h) => handObj[h] = entry /\ object[entry].got = Chunks
  /\ \A g, h \in Handlers : Finisher(g) /\ Finisher(h) => g = h

\* The types, in two halves: what the sender and the network have, and what the receiver has.
SenderTypes ==
  /\ encrypted \in BOOLEAN
  /\ sendPc \in {"idle", "copy", "request", "record", "send", "notify", "over"}
  /\ sendNext \in 0 .. ChunkCount
  /\ sendRow \in [status : RowStatus, acked : SUBSET Chunks]
  /\ resumeDue \in BOOLEAN
  /\ resumePc \in {"idle", "mark", "send"}
  /\ resumeTodo \subseteq Chunks
  /\ resumeRow \subseteq Chunks
  /\ ackHeld \subseteq SUBSET Chunks
  /\ requests \in Nat
  /\ chunkNet \subseteq Message
  /\ ackNet \subseteq SUBSET Chunks
  /\ jobRow \in {"IDLE", "RUNNING", "COMPLETED"}
  /\ faults \in 0 .. MaxFaults

ReceiverTypes ==
  /\ entry \in Objects \cup {0}
  /\ object \in [Objects -> Object]
  /\ file \in [Paths -> Contents \cup {NoFile}]
  /\ placed \in [Paths -> {"none", "whole", "garbled"}]
  /\ recvRow \in RowStatus
  /\ handPc \in [Handlers -> {"idle", "look", "init", "get", "write", "ack", "finalize"}]
  /\ handMsg \in [Handlers -> Message]
  /\ handObj \in [Handlers -> Objects \cup {0}]
  /\ handList \in [Handlers -> SUBSET Chunks]

SenderInvariant == SenderTypes /\ RequestsCounted /\ Quiet /\ Copying
ReceiverInvariant == ReceiverTypes /\ HandlersHold /\ OneOpen /\ EntryFile /\ OneFinisher
TransferInvariant == SenderInvariant /\ ReceiverInvariant

receiver == <<entry, object, disk, recvRow, handlers>>

-----------------------------------------------------------------------------
(* What the operators return.                                               *)

\* The constants of the transfer.
LEMMA TransferConstants ==
  /\ ChunkCount \in Nat \ {0} /\ MaxFaults \in Nat /\ IsFiniteSet(Handlers) /\ NoFile \notin Contents
  /\ AckEvery \in Nat \ {0} /\ CheckpointEvery \in Nat \ {0}
  /\ 0 \in Chunks
  /\ \A i \in Chunks : i \in Nat /\ i < ChunkCount
  /\ \A n \in 0 .. ChunkCount : n \in Nat /\ n <= ChunkCount /\ (n < ChunkCount => n \in Chunks /\ n + 1 \in 0 .. ChunkCount)
  /\ 0 \notin Objects
<1>1. Cardinality(Handlers) \in Nat
  BY TransferConstantsAssumption, FS_CardinalityType
<1> QED BY <1>1, TransferConstantsAssumption DEF Chunks, Objects

\* The empty file and the whole one.
LEMMA FileContents ==
  /\ Empty \in Contents /\ \A i \in Chunks : Empty[i] = "hole"
  /\ \A f \in Forms : Uniform(f) \in Contents /\ \A i \in Chunks : Uniform(f)[i] = f
  /\ \A c \in Contents : \A i \in Chunks : c[i] \in Forms \cup {"hole"}
  /\ \A c \in Contents, i \in Chunks, f \in Forms :
       /\ [c EXCEPT ![i] = f] \in Contents /\ [c EXCEPT ![i] = f][i] = f
       /\ \A j \in Chunks : j # i => [c EXCEPT ![i] = f][j] = c[j]
  /\ "hole" \notin Forms /\ wireForm \in Forms
BY DEF Empty, Contents, Uniform, Forms, wireForm

\* The chunks that are sent.
LEMMA ChunkMessages ==
  /\ \A i \in Chunks, f \in Forms : [index |-> i, form |-> f] \in Message
  /\ NoChunk \in Message /\ "plain" \in Forms
  /\ \A m \in Message : m.index \in Chunks /\ m.form \in Forms
BY TransferConstants DEF Message, Forms, NoChunk

\* The updates of the sender's row keep a row that is not there out.
LEMMA RowUpdates ==
  ASSUME sendRow \in [status : RowStatus, acked : SUBSET Chunks]
  PROVE  /\ \A A \in SUBSET Chunks : UpdateTransferProgress(A) =>
              sendRow' \in [status : RowStatus, acked : SUBSET Chunks] /\ sendRow'.status = sendRow.status
         /\ CompleteTransfer \/ FailTransfer \/ ResumeMark =>
              sendRow' \in [status : RowStatus, acked : SUBSET Chunks]
              /\ (sendRow.status = "none" => sendRow'.status = "none")
<1>1. ASSUME NEW A \in SUBSET Chunks, UpdateTransferProgress(A)
      PROVE  sendRow' \in [status : RowStatus, acked : SUBSET Chunks] /\ sendRow'.status = sendRow.status
  BY <1>1 DEF UpdateTransferProgress
<1>2. ASSUME NEW st \in RowStatus \ {"none"}, SetStatus(st)
      PROVE  sendRow' \in [status : RowStatus, acked : SUBSET Chunks]
             /\ (sendRow.status = "none" => sendRow'.status = "none")
  BY <1>2 DEF SetStatus
<1>3. ASSUME CompleteTransfer \/ FailTransfer \/ ResumeMark
      PROVE  sendRow' \in [status : RowStatus, acked : SUBSET Chunks]
             /\ (sendRow.status = "none" => sendRow'.status = "none")
  <2>1. {"completed", "failed", "active"} \subseteq RowStatus \ {"none"}
    BY DEF RowStatus
  <2> QED BY <1>2, <1>3, <2>1 DEF CompleteTransfer, FailTransfer, ResumeMark
<1> QED BY <1>1, <1>3

\* The handlers hold fewer objects than there are.
LEMMA FreeObject ==
  ASSUME ReceiverTypes, entry = 0 PROVE NewObject \in Objects /\ Free(NewObject)
<1>1. Cardinality(Handlers) \in Nat /\ IsFiniteSet(Handlers)
  BY TransferConstants, FS_CardinalityType
<1>2. IsFiniteSet(Objects) /\ Cardinality(Objects) = Cardinality(Handlers) + 1
  <2> DEFINE n == Cardinality(Handlers) + 1
  <2>1. n \in Nat /\ n >= 1 /\ n \in Int /\ 1 \in Int
    BY <1>1
  <2> HIDE DEF n
  <2>2. IsFiniteSet(1 .. n) /\ Cardinality(1 .. n) = n
    BY <2>1, FS_Interval
  <2> QED BY <2>2 DEF Objects, n
<1>3. \E o \in Objects : \A h \in Handlers : handObj[h] # o
  <2> SUFFICES ASSUME \A o \in Objects : \E h \in Handlers : handObj[h] = o PROVE FALSE
    OBVIOUS
  <2> DEFINE S == {h \in Handlers : handObj[h] \in Objects}
             f == [h \in S |-> handObj[h]]
  <2>1. f \in Surjection(S, Objects)
    BY DEF Surjection
  <2>2. S \in SUBSET Handlers
    OBVIOUS
  <2> HIDE DEF S, f
  <2>3. IsFiniteSet(S) /\ Cardinality(S) <= Cardinality(Handlers)
    BY <1>1, <2>2, FS_Subset
  <2>4. Cardinality(Objects) <= Cardinality(S) /\ Cardinality(S) \in Nat
    BY <2>1, <2>3, FS_Surjection, FS_CardinalityType
  <2> QED BY <1>1, <1>2, <2>3, <2>4
<1>4. \E o \in Objects : Free(o)
  BY <1>3, TransferConstants DEF Free
<1> QED BY <1>4 DEF NewObject

-----------------------------------------------------------------------------
(* The sender's steps.                                                      *)

\* A fault is counted.
LEMMA FaultIsCounted == SenderTypes /\ Fault => faults' \in 0 .. MaxFaults /\ faults' = faults + 1 /\ faults \in Nat
BY TransferConstants DEF SenderTypes, Fault

\* Before the first step.
LEMMA TransferInitially == Init => TransferInvariant
<1> SUFFICES ASSUME Init PROVE TransferInvariant
  OBVIOUS
<1>1. SenderTypes
  <2>1. 0 \in 0 .. ChunkCount /\ 0 \in 0 .. MaxFaults
    BY TransferConstants
  <2> QED BY <2>1 DEF Init, SenderTypes, RowStatus
<1>2. RequestsCounted /\ Quiet /\ Copying
  BY DEF Init, RequestsCounted, Quiet, Copying
<1>3. ReceiverTypes
  BY ChunkMessages DEF Init, ReceiverTypes, NoObject, Object, Paths, RowStatus
<1>4. HandlersHold /\ OneOpen /\ EntryFile /\ OneFinisher
  BY DEF Init, HandlersHold, OneOpen, EntryFile, OneFinisher, Finisher, NoObject
<1> QED BY <1>1, <1>2, <1>3, <1>4 DEF TransferInvariant, SenderInvariant, ReceiverInvariant

\* A step of the sender leaves the receiver alone.
LEMMA ReceiverRests ==
  ASSUME ReceiverInvariant, UNCHANGED receiver PROVE ReceiverInvariant'
BY DEF ReceiverInvariant, ReceiverTypes, HandlersHold, OneOpen, EntryFile, OneFinisher, Finisher,
       receiver, disk, handlers

\* The sender's steps that write nothing to a file: the request, the chunks, the row.
LEMMA SendSteps ==
  ASSUME SenderInvariant,
         \/ SendJobDataTransferRequest \/ RepeatRequest \/ RequestUnanswered \/ CreateSenderRow
         \/ SendJobDataChunk \/ SendChunkFails \/ SendJobDataTransferComplete
  PROVE  SenderInvariant' /\ UNCHANGED <<receiver, encrypted>>
<1>1. SenderTypes /\ RequestsCounted /\ faults \in Nat
  BY TransferConstants DEF SenderInvariant, SenderTypes
<1>2. CASE SendJobDataTransferRequest \/ RepeatRequest
  <2>1. /\ sendPc' = "request" /\ UNCHANGED <<sendNext, sendRow, resumer, ackHeld, chunkNet, ackNet, jobRow, receiver, encrypted>>
        /\ (requests' = 1 /\ faults' = faults) \/ (requests' = requests + 1 /\ Fault)
    BY <1>2 DEF SendJobDataTransferRequest, RepeatRequest, sender, receiver
  <2>2. requests' \in Nat /\ requests' <= faults' + 1 /\ faults' \in 0 .. MaxFaults
    BY <1>1, <2>1, FaultIsCounted DEF SenderTypes, RequestsCounted
  <2> QED BY <1>1, <2>1, <2>2 DEF SenderInvariant, SenderTypes, RequestsCounted, Quiet, Copying, resumer
<1>3. CASE RequestUnanswered
  <2>1. /\ sendPc' = "over" /\ Fault
        /\ UNCHANGED <<sendNext, sendRow, resumer, ackHeld, requests, chunkNet, ackNet, jobRow, receiver, encrypted>>
    BY <1>3 DEF RequestUnanswered, receiver, network
  <2>2. faults' \in 0 .. MaxFaults /\ requests' <= faults' + 1
    BY <1>1, <2>1, FaultIsCounted DEF SenderTypes, RequestsCounted
  <2> QED BY <1>1, <2>1, <2>2 DEF SenderInvariant, SenderTypes, RequestsCounted, Quiet, Copying, resumer
<1>4. CASE CreateSenderRow
  <2>1. /\ sendPc' = "send" /\ sendRow' = [status |-> "active", acked |-> {}]
        /\ UNCHANGED <<sendNext, resumer, ackHeld, requests, chunkNet, ackNet, jobRow, faults, receiver, encrypted>>
    BY <1>4 DEF CreateSenderRow, CreateDataTransfer, receiver, network
  <2> QED BY <1>1, <2>1 DEF SenderInvariant, SenderTypes, RequestsCounted, Quiet, Copying, resumer, RowStatus
<1>5. CASE SendJobDataChunk
  <2>1. /\ sendNext < ChunkCount /\ sendNext' = sendNext + 1 /\ sendPc' \in {"notify", "send"}
        /\ chunkNet' = chunkNet \cup {[index |-> sendNext, form |-> wireForm]}
        /\ UpdateTransferProgress({}) \/ sendRow' = sendRow
        /\ UNCHANGED <<resumer, ackHeld, requests, ackNet, jobRow, faults, receiver, encrypted>>
    BY <1>5 DEF SendJobDataChunk, Checkpoint, receiver
  <2>2. sendNext \in Chunks /\ sendNext' \in 0 .. ChunkCount
    BY <1>1, <2>1, TransferConstants DEF SenderTypes
  <2>3. chunkNet' \subseteq Message
    BY <1>1, <2>1, <2>2, ChunkMessages, FileContents DEF SenderTypes
  <2>4. sendRow' \in [status : RowStatus, acked : SUBSET Chunks]
    BY <1>1, <2>1, RowUpdates DEF SenderTypes
  <2> QED BY <1>1, <2>1, <2>2, <2>3, <2>4 DEF SenderInvariant, SenderTypes, RequestsCounted, Quiet, Copying, resumer
<1>6. CASE SendChunkFails
  <2>1. /\ sendNext < ChunkCount /\ sendPc' = "over" /\ Fault /\ FailTransfer
        /\ chunkNet' = chunkNet \cup {[index |-> sendNext, form |-> wireForm]} \/ chunkNet' = chunkNet
        /\ UNCHANGED <<sendNext, resumer, ackHeld, requests, ackNet, jobRow, receiver, encrypted>>
    BY <1>6 DEF SendChunkFails, receiver
  <2>2. chunkNet' \subseteq Message
    BY <1>1, <2>1, TransferConstants, ChunkMessages, FileContents DEF SenderTypes
  <2>3. sendRow' \in [status : RowStatus, acked : SUBSET Chunks]
    BY <1>1, <2>1, RowUpdates DEF SenderTypes
  <2>4. faults' \in 0 .. MaxFaults /\ requests' <= faults' + 1
    BY <1>1, <2>1, FaultIsCounted DEF SenderTypes, RequestsCounted
  <2> QED BY <1>1, <2>1, <2>2, <2>3, <2>4 DEF SenderInvariant, SenderTypes, RequestsCounted, Quiet, Copying, resumer
<1>7. CASE SendJobDataTransferComplete
  <2>1. /\ sendPc' = "over" /\ CompleteTransfer
        /\ UNCHANGED <<sendNext, resumer, ackHeld, requests, chunkNet, ackNet, jobRow, faults, receiver, encrypted>>
    BY <1>7 DEF SendJobDataTransferComplete, receiver, network
  <2>2. sendRow' \in [status : RowStatus, acked : SUBSET Chunks]
    BY <1>1, <2>1, RowUpdates DEF SenderTypes
  <2> QED BY <1>1, <2>1, <2>2 DEF SenderInvariant, SenderTypes, RequestsCounted, Quiet, Copying, resumer
<1> QED BY <1>2, <1>3, <1>4, <1>5, <1>6, <1>7


\* The resume check and ResumeTransfer, acknowledgements, the sender's crash, and the job.
LEMMA ResumeSteps ==
  ASSUME SenderInvariant,
         \/ RelayReconnected \/ checkAndResumeActiveTransfers \/ ResumeGivesUp \/ ResumeTransfer
         \/ ResendChunk \/ ReadAck \/ WriteAck \/ SenderCrash \/ CheckIdleJob
  PROVE  SenderInvariant' /\ UNCHANGED <<receiver, encrypted>>
<1>1. SenderTypes /\ RequestsCounted /\ faults \in Nat
  BY TransferConstants DEF SenderInvariant, SenderTypes
<1>2. Fault => faults' \in 0 .. MaxFaults /\ (requests' = requests => requests' <= faults' + 1)
  BY <1>1, FaultIsCounted DEF SenderTypes, RequestsCounted
<1>3. CASE RelayReconnected
  <2>1. /\ sendRow.status # "none" /\ Fault /\ resumeDue' = TRUE
        /\ UNCHANGED <<sendPc, sendNext, sendRow, resumePc, resumeTodo, resumeRow, ackHeld, requests,
                       chunkNet, ackNet, jobRow, receiver, encrypted>>
    BY <1>3 DEF RelayReconnected, sender, network, receiver
  <2> QED BY <1>1, <1>2, <2>1 DEF SenderInvariant, SenderTypes, RequestsCounted, Quiet, Copying
<1>4. CASE checkAndResumeActiveTransfers
  <2>1. /\ resumeDue /\ resumeDue' = FALSE
        /\ resumePc' \in {"mark", resumePc} /\ resumeTodo' \in {Chunks \ sendRow.acked, resumeTodo}
        /\ resumeRow' \in {sendRow.acked, resumeRow}
        /\ UNCHANGED <<sendPc, sendNext, sendRow, ackHeld, requests, chunkNet, ackNet, jobRow,
                       faults, receiver, encrypted>>
    BY <1>4 DEF checkAndResumeActiveTransfers, sender, network, receiver
  <2>2. resumeTodo' \subseteq Chunks /\ resumeRow' \subseteq Chunks /\ resumePc' \in {"idle", "mark", "send"}
    BY <1>1, <2>1 DEF SenderTypes
  <2> QED BY <1>1, <2>1, <2>2 DEF SenderInvariant, SenderTypes, RequestsCounted, Quiet, Copying, receiver, disk
<1>5. CASE ResumeGivesUp \/ ResumeTransfer
  <2>1. /\ resumePc = "mark" /\ (CompleteTransfer \/ FailTransfer \/ ResumeMark)
        /\ resumePc' \in {"idle", "send"} /\ resumeTodo' \in {resumeTodo, {}} /\ resumeRow' \in {resumeRow, {}}
        /\ Fault \/ faults' = faults
        /\ UNCHANGED <<sendPc, sendNext, resumeDue, ackHeld, requests, chunkNet, ackNet, jobRow,
                       receiver, encrypted>>
    BY <1>5 DEF ResumeGivesUp, ResumeTransfer, network, receiver
  <2>2. sendRow' \in [status : RowStatus, acked : SUBSET Chunks]
    BY <1>1, <2>1, RowUpdates DEF SenderTypes
  <2>3. faults' \in 0 .. MaxFaults /\ requests' <= faults' + 1
    BY <1>1, <1>2, <2>1 DEF SenderTypes, RequestsCounted
  <2> QED BY <1>1, <2>1, <2>2, <2>3 DEF SenderInvariant, SenderTypes, RequestsCounted, Quiet, Copying, receiver, disk
<1>6. CASE ResendChunk
  <2>1. /\ resumePc = "send"
        /\ \E i \in resumeTodo : chunkNet' = chunkNet \cup {[index |-> i, form |-> "plain"]}
                                 /\ resumeTodo' = resumeTodo \ {i}
        /\ \/ resumePc' = "idle" /\ resumeRow' = {} /\ UpdateTransferProgress(resumeRow)
           \/ UNCHANGED <<resumePc, resumeRow, sendRow>>
        /\ UNCHANGED <<sendPc, sendNext, resumeDue, ackHeld, requests, ackNet, jobRow, faults,
                       receiver, encrypted>>
    BY <1>6 DEF ResendChunk, receiver
  <2>2. chunkNet' \subseteq Message /\ resumeTodo' \subseteq Chunks
    BY <1>1, <2>1, ChunkMessages DEF SenderTypes
  <2>3. sendRow' \in [status : RowStatus, acked : SUBSET Chunks]
    BY <1>1, <2>1, RowUpdates DEF SenderTypes
  <2> QED BY <1>1, <2>1, <2>2, <2>3 DEF SenderInvariant, SenderTypes, RequestsCounted, Quiet, Copying, receiver, disk
<1>7. CASE ReadAck
  <2>1. /\ \E ack \in ackNet : ackNet' = ackNet \ {ack} /\ ackHeld' = {row.acked \cup ack : row \in GetTransferByID}
        /\ UNCHANGED <<sendPc, sendNext, sendRow, resumeDue, resumePc, resumeTodo, resumeRow, requests,
                       chunkNet, jobRow, faults, receiver, encrypted>>
    BY <1>7 DEF ReadAck, sender, resumer, receiver
  <2>2. ackNet' \subseteq SUBSET Chunks /\ ackHeld' \subseteq SUBSET Chunks
    BY <1>1, <2>1 DEF SenderTypes, GetTransferByID
  <2> QED BY <1>1, <2>1, <2>2 DEF SenderInvariant, SenderTypes, RequestsCounted, Quiet, Copying, receiver, disk, handlers
<1>8. CASE WriteAck
  <2>1. /\ (\E acked \in ackHeld : UpdateTransferProgress(acked)) /\ ackHeld' = {}
        /\ UNCHANGED <<sendPc, sendNext, resumeDue, resumePc, resumeTodo, resumeRow, requests,
                       chunkNet, ackNet, jobRow, faults, receiver, encrypted>>
    BY <1>8 DEF WriteAck, resumer, network, receiver
  <2>2. sendRow' \in [status : RowStatus, acked : SUBSET Chunks] /\ sendRow'.status = sendRow.status
    BY <1>1, <2>1, RowUpdates DEF SenderTypes
  <2> QED BY <1>1, <2>1, <2>2 DEF SenderInvariant, SenderTypes, RequestsCounted, Quiet, Copying, receiver, disk, handlers
<1>9. CASE SenderCrash
  <2>1. /\ Fault /\ sendPc' = "over" /\ resumeDue' = TRUE /\ resumePc' = "idle" /\ resumeTodo' = {}
        /\ resumeRow' = {} /\ ackHeld' = {} /\ requests' = 0 /\ ackNet' = {}
        /\ UNCHANGED <<sendNext, sendRow, chunkNet, jobRow, receiver, encrypted>>
    BY <1>9 DEF SenderCrash, receiver
  <2>2. faults' \in 0 .. MaxFaults /\ requests' <= faults' + 1
    BY <1>1, <2>1, FaultIsCounted
  <2> QED BY <1>1, <2>1, <2>2 DEF SenderInvariant, SenderTypes, RequestsCounted, Quiet, Copying
<1>10. CASE CheckIdleJob
  <2>1. /\ jobRow' = "RUNNING"
        /\ UNCHANGED <<sendPc, sendNext, sendRow, resumeDue, resumePc, resumeTodo, resumeRow, ackHeld,
                       requests, chunkNet, ackNet, faults, receiver, encrypted>>
    BY <1>10 DEF CheckIdleJob, sender, resumer, network, receiver
  <2> QED BY <1>1, <2>1 DEF SenderInvariant, SenderTypes, RequestsCounted, Quiet, Copying, receiver, disk, handlers
<1> QED BY <1>3, <1>4, <1>5, <1>6, <1>7, <1>8, <1>9, <1>10

\* Files change while no transfer is in memory.
LEMMA FilesAlone ==
  ASSUME ReceiverInvariant, entry = 0, UNCHANGED <<entry, object, recvRow, handlers>>,
         file' \in [Paths -> Contents \cup {NoFile}], placed' \in [Paths -> {"none", "whole", "garbled"}]
  PROVE  ReceiverInvariant'
BY DEF ReceiverInvariant, ReceiverTypes, HandlersHold, OneOpen, EntryFile, OneFinisher, Finisher, handlers

-----------------------------------------------------------------------------
(* The steps of FileDelivery, in terms of the job's archive and input.      *)

\* The forms a step can take.
Untouched == UNCHANGED <<file["job"], placed["job"], encrypted>>
Begun     == file'["job"] = Empty /\ UNCHANGED <<placed["job"], encrypted>>
Added     == /\ file["job"] \in Contents /\ UNCHANGED <<placed["job"], encrypted>>
             /\ \E i \in Chunks, f \in Forms : /\ f = wireForm \/ file["job"][i] = "hole"
                                               /\ file'["job"] = [file["job"] EXCEPT ![i] = f]
Dropped   == file'["job"] = NoFile /\ UNCHANGED <<placed["job"], encrypted>>
Delivered == /\ file["job"] = Uniform(wireForm) /\ file'["job"] = NoFile /\ placed'["job"] = "whole"
             /\ UNCHANGED encrypted
DeliveryStep == Untouched \/ Begun \/ Added \/ Dropped \/ Delivered

\* Each is a step of FileDelivery or none.
LEMMA DeliverySteps ==
  ASSUME DeliveryStep PROVE [Abstract!Next]_(Abstract!vars)
<1>1. NoFile \notin Contents
  BY TransferConstants
<1>2. encrypted' = encrypted /\ wireForm' = wireForm
  BY DEF DeliveryStep, Untouched, Begun, Added, Dropped, Delivered, wireForm
<1>3. CASE Untouched
  BY <1>2, <1>3 DEF Untouched, Abstract!vars
<1>4. CASE Begun
  <2>1. file'["job"] # NoFile /\ \A i \in Chunks : file'["job"][i] # wireForm
    BY <1>1, <1>4, FileContents DEF Begun
  <2>2. Abstract!Open
    BY <1>2, <1>4, <2>1 DEF Abstract!Open, Begun
  <2> QED BY <2>2 DEF Abstract!Next
<1>5. CASE Added
  <2>1. PICK i \in Chunks, f \in Forms : /\ f = wireForm \/ file["job"][i] = "hole"
                                         /\ file'["job"] = [file["job"] EXCEPT ![i] = f]
    BY <1>5 DEF Added
  <2>2. file["job"] # NoFile /\ file'["job"] # NoFile /\ file["job"] \in Contents
    BY <1>1, <1>5, <2>1, FileContents DEF Added
  <2>3. file'["job"][i] = f /\ \A j \in Chunks : j # i => file'["job"][j] = file["job"][j]
    BY <2>1, <2>2, FileContents
  <2>4. CASE f = wireForm
    <3>1. {j \in Chunks : file'["job"][j] = wireForm} = {j \in Chunks : file["job"][j] = wireForm} \cup {i}
      BY <2>3, <2>4
    <3>2. Abstract!Write
      BY <1>2, <1>5, <2>2, <3>1 DEF Abstract!Write, Added
    <3> QED BY <3>2 DEF Abstract!Next
  <2>5. CASE f # wireForm
    <3>1. file["job"][i] # wireForm
      BY <2>1, <2>5, FileContents
    <3>2. {j \in Chunks : file'["job"][j] = wireForm} = {j \in Chunks : file["job"][j] = wireForm}
      BY <2>3, <2>5, <3>1
    <3> QED BY <1>2, <1>5, <2>2, <3>2 DEF Abstract!vars, Added
  <2> QED BY <2>4, <2>5
<1>6. CASE Dropped
  <2>1. Abstract!Discard
    BY <1>6 DEF Abstract!Discard, Dropped
  <2> QED BY <2>1 DEF Abstract!Next
<1>7. CASE Delivered
  <2>1. file["job"] # NoFile /\ \A i \in Chunks : file["job"][i] = wireForm
    BY <1>1, <1>7, FileContents DEF Delivered
  <2>2. {i \in Chunks : file["job"][i] = wireForm} = Chunks
    BY <2>1
  <2>3. Abstract!Deliver
    BY <1>7, <2>1, <2>2 DEF Abstract!Deliver, Delivered
  <2> QED BY <2>3 DEF Abstract!Next
<1> QED BY <1>3, <1>4, <1>5, <1>6, <1>7 DEF DeliveryStep

-----------------------------------------------------------------------------
(* The steps that write to the files.                                       *)

\* The local copy opens the archive, writes it and delivers it.
LEMMA LocalCopy ==
  ASSUME TransferInvariant, OpenLocalCopy \/ copyFile \/ handleLocalDataTransfer
  PROVE  TransferInvariant' /\ DeliveryStep
<1>1. /\ SenderTypes /\ RequestsCounted /\ Quiet /\ Copying /\ ReceiverInvariant /\ ReceiverTypes
      /\ NoFile \notin Contents /\ "job" \in Paths
  BY TransferConstants DEF TransferInvariant, SenderInvariant, ReceiverInvariant, Paths
<1>2. entry = 0
  BY <1>1 DEF OpenLocalCopy, copyFile, handleLocalDataTransfer, Quiet
<1>3. file["job"] \in Contents \cup {NoFile} /\ DOMAIN file = Paths /\ DOMAIN placed = Paths
  BY <1>1 DEF ReceiverTypes
<1>4. CASE OpenLocalCopy
  <2>1. /\ sendPc = "idle" /\ ~encrypted /\ sendPc' = "copy" /\ file' = [file EXCEPT !["job"] = Empty]
        /\ UNCHANGED <<encrypted, sendNext, sendRow, resumeDue, resumePc, resumeTodo, resumeRow, ackHeld, requests,
                       chunkNet, ackNet, entry, object, placed, recvRow, handlers, jobRow, faults>>
    BY <1>4 DEF OpenLocalCopy, resumer, network
  <2>2. file'["job"] = Empty /\ Empty # NoFile /\ file' \in [Paths -> Contents \cup {NoFile}]
    BY <1>1, <2>1, FileContents DEF ReceiverTypes
  <2>3. ReceiverInvariant'
    BY <1>1, <1>2, <2>1, <2>2, FilesAlone DEF ReceiverTypes
  <2>4. \A i \in Chunks : ~(i < sendNext')
    BY <1>1, <2>1, TransferConstants DEF Copying
  <2>5. SenderInvariant'
    BY <1>1, <2>1, <2>2, <2>4 DEF SenderInvariant, SenderTypes, RequestsCounted, Quiet, Copying, handlers
  <2>6. Begun
    BY <2>1, <2>2 DEF Begun
  <2> QED BY <2>3, <2>5, <2>6 DEF TransferInvariant, DeliveryStep
<1>5. CASE copyFile
  <2>1. /\ sendPc = "copy" /\ sendNext < ChunkCount /\ file' = [file EXCEPT !["job"][sendNext] = "plain"]
        /\ sendNext' = sendNext + 1
        /\ UNCHANGED <<encrypted, sendPc, sendRow, resumeDue, resumePc, resumeTodo, resumeRow, ackHeld, requests,
                       chunkNet, ackNet, entry, object, placed, recvRow, handlers, jobRow, faults>>
    BY <1>5 DEF copyFile, resumer, network
  <2>2. ~encrypted /\ file["job"] \in Contents /\ sendNext \in Chunks /\ sendNext \in Nat /\ sendNext' \in 0 .. ChunkCount
        /\ wireForm = "plain" /\ "plain" \in Forms
    BY <1>1, <1>3, <2>1, TransferConstants DEF Copying, SenderTypes, wireForm, Forms
  <2>3. file'["job"] = [file["job"] EXCEPT ![sendNext] = "plain"] /\ file'["job"] \in Contents
        /\ file' \in [Paths -> Contents \cup {NoFile}]
    BY <1>1, <2>1, <2>2, FileContents DEF ReceiverTypes
  <2>4. ReceiverInvariant'
    BY <1>1, <1>2, <2>1, <2>3, FilesAlone DEF ReceiverTypes
  <2>5. \A i \in Chunks : i < sendNext' => file'["job"][i] = "plain"
    <3> SUFFICES ASSUME NEW i \in Chunks, i < sendNext' PROVE file'["job"][i] = "plain"
      OBVIOUS
    <3>1. i = sendNext \/ i < sendNext
      BY <2>1, <2>2, TransferConstants
    <3> QED BY <1>1, <2>1, <2>2, <2>3, <3>1, FileContents DEF Copying
  <2>6. SenderInvariant'
    BY <1>1, <2>1, <2>2, <2>3, <2>5 DEF SenderInvariant, SenderTypes, RequestsCounted, Quiet, Copying, handlers
  <2>7. Added
    BY <2>1, <2>2, <2>3 DEF Added
  <2> QED BY <2>4, <2>6, <2>7 DEF TransferInvariant, DeliveryStep
<1>6. CASE handleLocalDataTransfer
  <2>1. /\ sendPc = "copy" /\ sendNext = ChunkCount /\ sendPc' = "over"
        /\ placed' = [placed EXCEPT !["job"] = "whole"] /\ file' = [file EXCEPT !["job"] = NoFile]
        /\ UNCHANGED <<encrypted, sendNext, sendRow, resumeDue, resumePc, resumeTodo, resumeRow, ackHeld, requests,
                       chunkNet, ackNet, entry, object, recvRow, handlers, jobRow, faults>>
    BY <1>6 DEF handleLocalDataTransfer, resumer, network
  <2>2. file["job"] \in Contents /\ wireForm = "plain" /\ \A i \in Chunks : file["job"][i] = "plain"
    BY <1>1, <1>3, <2>1, TransferConstants DEF Copying, wireForm
  <2>3. file["job"] = Uniform(wireForm)
    BY <2>2 DEF Contents, Uniform
  <2>4. file' \in [Paths -> Contents \cup {NoFile}] /\ placed' \in [Paths -> {"none", "whole", "garbled"}]
    BY <1>1, <2>1 DEF ReceiverTypes
  <2>5. ReceiverInvariant'
    BY <1>1, <1>2, <2>1, <2>4, FilesAlone
  <2>6. SenderInvariant'
    BY <1>1, <2>1 DEF SenderInvariant, SenderTypes, RequestsCounted, Quiet, Copying
  <2>7. Delivered
    BY <1>1, <1>3, <2>1, <2>3 DEF Delivered
  <2> QED BY <2>5, <2>6, <2>7 DEF TransferInvariant, DeliveryStep
<1> QED BY <1>4, <1>5, <1>6


\* The sender's half of a step of the receiver, once the transfer was offered.
LEMMA SenderRests ==
  ASSUME SenderInvariant, sendPc \notin {"idle", "copy"}, sendPc' \in {sendPc, "record", "over"},
         UNCHANGED <<encrypted, sendNext, sendRow, resumer, ackHeld>>,
         requests' \in {requests, requests - 1}, requests' = requests \/ requests > 0,
         chunkNet' \subseteq chunkNet, ackNet' \subseteq SUBSET Chunks,
         jobRow' \in {"IDLE", "RUNNING", "COMPLETED"}, faults' = faults \/ Fault
  PROVE  SenderInvariant'
<1>1. SenderTypes /\ RequestsCounted /\ faults \in Nat
  BY TransferConstants DEF SenderInvariant, SenderTypes
<1>2. faults' \in 0 .. MaxFaults /\ requests' \in Nat /\ requests' <= faults' + 1
  BY <1>1, FaultIsCounted DEF SenderTypes, RequestsCounted
<1>3. SenderTypes'
  BY <1>1, <1>2 DEF SenderTypes, resumer
<1>4. sendPc' \notin {"idle", "copy"}
  OBVIOUS
<1> QED BY <1>2, <1>3, <1>4 DEF SenderInvariant, RequestsCounted, Quiet, Copying

\* What the handlers do while one of them returns.
HandlersGoOn ==
  /\ handPc' \in [Handlers -> {"idle", "look", "init", "get", "write", "ack", "finalize"}]
  /\ handMsg' \in [Handlers -> Message]
  /\ handObj' \in [Handlers -> Objects \cup {0}]
  /\ handList' \in [Handlers -> SUBSET Chunks]
  /\ \A g \in Handlers : \/ handPc'[g] = "idle"
                         \/ handPc'[g] = handPc[g] /\ handObj'[g] = handObj[g] /\ handList'[g] = handList[g]

\* A handler returns.
LEMMA Returns ==
  ASSUME ReceiverTypes, NEW h \in Handlers, Return(h) PROVE HandlersGoOn /\ handPc'[h] = "idle"
BY ChunkMessages DEF ReceiverTypes, Return, Goto, HandlersGoOn

\* Nothing else is touched then.
LEMMA HandlerGone ==
  ASSUME ReceiverInvariant, HandlersGoOn, UNCHANGED <<entry, object, disk, recvRow>>
  PROVE  ReceiverInvariant'
<1>1. ReceiverTypes'
  BY DEF ReceiverInvariant, ReceiverTypes, HandlersGoOn, disk
<1>2. HandlersHold' /\ OneFinisher'
  BY DEF ReceiverInvariant, HandlersHold, OneFinisher, Finisher, HandlersGoOn
<1>3. OneOpen' /\ EntryFile'
  BY DEF ReceiverInvariant, OneOpen, EntryFile, disk
<1> QED BY <1>1, <1>2, <1>3 DEF ReceiverInvariant

\* One handler goes to another step, and nothing is touched.
LEMMA HandlerMoves ==
  ASSUME ReceiverInvariant, NEW h \in Handlers, NEW to \in {"look", "init", "get", "write"},
         Goto(h, to), handMsg' \in [Handlers -> Message], handObj' \in [Handlers -> Objects \cup {0}],
         \A g \in Handlers : g # h => handObj'[g] = handObj[g],
         to = "write" => handObj'[h] \in Objects,
         UNCHANGED <<handList, entry, object, disk, recvRow>>
  PROVE  ReceiverInvariant'
<1>1. ReceiverTypes'
  BY DEF ReceiverInvariant, ReceiverTypes, Goto, disk
<1>2. handPc'[h] = to /\ \A g \in Handlers : g # h => handPc'[g] = handPc[g]
  BY DEF Goto, ReceiverInvariant, ReceiverTypes
<1>3. HandlersHold'
  BY <1>2 DEF ReceiverInvariant, HandlersHold
<1>4. OneFinisher'
  BY <1>2 DEF ReceiverInvariant, OneFinisher, Finisher
<1>5. OneOpen' /\ EntryFile'
  BY DEF ReceiverInvariant, OneOpen, EntryFile, disk
<1> QED BY <1>1, <1>3, <1>4, <1>5 DEF ReceiverInvariant

\* InitializeIncomingTransfer: an entry that is there stays, a new one has an empty file.
LEMMA InitializeKeeps ==
  ASSUME ReceiverInvariant, NEW path \in Paths, InitializeIncomingTransfer(path),
         handPc' \in [Handlers -> {"idle", "look", "init", "get", "write", "ack", "finalize"}],
         \A g \in Handlers : handPc'[g] = handPc[g] \/ handPc'[g] = "get",
         UNCHANGED <<handMsg, handObj, handList, placed, recvRow, encrypted>>
  PROVE  ReceiverInvariant' /\ DeliveryStep
<1>1. ReceiverTypes /\ HandlersHold /\ OneOpen /\ EntryFile /\ OneFinisher
  BY DEF ReceiverInvariant
<1>2. CASE entry # 0
  <2>1. UNCHANGED <<entry, object, file>>
    BY <1>2 DEF InitializeIncomingTransfer
  <2>2. ReceiverTypes'
    BY <1>1, <2>1 DEF ReceiverTypes
  <2>3. HandlersHold' /\ OneOpen' /\ EntryFile'
    BY <1>1, <2>1 DEF HandlersHold, OneOpen, EntryFile
  <2>4. OneFinisher'
    BY <1>1, <2>1 DEF OneFinisher, Finisher
  <2> QED BY <2>1, <2>2, <2>3, <2>4 DEF ReceiverInvariant, DeliveryStep, Untouched
<1>3. CASE entry = 0
  <2>1. PICK n \in Objects : n = NewObject /\ Free(n)
    BY <1>1, <1>3, FreeObject
  <2>2. /\ entry' = n /\ object' = [object EXCEPT ![n] = [path |-> path, got |-> {}, open |-> TRUE]]
        /\ file' = [file EXCEPT ![path] = Empty]
    BY <1>3, <2>1 DEF InitializeIncomingTransfer
  <2>3. PICK r : r = [path |-> path, got |-> {}, open |-> TRUE]
    OBVIOUS
  <2>4. r \in Object /\ r.path = path /\ r.got = {} /\ r.open = TRUE
    BY <2>3 DEF Object
  <2>5. object'[n] = r /\ (\A o \in Objects : o # n => object'[o] = object[o]) /\ object' \in [Objects -> Object]
    BY <1>1, <2>2, <2>3, <2>4 DEF ReceiverTypes
  <2>6. file'[path] = Empty /\ (\A q \in Paths : q # path => file'[q] = file[q])
        /\ file' \in [Paths -> Contents \cup {NoFile}] /\ Empty # NoFile
    BY <1>1, <2>2, FileContents, TransferConstants DEF ReceiverTypes
  <2>7. ReceiverTypes'
    BY <1>1, <2>2, <2>5, <2>6 DEF ReceiverTypes
  <2>8. HandlersHold' /\ OneOpen'
    BY <1>1, <1>3, <2>2, <2>5, TransferConstants DEF HandlersHold, OneOpen
  <2>9. EntryFile'
    BY <2>2, <2>4, <2>5, <2>6, FileContents DEF EntryFile
  <2>10. \A g \in Handlers : ~Finisher(g)
    BY <1>1, <1>3, TransferConstants DEF OneFinisher, Finisher, HandlersHold
  <2>11. OneFinisher'
    BY <1>1, <2>10 DEF OneFinisher, Finisher
  <2>12. DeliveryStep
    <3>1. CASE path = "job"
      BY <2>6, <3>1 DEF DeliveryStep, Begun
    <3>2. CASE path # "job"
      BY <2>6, <3>2 DEF DeliveryStep, Untouched, Paths
    <3> QED BY <3>1, <3>2
  <2> QED BY <2>7, <2>8, <2>9, <2>11, <2>12 DEF ReceiverInvariant
<1> QED BY <1>2, <1>3

\* Drop: the entry and its file are gone, and with them the handler that finishes.
LEMMA DropKeeps ==
  ASSUME ReceiverInvariant, entry # 0, Drop(entry), HandlersGoOn,
         file' = [file EXCEPT ![object[entry].path] = NoFile],
         placed' \in [Paths -> {"none", "whole", "garbled"}], recvRow' \in RowStatus,
         \A g \in Handlers : Finisher(g) => handPc'[g] = "idle"
  PROVE  ReceiverInvariant' /\ object[entry] \in Object /\ object[entry].path \in Paths
         /\ file'[object[entry].path] = NoFile
         /\ \A q \in Paths : q # object[entry].path => file'[q] = file[q]
<1>1. ReceiverTypes /\ HandlersHold /\ OneOpen /\ EntryFile /\ OneFinisher /\ entry \in Objects
  BY DEF ReceiverInvariant, ReceiverTypes
<1>2. object[entry] \in Object /\ object[entry].path \in Paths
  BY <1>1 DEF ReceiverTypes, Object
<1>3. entry' = 0
  BY DEF Drop
<1>4. PICK r : /\ r \in Object /\ ~r.open
               /\ object' = [object EXCEPT ![entry] = r]
  <2>1. NoObject \in Object /\ NoObject.open = FALSE
    BY DEF NoObject, Object, Paths
  <2>2. [object[entry] EXCEPT !.open = FALSE] \in Object /\ [object[entry] EXCEPT !.open = FALSE].open = FALSE
    BY <1>2 DEF Object
  <2>3. CASE \E h \in Handlers : handObj[h] = entry
    BY <2>2, <2>3 DEF Drop
  <2>4. CASE ~\E h \in Handlers : handObj[h] = entry
    BY <2>1, <2>4 DEF Drop
  <2> QED BY <2>3, <2>4
<1>5. object' \in [Objects -> Object] /\ object'[entry] = r /\ \A o \in Objects : o # entry => object'[o] = object[o]
  BY <1>1, <1>4 DEF ReceiverTypes
<1>6. file'[object[entry].path] = NoFile /\ (\A q \in Paths : q # object[entry].path => file'[q] = file[q])
      /\ file' \in [Paths -> Contents \cup {NoFile}]
  BY <1>1, <1>2 DEF ReceiverTypes
<1>7. ReceiverTypes'
  BY <1>1, <1>3, <1>5, <1>6 DEF ReceiverTypes, HandlersGoOn
<1>8. HandlersHold'
  BY <1>1 DEF HandlersHold, HandlersGoOn
<1>9. OneOpen' /\ EntryFile'
  BY <1>1, <1>3, <1>4, <1>5 DEF OneOpen, EntryFile
<1>10. OneFinisher'
  BY <1>1 DEF OneFinisher, Finisher, HandlersGoOn
<1> QED BY <1>2, <1>6, <1>7, <1>8, <1>9, <1>10 DEF ReceiverInvariant


\* HandleJobDataTransferRequest and RefuseRequest.
LEMMA RequestSteps ==
  ASSUME TransferInvariant, HandleJobDataTransferRequest \/ RefuseRequest
  PROVE  TransferInvariant' /\ DeliveryStep
<1>1. SenderInvariant /\ ReceiverInvariant /\ SenderTypes /\ ReceiverTypes
  BY DEF TransferInvariant, SenderInvariant, ReceiverInvariant
<1>2. requests > 0 /\ sendPc \notin {"idle", "copy"}
  <2>1. requests > 0
    BY DEF HandleJobDataTransferRequest, RefuseRequest
  <2>2. requests # 0
    BY <2>1
  <2> QED BY <1>1, <2>1, <2>2 DEF SenderInvariant, Quiet
<1>3. /\ requests' = requests - 1 /\ sendPc' \in {sendPc, "record", "over"} /\ (faults' = faults \/ Fault)
      /\ UNCHANGED <<encrypted, sendNext, sendRow, resumer, ackHeld, chunkNet, ackNet, placed, recvRow, handlers, jobRow>>
  BY DEF HandleJobDataTransferRequest, RefuseRequest, Answer
<1>4. SenderInvariant'
  BY <1>1, <1>2, <1>3, SenderRests DEF SenderTypes
<1>5. CASE HandleJobDataTransferRequest
  <2>1. InitializeIncomingTransfer("job") /\ UNCHANGED <<handPc, handMsg, handObj, handList, placed, recvRow, encrypted>>
    BY <1>3, <1>5 DEF HandleJobDataTransferRequest, handlers
  <2>2. ReceiverInvariant' /\ DeliveryStep
    BY <1>1, <2>1, InitializeKeeps DEF Paths, ReceiverTypes
  <2> QED BY <1>4, <2>2 DEF TransferInvariant
<1>6. CASE RefuseRequest
  <2>1. /\ UNCHANGED <<entry, object>>
        /\ file' = file \/ (entry = 0 /\ file' = [file EXCEPT !["job"] = Empty])
    BY <1>6 DEF RefuseRequest
  <2>2. CASE file' = file
    <3>1. ReceiverInvariant'
      BY <1>1, <1>3, <2>1, <2>2, ReceiverRests DEF receiver, disk
    <3> QED BY <1>3, <1>4, <2>2, <3>1 DEF TransferInvariant, DeliveryStep, Untouched
  <2>3. CASE entry = 0 /\ file' = [file EXCEPT !["job"] = Empty]
    <3>1. file' \in [Paths -> Contents \cup {NoFile}] /\ file'["job"] = Empty
      BY <1>1, <2>3, FileContents DEF ReceiverTypes, Paths
    <3>2. ReceiverInvariant'
      BY <1>1, <1>3, <2>1, <2>3, <3>1, FilesAlone DEF ReceiverTypes
    <3> QED BY <1>3, <1>4, <3>1, <3>2 DEF TransferInvariant, DeliveryStep, Begun
  <2> QED BY <2>1, <2>2, <2>3
<1> QED BY <1>5, <1>6

\* A handler at work means that the transfer was offered.
LEMMA Offered ==
  ASSUME SenderInvariant, NEW h \in Handlers, handPc[h] # "idle" \/ chunkNet # {} \/ entry # 0
  PROVE  sendPc \notin {"idle", "copy"}
BY DEF SenderInvariant, Quiet

\* A chunk arrives, its transfer is looked up, or opened without a request.
LEMMA ArrivalSteps ==
  ASSUME TransferInvariant, NEW h \in Handlers,
         handleJobDataChunk(h) \/ LookUp(h) \/ AutoInitialize(h) \/ LookUpAgain(h)
  PROVE  TransferInvariant' /\ DeliveryStep
<1>1. SenderInvariant /\ ReceiverInvariant /\ SenderTypes /\ ReceiverTypes
  BY DEF TransferInvariant, SenderInvariant, ReceiverInvariant
<1>2. CASE handleJobDataChunk(h)
  <2>1. PICK m \in chunkNet :
          /\ handMsg' = [handMsg EXCEPT ![h] = m] /\ chunkNet' \subseteq chunkNet /\ (faults' = faults \/ Fault)
    BY <1>2 DEF handleJobDataChunk
  <2>2. /\ Goto(h, "look")
        /\ UNCHANGED <<encrypted, sendPc, sendNext, sendRow, resumer, ackHeld, requests, ackNet, entry, object, disk,
                       recvRow, handObj, handList, jobRow>>
    BY <1>2 DEF handleJobDataChunk, sender
  <2>3. handMsg' \in [Handlers -> Message]
    BY <1>1, <2>1 DEF SenderTypes, ReceiverTypes
  <2>4. sendPc \notin {"idle", "copy"}
    BY <1>1, <2>1, Offered
  <2>5. SenderInvariant'
    BY <1>1, <2>1, <2>2, <2>4, SenderRests DEF SenderTypes
  <2>6. ReceiverInvariant'
    BY <1>1, <2>2, <2>3, HandlerMoves DEF ReceiverTypes
  <2> QED BY <2>2, <2>5, <2>6 DEF TransferInvariant, DeliveryStep, Untouched, disk
<1>3. CASE LookUp(h) \/ LookUpAgain(h)
  <2>1. /\ handPc[h] # "idle" /\ handObj' = [handObj EXCEPT ![h] = entry]
        /\ (entry # 0 /\ Goto(h, "write")) \/ Goto(h, "init")
        /\ UNCHANGED <<encrypted, sendPc, sendNext, sendRow, resumer, ackHeld, requests, chunkNet, ackNet, entry, object, disk,
                       recvRow, handMsg, handList, jobRow, faults>>
    BY <1>3 DEF LookUp, LookUpAgain, sender, network
  <2>2. sendPc \notin {"idle", "copy"}
    BY <1>1, <2>1, Offered
  <2>3. SenderInvariant'
    BY <1>1, <2>1, <2>2, SenderRests DEF SenderTypes
  <2>4. handObj' \in [Handlers -> Objects \cup {0}] /\ (entry # 0 => handObj'[h] \in Objects)
        /\ \A g \in Handlers : g # h => handObj'[g] = handObj[g]
    BY <1>1, <2>1 DEF ReceiverTypes
  <2>5. PICK to \in {"init", "write"} : Goto(h, to) /\ (to = "write" => entry # 0)
    BY <2>1
  <2>6. ReceiverInvariant'
    BY <1>1, <2>1, <2>4, <2>5, HandlerMoves DEF ReceiverTypes
  <2> QED BY <2>1, <2>3, <2>6 DEF TransferInvariant, DeliveryStep, Untouched, disk
<1>4. CASE AutoInitialize(h)
  <2>1. /\ handPc[h] # "idle" /\ InitializeIncomingTransfer("tmp") /\ handPc' = [handPc EXCEPT ![h] = "get"]
        /\ UNCHANGED <<encrypted, sendPc, sendNext, sendRow, resumer, ackHeld, requests, chunkNet, ackNet, placed,
                       recvRow, handMsg, handObj, handList, jobRow, faults>>
    BY <1>4 DEF AutoInitialize, Goto, sender, network
  <2>2. sendPc \notin {"idle", "copy"}
    BY <1>1, <2>1, Offered
  <2>3. SenderInvariant'
    BY <1>1, <2>1, <2>2, SenderRests DEF SenderTypes
  <2>4. /\ handPc' \in [Handlers -> {"idle", "look", "init", "get", "write", "ack", "finalize"}]
        /\ \A g \in Handlers : handPc'[g] = handPc[g] \/ handPc'[g] = "get"
    BY <1>1, <2>1 DEF ReceiverTypes
  <2>5. ReceiverInvariant' /\ DeliveryStep
    BY <1>1, <2>1, <2>4, InitializeKeeps DEF Paths
  <2> QED BY <2>3, <2>5 DEF TransferInvariant
<1> QED BY <1>2, <1>3, <1>4

\* A chunk is ignored, or an acknowledgement sent.
LEMMA AnswerSteps ==
  ASSUME TransferInvariant, NEW h \in Handlers, IgnoreChunk(h) \/ SendJobDataChunkAck(h)
  PROVE  TransferInvariant' /\ DeliveryStep
<1>1. SenderInvariant /\ ReceiverInvariant /\ SenderTypes /\ ReceiverTypes
  BY DEF TransferInvariant, SenderInvariant, ReceiverInvariant
<1>2. /\ handPc[h] # "idle" /\ (ackNet' = ackNet \/ ackNet' = ackNet \cup {handList[h]}) /\ (faults' = faults \/ Fault)
      /\ UNCHANGED <<encrypted, sendPc, sendNext, sendRow, resumer, ackHeld, requests, chunkNet, entry, object, disk,
                     recvRow, jobRow>>
      /\ Return(h) \/ /\ handPc[h] = "ack" /\ handList[h] = Chunks /\ Goto(h, "finalize")
                      /\ UNCHANGED <<handMsg, handObj, handList>>
  BY DEF IgnoreChunk, SendJobDataChunkAck, sender, network, Complete
<1>3. sendPc \notin {"idle", "copy"} /\ ackNet' \subseteq SUBSET Chunks
  BY <1>1, <1>2, Offered DEF SenderTypes, ReceiverTypes
<1>4. SenderInvariant'
  BY <1>1, <1>2, <1>3, SenderRests DEF SenderTypes
<1>5. CASE Return(h)
  <2>1. ReceiverInvariant'
    BY <1>1, <1>2, <1>5, Returns, HandlerGone
  <2> QED BY <1>2, <1>4, <2>1 DEF TransferInvariant, DeliveryStep, Untouched, disk
<1>6. CASE /\ handPc[h] = "ack" /\ handList[h] = Chunks /\ Goto(h, "finalize")
           /\ UNCHANGED <<handMsg, handObj, handList>>
  <2>1. ReceiverTypes'
    BY <1>1, <1>2, <1>6 DEF ReceiverTypes, Goto, disk
  <2>2. handPc'[h] = "finalize" /\ \A g \in Handlers : g # h => handPc'[g] = handPc[g]
    BY <1>1, <1>6 DEF ReceiverTypes, Goto
  <2>3. HandlersHold' /\ OneFinisher'
    BY <1>1, <1>2, <1>6, <2>2 DEF ReceiverInvariant, HandlersHold, OneFinisher, Finisher
  <2>4. OneOpen' /\ EntryFile'
    BY <1>1, <1>2 DEF ReceiverInvariant, OneOpen, EntryFile, disk
  <2>5. ReceiverInvariant'
    BY <2>1, <2>3, <2>4 DEF ReceiverInvariant
  <2> QED BY <1>2, <1>4, <2>5 DEF TransferInvariant, DeliveryStep, Untouched, disk
<1> QED BY <1>2, <1>5, <1>6

\* A chunk is written, into the file of the entry and where there was a hole.
LEMMA StoreChunkStep ==
  ASSUME TransferInvariant, NEW h \in Handlers, StoreChunk(h)
  PROVE  TransferInvariant' /\ DeliveryStep
<1>1. /\ SenderInvariant /\ ReceiverInvariant /\ SenderTypes /\ ReceiverTypes
      /\ HandlersHold /\ OneOpen /\ EntryFile /\ OneFinisher
  BY DEF TransferInvariant, SenderInvariant, ReceiverInvariant
<1>2. handPc[h] = "write" /\ sendPc \notin {"idle", "copy"}
  BY <1>1, Offered DEF StoreChunk
<1>3. PICK o \in Objects, i \in Chunks, f \in Forms, p \in Paths :
        o = handObj[h] /\ i = handMsg[h].index /\ f = handMsg[h].form /\ p = object[o].path
  <2>1. handObj[h] \in Objects /\ handMsg[h] \in Message
    BY <1>1, <1>2 DEF HandlersHold, ReceiverTypes
  <2>2. object[handObj[h]] \in Object
    BY <1>1, <2>1 DEF ReceiverTypes
  <2>3. object[handObj[h]].path \in Paths
    BY <2>2 DEF Object
  <2> QED BY <2>1, <2>3, ChunkMessages
<1>4. i \notin object[o].got /\ object[o].open
  BY <1>3 DEF StoreChunk, Ignored
<1>5. o = entry /\ entry # 0 /\ object[o] \in Object /\ object[o].got \subseteq Chunks
  BY <1>1, <1>3, <1>4, TransferConstants DEF OneOpen, ReceiverTypes, Object
<1>6. file[p] # NoFile /\ file[p] \in Contents /\ file[p][i] = "hole"
      /\ \A j \in Chunks : j \in object[o].got <=> file[p][j] # "hole"
  <2>1. file[p] # NoFile /\ \A j \in Chunks : j \in object[o].got <=> file[p][j] # "hole"
    BY <1>1, <1>3, <1>5 DEF EntryFile
  <2>2. file[p] \in Contents
    BY <1>1, <2>1 DEF ReceiverTypes
  <2> QED BY <1>4, <2>1, <2>2
<1>7. PICK got \in SUBSET Chunks : got = object[o].got \cup {i}
  BY <1>5
<1>8. /\ file' = [file EXCEPT ![p][i] = f] /\ object' = [object EXCEPT ![o].got = got]
      /\ recvRow' \in {recvRow, "active"}
      /\ \/ Goto(h, "ack") /\ handList' = [handList EXCEPT ![h] = got] /\ UNCHANGED <<handMsg, handObj>>
         \/ Return(h)
      /\ UNCHANGED <<encrypted, sendPc, sendNext, sendRow, resumer, ackHeld, requests, chunkNet, ackNet, entry, placed,
                     jobRow, faults>>
  BY <1>3, <1>6, <1>7 DEF StoreChunk, WriteAt, RecordChunk, sender, network
<1>9. SenderInvariant'
  BY <1>1, <1>2, <1>8, SenderRests DEF SenderTypes
<1>10. /\ file'[p] = [file[p] EXCEPT ![i] = f] /\ file'[p] \in Contents /\ file'[p] # NoFile
       /\ file'[p][i] = f /\ (\A j \in Chunks : j # i => file'[p][j] = file[p][j])
       /\ file' \in [Paths -> Contents \cup {NoFile}] /\ \A q \in Paths : q # p => file'[q] = file[q]
  <2>1. file'[p] = [file[p] EXCEPT ![i] = f] /\ \A q \in Paths : q # p => file'[q] = file[q]
    BY <1>1, <1>8 DEF ReceiverTypes
  <2>2. file'[p] \in Contents /\ file'[p][i] = f /\ \A j \in Chunks : j # i => file'[p][j] = file[p][j]
    BY <1>6, <2>1, FileContents
  <2>3. file' \in [Paths -> Contents \cup {NoFile}]
    BY <1>1, <1>8, <2>1, <2>2 DEF ReceiverTypes
  <2> QED BY <2>1, <2>2, <2>3, TransferConstants
<1>11. /\ object' \in [Objects -> Object] /\ object'[o].got = got /\ object'[o].path = p /\ object'[o].open
       /\ \A u \in Objects : u # o => object'[u] = object[u]
  <2>1. PICK r : r = [object[o] EXCEPT !.got = got]
    OBVIOUS
  <2>2. r \in Object /\ r.got = got /\ r.path = p /\ r.open
    BY <1>3, <1>4, <1>5, <2>1 DEF Object
  <2>3. object'[o] = r /\ \A u \in Objects : u # o => object'[u] = object[u]
    BY <1>1, <1>8, <2>1 DEF ReceiverTypes
  <2> QED BY <1>1, <1>8, <2>2, <2>3 DEF ReceiverTypes
<1>12. OneOpen' /\ EntryFile'
  <2>1. OneOpen'
    BY <1>1, <1>5, <1>8, <1>11 DEF OneOpen
  <2>2. \A j \in Chunks : j \in got <=> file'[p][j] # "hole"
    BY <1>6, <1>7, <1>10, FileContents
  <2> QED BY <1>5, <1>8, <1>10, <1>11, <2>1, <2>2 DEF EntryFile
<1>13. \A g \in Handlers : ~Finisher(g)
  BY <1>1, <1>4, <1>5 DEF OneFinisher
<1>14. /\ handPc' \in [Handlers -> {"idle", "look", "init", "get", "write", "ack", "finalize"}]
       /\ handMsg' \in [Handlers -> Message]
       /\ handObj' \in [Handlers -> Objects \cup {0}]
       /\ handList' \in [Handlers -> SUBSET Chunks]
       /\ \A g \in Handlers : g # h => /\ handPc'[g] = handPc[g] /\ handObj'[g] = handObj[g]
                                       /\ handList'[g] = handList[g]
       /\ handPc'[h] = "idle" \/ (handPc'[h] = "ack" /\ handObj'[h] = o /\ handList'[h] = got)
  <2>1. CASE Goto(h, "ack") /\ handList' = [handList EXCEPT ![h] = got] /\ UNCHANGED <<handMsg, handObj>>
    BY <1>1, <1>3, <2>1 DEF Goto, ReceiverTypes
  <2>2. CASE Return(h)
    BY <1>1, <2>2, ChunkMessages DEF Return, Goto, ReceiverTypes
  <2> QED BY <1>8, <2>1, <2>2
<1>15. ReceiverTypes'
  BY <1>1, <1>8, <1>10, <1>11, <1>14 DEF ReceiverTypes, RowStatus
<1>16. HandlersHold' /\ OneFinisher'
  BY <1>1, <1>3, <1>5, <1>8, <1>11, <1>13, <1>14 DEF HandlersHold, OneFinisher, Finisher
<1>17. DeliveryStep
  <2>1. CASE p = "job"
    BY <1>6, <1>8, <1>10, <2>1 DEF DeliveryStep, Added
  <2>2. CASE p # "job"
    BY <1>8, <1>10, <2>2 DEF DeliveryStep, Untouched, Paths
  <2> QED BY <2>1, <2>2
<1> QED BY <1>9, <1>12, <1>15, <1>16, <1>17 DEF TransferInvariant, ReceiverInvariant


\* finalizeTransfer: what is delivered is what was announced.
LEMMA FinalizeStep ==
  ASSUME TransferInvariant, NEW h \in Handlers, finalizeTransfer(h)
  PROVE  TransferInvariant' /\ DeliveryStep
<1>1. /\ SenderInvariant /\ ReceiverInvariant /\ SenderTypes /\ ReceiverTypes /\ OneFinisher
  BY DEF TransferInvariant, SenderInvariant, ReceiverInvariant
<1>2. handPc[h] = "finalize" /\ Return(h) /\ sendPc \notin {"idle", "copy"}
      /\ UNCHANGED <<encrypted, sendPc, sendNext, sendRow, resumer, ackHeld, requests, chunkNet, ackNet, faults>>
  BY <1>1, Offered DEF finalizeTransfer, sender, network
<1>3. HandlersGoOn /\ handPc'[h] = "idle"
  BY <1>1, <1>2, Returns
<1>4. CASE entry = 0
  <2>1. UNCHANGED <<entry, object, disk, recvRow, jobRow>>
    BY <1>4 DEF finalizeTransfer
  <2>2. ReceiverInvariant'
    BY <1>1, <1>3, <2>1, HandlerGone
  <2>3. SenderInvariant'
    BY <1>1, <1>2, <2>1, SenderRests DEF SenderTypes
  <2> QED BY <1>2, <2>1, <2>2, <2>3 DEF TransferInvariant, DeliveryStep, Untouched, disk
<1>5. CASE entry # 0
  <2>1. PICK path : path = object[entry].path
    OBVIOUS
  <2>2. /\ Drop(entry) /\ file' = [file EXCEPT ![path] = NoFile]
        /\ \/ UNCHANGED <<placed, recvRow, jobRow>>
           \/ HashValid(entry) /\ ~Extracts(entry) /\ placed' = [placed EXCEPT ![path] = "none"] /\ UNCHANGED <<recvRow, jobRow>>
           \/ /\ HashValid(entry) /\ placed' = [placed EXCEPT ![path] = "whole"] /\ SetRecvStatus("completed")
              /\ jobRow' \in {"COMPLETED", jobRow}
    BY <1>5, <2>1 DEF finalizeTransfer
  <2>3. path \in Paths /\ placed' \in [Paths -> {"none", "whole", "garbled"}] /\ recvRow' \in RowStatus
        /\ jobRow' \in {"IDLE", "RUNNING", "COMPLETED"}
    <3>1. object[entry] \in Object
      BY <1>1, <1>5 DEF ReceiverTypes
    <3>2. path \in Paths
      BY <2>1, <3>1 DEF Object
    <3> QED BY <1>1, <2>2, <3>2 DEF ReceiverTypes, SenderTypes, SetRecvStatus, RowStatus
  <2>4. SenderInvariant'
    BY <1>1, <1>2, <2>3, SenderRests DEF SenderTypes
  <2>5. \A g \in Handlers : Finisher(g) => handPc'[g] = "idle"
    BY <1>1, <1>2, <1>3 DEF OneFinisher
  <2>6. ReceiverInvariant' /\ file'[path] = NoFile /\ \A q \in Paths : q # path => file'[q] = file[q]
    BY <1>1, <1>3, <1>5, <2>1, <2>2, <2>3, <2>5, DropKeeps
  <2>7. DeliveryStep
    <3>1. CASE path # "job"
      BY <1>1, <1>2, <2>2, <2>3, <2>6, <3>1 DEF DeliveryStep, Untouched, Paths, ReceiverTypes
    <3>2. CASE path = "job" /\ UNCHANGED placed
      BY <1>2, <2>6, <3>2 DEF DeliveryStep, Dropped
    <3>3. CASE path = "job" /\ HashValid(entry)
      <4>1. file["job"] = Uniform(wireForm) /\ Extracts(entry)
        BY <2>1, <3>3 DEF HashValid, Extracts, decryptFile
      <4>2. CASE UNCHANGED placed
        BY <3>2, <3>3, <4>2
      <4>3. CASE placed' = [placed EXCEPT ![path] = "whole"]
        BY <1>1, <1>2, <2>3, <2>6, <3>3, <4>1, <4>3 DEF DeliveryStep, Delivered, ReceiverTypes
      <4> QED BY <2>2, <4>1, <4>2, <4>3
    <3> QED BY <2>2, <3>1, <3>2, <3>3
  <2> QED BY <2>4, <2>6, <2>7 DEF TransferInvariant
<1> QED BY <1>4, <1>5

\* cleanupAbandonedTransfers and a crash of the receiver.
LEMMA LossSteps ==
  ASSUME TransferInvariant, cleanupAbandonedTransfers \/ ReceiverCrash \/ LoseChunk
  PROVE  TransferInvariant' /\ DeliveryStep
<1>1. /\ SenderInvariant /\ ReceiverInvariant /\ SenderTypes /\ ReceiverTypes /\ OneFinisher
  BY DEF TransferInvariant, SenderInvariant, ReceiverInvariant
<1>2. CASE cleanupAbandonedTransfers
  <2>1. /\ entry # 0 /\ ~Finishing /\ Drop(entry) /\ file' = [file EXCEPT ![object[entry].path] = NoFile]
        /\ SetRecvStatus("failed") /\ (faults' = faults \/ Fault)
        /\ UNCHANGED <<encrypted, sendPc, sendNext, sendRow, resumer, ackHeld, requests, chunkNet, ackNet,
                       placed, handPc, handMsg, handObj, handList, jobRow>>
    BY <1>2 DEF cleanupAbandonedTransfers, sender, network, handlers
  <2>2. sendPc \notin {"idle", "copy"}
    BY <1>1, <2>1 DEF SenderInvariant, Quiet
  <2>3. SenderInvariant'
    BY <1>1, <2>1, <2>2, SenderRests DEF SenderTypes
  <2>4. \A g \in Handlers : ~Finisher(g)
    BY <1>1, <2>1 DEF OneFinisher, Finisher, Finishing
  <2>5. HandlersGoOn /\ placed' \in [Paths -> {"none", "whole", "garbled"}] /\ recvRow' \in RowStatus
    BY <1>1, <2>1 DEF HandlersGoOn, ReceiverTypes, SetRecvStatus, RowStatus
  <2>6. /\ ReceiverInvariant' /\ object[entry].path \in Paths /\ file'[object[entry].path] = NoFile
        /\ \A q \in Paths : q # object[entry].path => file'[q] = file[q]
    BY <1>1, <2>1, <2>4, <2>5, DropKeeps
  <2>7. DeliveryStep
    <3>1. CASE object[entry].path = "job"
      BY <2>1, <2>6, <3>1 DEF DeliveryStep, Dropped
    <3>2. CASE object[entry].path # "job"
      BY <2>1, <2>6, <3>2 DEF DeliveryStep, Untouched, Paths
    <3> QED BY <3>1, <3>2
  <2> QED BY <2>3, <2>6, <2>7 DEF TransferInvariant
<1>3. CASE ReceiverCrash
  <2>1. /\ Fault /\ (entry # 0 \/ \E h \in Handlers : handPc[h] # "idle")
        /\ entry' = 0 /\ object' = [o \in Objects |-> NoObject]
        /\ handPc' = [h \in Handlers |-> "idle"] /\ handMsg' = [h \in Handlers |-> NoChunk]
        /\ handObj' = [h \in Handlers |-> 0] /\ handList' = [h \in Handlers |-> {}]
        /\ UNCHANGED <<encrypted, sendPc, sendNext, sendRow, resumer, ackHeld, requests, chunkNet, ackNet,
                       file, placed, recvRow, jobRow>>
    BY <1>3 DEF ReceiverCrash, sender, network, disk
  <2>2. sendPc \notin {"idle", "copy"}
    BY <1>1, <2>1 DEF SenderInvariant, Quiet
  <2>3. SenderInvariant'
    BY <1>1, <2>1, <2>2, SenderRests DEF SenderTypes
  <2>4. NoObject \in Object /\ NoObject.open = FALSE
    BY DEF NoObject, Object, Paths
  <2>5. ReceiverTypes'
    BY <1>1, <2>1, <2>4, ChunkMessages DEF ReceiverTypes
  <2>6. HandlersHold' /\ OneOpen' /\ EntryFile' /\ OneFinisher'
    BY <2>1, <2>4 DEF HandlersHold, OneOpen, EntryFile, OneFinisher, Finisher
  <2> QED BY <2>1, <2>3, <2>5, <2>6 DEF TransferInvariant, ReceiverInvariant, DeliveryStep, Untouched
<1>4. CASE LoseChunk
  <2>1. /\ Fault /\ chunkNet # {} /\ chunkNet' \subseteq chunkNet
        /\ UNCHANGED <<encrypted, sendPc, sendNext, sendRow, resumer, ackHeld, requests, ackNet, jobRow, receiver>>
    BY <1>4 DEF LoseChunk, sender, receiver
  <2>2. sendPc \notin {"idle", "copy"}
    BY <1>1, <2>1 DEF SenderInvariant, Quiet
  <2>3. SenderInvariant'
    BY <1>1, <2>1, <2>2, SenderRests DEF SenderTypes
  <2>4. ReceiverInvariant'
    BY <1>1, <2>1, ReceiverRests
  <2> QED BY <2>1, <2>3, <2>4 DEF TransferInvariant, DeliveryStep, Untouched, receiver, disk
<1> QED BY <1>2, <1>3, <1>4

\* Every step of the transfer keeps the invariant, and is a step of FileDelivery or none.
LEMMA TransferStep ==
  ASSUME TransferInvariant, [Next]_vars PROVE TransferInvariant' /\ DeliveryStep
<1>1. SenderInvariant /\ ReceiverInvariant
  BY DEF TransferInvariant
<1>2. ASSUME SenderInvariant', UNCHANGED <<receiver, encrypted>>
      PROVE  TransferInvariant' /\ DeliveryStep
  BY <1>1, <1>2, ReceiverRests DEF TransferInvariant, DeliveryStep, Untouched, receiver, disk
<1>3. CASE UNCHANGED vars
  <2>1. UNCHANGED <<receiver, encrypted>>
    BY <1>3 DEF vars, receiver
  <2>2. SenderInvariant'
    BY <1>1, <1>3 DEF vars, sender, resumer, network, disk, handlers, SenderInvariant, SenderTypes, RequestsCounted,
                      Quiet, Copying
  <2> QED BY <1>2, <2>1, <2>2
<1>4. CASE ExecuteDataService
  BY <1>1, <1>2, <1>4, LocalCopy, SendSteps DEF ExecuteDataService
<1>5. CASE Resume \/ checkAndResumeActiveTransfers \/ ReadAck \/ WriteAck \/ CheckIdleJob
  BY <1>1, <1>2, <1>5, ResumeSteps DEF Resume
<1>6. CASE Faulty
  BY <1>1, <1>2, <1>6, SendSteps, ResumeSteps, RequestSteps, LossSteps DEF Faulty
<1>7. CASE HandleJobDataTransferRequest \/ cleanupAbandonedTransfers
  BY <1>7, RequestSteps, LossSteps
<1>8. ASSUME NEW h \in Handlers, Handle(h) PROVE TransferInvariant' /\ DeliveryStep
  BY <1>8, ArrivalSteps, AnswerSteps, StoreChunkStep, FinalizeStep DEF Handle
<1> QED BY <1>3, <1>4, <1>5, <1>6, <1>7, <1>8 DEF Next

\* A step of either part.
LEMMA FilesStep == [FilesNext]_filesVars => [Next]_vars
BY DEF FilesNext, filesVars, Transfers, Uploads

\* The invariant of the transfer holds in every behaviour.
THEOREM TransfersHold == FilesSpec => []TransferInvariant
<1>1. FilesInit => TransferInvariant
  BY TransferInitially DEF FilesInit
<1>2. TransferInvariant /\ [FilesNext]_filesVars => TransferInvariant'
  BY FilesStep, TransferStep
<1> QED BY <1>1, <1>2, PTL DEF FilesSpec

\* A transfer in memory owns its file and its entry, for any number of chunks, handlers and
\* faults: no second initialisation, late chunk, cleanup or finalisation takes them away.
THEOREM TransfersOwned == FilesSpec => []TransfersAreOwned
<1>1. TransferInvariant => TransfersAreOwned
  <2> SUFFICES ASSUME ReceiverInvariant PROVE EntryOwnsItsFile /\ FinaliserOwnsEntry
    BY DEF TransferInvariant, TransfersAreOwned
  <2>1. EntryOwnsItsFile
    <3>1. entry # 0 => object[entry] \in Object
      BY DEF ReceiverInvariant, ReceiverTypes
    <3>2. entry # 0 => object[entry].got \subseteq Chunks
      BY <3>1 DEF Object
    <3> QED BY <3>2 DEF ReceiverInvariant, EntryFile, EntryOwnsItsFile
  <2>2. FinaliserOwnsEntry
    BY DEF ReceiverInvariant, OneFinisher, FinaliserOwnsEntry
  <2> QED BY <2>1, <2>2
<1> QED BY <1>1, TransfersHold, PTL

\* The transfer implements FileDelivery: the input of the job appears in one step, from an
\* archive whose every chunk is as announced, and stays.
THEOREM Delivers == FilesSpec => Delivery
<1>1. FilesInit => Abstract!Init
  BY DEF FilesInit, Init, Abstract!Init, Paths
<1>2. TransferInvariant /\ [FilesNext]_filesVars => [Abstract!Next]_(Abstract!vars)
  BY FilesStep, TransferStep, DeliverySteps
<1> QED BY <1>1, <1>2, TransfersHold, PTL DEF FilesSpec, Delivery, Abstract!Spec


-----------------------------------------------------------------------------
(* The upload.                                                              *)

\* The file the browser is at.  A session is live between its start and its completion; it is
\* over when it is completed, and stays so when the rows are deleted.
Current    == browser.file
Live(f)    == sessions[f].status \notin {"none", "COMPLETED"}
Over(f)    == sessions[f].status = "COMPLETED" \/ (sessions[f].status = "none" /\ packages # <<>>)
Started(f) == Live(f) \/ Over(f)

\* The turn of the stop and wait protocol, wherever it is: with the server's messages, with
\* the browser's, with a reader or with the handler.
ServerTurn(m)  == m.type \in {"start", "chunk"} \/ (m.type = "resume" /\ Live(m.sess))
BrowserTurn(m) == m.type = "complete" \/ (m.type = "progress" /\ m.received < UploadChunks)
ServerHas  == \E i \in DOMAIN toServer : ServerTurn(toServer[i])
BrowserHas == \E i \in DOMAIN toBrowser : BrowserTurn(toBrowser[i])
ReaderHas  == reading # <<>>
HandlerHas == handler.pc # "idle"

\* At most one has the turn, and once.
ServerOnce  == \A i, j \in DOMAIN toServer : ServerTurn(toServer[i]) /\ ServerTurn(toServer[j]) => i = j
BrowserOnce == \A i, j \in DOMAIN toBrowser : BrowserTurn(toBrowser[i]) /\ BrowserTurn(toBrowser[j]) => i = j
OneHolder ==
  /\ Len(reading) <= 1
  /\ ServerHas => ~BrowserHas /\ ~ReaderHas /\ ~HandlerHas
  /\ BrowserHas => ~ReaderHas /\ ~HandlerHas
  /\ ReaderHas => ~HandlerHas

\* What is asked for and sent is the chunk the file lacks.
NextChunk(d) == d = <<Current, Len(temp[Current])>> /\ Len(temp[Current]) < UploadChunks /\ Live(Current)

ToServerFits(m) ==
  /\ m.type = "start" => m.sess = Current /\ ~Started(Current) /\ browser.sess = 0
  /\ m.type = "chunk" => m.sess = Current /\ NextChunk(m.data)
  /\ m.type = "resume" => m.sess <= Current /\ Started(m.sess)
ToBrowserFits(m) ==
  /\ m.type = "progress" =>
       /\ m.sess = Current /\ Started(Current)
       /\ m.received < UploadChunks => m.received = Len(temp[Current]) /\ Live(Current)
  /\ m.type = "complete" => Over(Current)

ServerFits  == \A i \in DOMAIN toServer : ToServerFits(toServer[i])
BrowserFits == \A i \in DOMAIN toBrowser : ToBrowserFits(toBrowser[i])
BrowserOrder ==
  \A i, j \in DOMAIN toBrowser : i < j /\ toBrowser[i].type = "complete" => toBrowser[j].type # "progress"
ReadingFits == \A i \in DOMAIN reading : NextChunk(reading[i])
SessionFits == browser.sess # 0 => browser.sess = Current /\ Started(Current)

\* The file of the session, the count in memory and the one in the row.
RowFits(f) ==
  sessions[f].status # "none" =>
    /\ Len(temp[f]) <= UploadChunks
    /\ \A i \in DOMAIN temp[f] : temp[f][i] = <<f, i - 1>>
    /\ sessions[f].status = "COMPLETED" => Len(temp[f]) = UploadChunks
CurrentFits ==
  Live(Current) =>
    /\ handler.pc # "row" => sessions[Current].index = Len(temp[Current])
    /\ active[Current] >= 0 => active[Current] = Len(temp[Current])
FilesFit ==
  /\ \A f \in Files : f < Current => Over(f)
  /\ \A f \in Files : f > Current => ~Started(f)
  /\ \A f \in Files : RowFits(f)
  /\ CurrentFits

HandlerFits ==
  handler.pc # "idle" =>
    /\ handler.sess = Current /\ Live(Current) /\ active[Current] >= 0
    /\ handler.pc = "complete" => Len(temp[Current]) = UploadChunks

PackageFits ==
  /\ packager = "copy" => packages = <<>> /\ \A f \in Files : Over(f)
  /\ packager = "clean" => packages # <<>>
  /\ packages # <<>> => packages = <<Original>> /\ \A f \in Files : Over(f)

ToServerGood  == ServerOnce /\ ServerFits
ToBrowserGood == BrowserOnce /\ BrowserFits /\ BrowserOrder
Undisturbed ==
  /\ OneHolder /\ ToServerGood /\ ToBrowserGood
  /\ ReadingFits /\ SessionFits /\ FilesFit /\ HandlerFits /\ PackageFits

\* The types, whether disturbed or not: of the browser and the socket, and of the server.
SocketTypes ==
  /\ browser \in [file : Files, sess : 0..FileCount, next : 0..UploadChunks,
                  status : {"uploading", "paused", "completed", "error"}]
  /\ reading \in Seq(Chunk)
  /\ toServer \in Seq(ToServer) /\ toBrowser \in Seq(ToBrowser) /\ open \in BOOLEAN
HandlerType == [pc : {"idle", "row", "reply", "complete"}, sess : 0..FileCount]
RowType     == [status : {"none", "IN_PROGRESS", "PAUSED", "COMPLETED"}, index : Nat]
Data        == Seq(Chunk)
ActiveType   == [Files -> Nat \cup {-1}]
SessionsType == [Files -> RowType]
TempType     == [Files -> Data]
ServerTypes ==
  /\ handler \in HandlerType
  /\ active \in ActiveType /\ sessions \in SessionsType /\ temp \in TempType
  /\ packager \in {"idle", "copy", "clean"}
  /\ handler.pc # "idle" => handler.sess \in Files /\ active[handler.sess] >= 0
CountTypes ==
  commands \in 0..MaxCommands /\ uploadFaults \in 0..MaxUploadFaults /\ disturbed \in BOOLEAN
UploadTypes == SocketTypes /\ ServerTypes /\ CountTypes

UploadInvariant == UploadTypes /\ (disturbed \/ Undisturbed)


-----------------------------------------------------------------------------
(* What a queue becomes.                                                    *)

\* What is left of a queue is a suffix of it; what is added comes last.
Left(q, p)     == \E k \in {0, 1} : \A i \in DOMAIN q : i + k \in DOMAIN p /\ q[i] = p[i + k]
Added1(q, p, m) == \A i \in DOMAIN q : (i \in DOMAIN p /\ q[i] = p[i]) \/ (i \notin DOMAIN p /\ i = Len(p) + 1 /\ q[i] = m)

\* The operators on sequences the upload uses.
LEMMA Queues ==
  ASSUME NEW S, NEW q \in Seq(S)
  PROVE  /\ \A m \in S : /\ Append(q, m) \in Seq(S) /\ Len(Append(q, m)) = Len(q) + 1
                         /\ q \o <<m>> = Append(q, m) /\ Added1(Append(q, m), q, m) /\ Added1(q, q, m)
                         /\ Append(q, m)[Len(q) + 1] = m
                         /\ \A i \in DOMAIN q : i \in DOMAIN Append(q, m) /\ Append(q, m)[i] = q[i]
         /\ Left(q, q)
         /\ q # <<>> => /\ Tail(q) \in Seq(S) /\ Left(Tail(q), q) /\ 1 \in DOMAIN q /\ Head(q) = q[1] /\ Head(q) \in S
                        /\ \A i \in DOMAIN Tail(q) : i + 1 \in DOMAIN q /\ i + 1 # 1 /\ Tail(q)[i] = q[i + 1]
         /\ \A i \in DOMAIN q : q[i] \in S /\ i \in Nat
<1>1. ASSUME NEW m \in S
      PROVE  /\ Append(q, m) \in Seq(S) /\ Len(Append(q, m)) = Len(q) + 1
             /\ Append(q, m)[Len(q) + 1] = m
             /\ \A i \in DOMAIN q : i \in DOMAIN Append(q, m) /\ Append(q, m)[i] = q[i]
  OBVIOUS
<1>2. ASSUME NEW m \in S PROVE q \o <<m>> = Append(q, m)
  OBVIOUS
<1>3. ASSUME NEW m \in S PROVE Added1(Append(q, m), q, m) /\ Added1(q, q, m)
  BY DEF Added1
<1>4. Left(q, q)
  <2>1. \A i \in DOMAIN q : i + 0 \in DOMAIN q /\ q[i] = q[i + 0]
    OBVIOUS
  <2> QED BY <2>1 DEF Left
<1>5. ASSUME q # <<>>
      PROVE  /\ Tail(q) \in Seq(S) /\ 1 \in DOMAIN q /\ Head(q) = q[1] /\ Head(q) \in S
             /\ \A i \in DOMAIN Tail(q) : i + 1 \in DOMAIN q /\ i + 1 # 1 /\ Tail(q)[i] = q[i + 1]
  BY <1>5
<1>6. q # <<>> => Left(Tail(q), q)
  BY <1>5 DEF Left
<1> QED BY <1>1, <1>2, <1>3, <1>4, <1>5, <1>6

\* The constants of the upload.
LEMMA UploadConstants ==
  /\ FileCount \in Nat \ {0} /\ UploadChunks \in Nat \ {0} /\ MaxCommands \in Nat /\ MaxUploadFaults \in Nat
  /\ 1 \in Files /\ \A f \in Files : f \in Nat /\ f # 0 /\ f <= FileCount /\ f \in 0..FileCount
  /\ \A f \in Files : f < FileCount => f + 1 \in Files
  /\ \A f \in 0..FileCount : f # 0 => f \in Files
  /\ \A n \in Nat : n < UploadChunks => n \in 0..UploadChunks
  /\ 0 \in 0..FileCount /\ 0 \in 0..UploadChunks
BY UploadConstantsAssumption DEF Files

\* The messages, and the chunks.
LEMMA UploadMessages ==
  /\ \A f \in Files, n \in Nat : n < UploadChunks => <<f, n>> \in Chunk
  /\ \A f \in Files : /\ \A t \in {"start", "pause", "resume"} : [type |-> t, sess |-> f] \in ToServer
                      /\ \A d \in Chunk : [type |-> "chunk", sess |-> f, data |-> d] \in ToServer
                      /\ \A n \in Nat : [type |-> "progress", sess |-> f, received |-> n] \in ToBrowser
                      /\ \A t \in {"complete", "error"} : [type |-> t, sess |-> f] \in ToBrowser
  /\ \A m \in ToServer : m.sess \in Files /\ (m.type = "chunk" => m.data \in Chunk)
  /\ \A m \in ToBrowser : m.sess \in Files /\ (m.type = "progress" => m.received \in Nat)
  /\ \A d \in Chunk : d[1] \in Files /\ d[2] \in Nat
<1>1. \A f \in Files, n \in Nat : n < UploadChunks => <<f, n>> \in Chunk
  BY UploadConstants DEF Chunk
<1>2. \A d \in Chunk : d[1] \in Files /\ d[2] \in Nat
  BY UploadConstants DEF Chunk
<1> QED BY <1>1, <1>2 DEF ToServer, ToBrowser


-----------------------------------------------------------------------------
(* The types of the upload.                                                 *)

server == <<handler, active, sessions, temp, packager>>

\* What is counted.
LEMMA CountsStep == CountTypes /\ UploadNext => CountTypes'
<1>1. CountTypes /\ Command => commands' \in 0..MaxCommands
  BY UploadConstants DEF CountTypes, Command
<1>2. CountTypes /\ UploadFault => uploadFaults' \in 0..MaxUploadFaults
  BY UploadConstants DEF CountTypes, UploadFault
<1>3. UploadNext => commands' = commands \/ Command
  BY DEF UploadNext, Protocol, onProgress, onComplete, onError, onload, HandleFileUploadStart,
         HandleFileUploadChunk, UpdateUploadSession, SendProgress, completeUpload, HandleFileUploadPause,
         HandleFileUploadResume, HandleCommand, ProcessUploadedFile, DeleteUploadSession, scheduleReconnect,
         pause, resume, cancel, ConnectionLost, ServerCrash
<1>4. UploadNext => uploadFaults' = uploadFaults \/ UploadFault
  BY DEF UploadNext, Protocol, onProgress, onComplete, onError, onload, HandleFileUploadStart,
         HandleFileUploadChunk, UpdateUploadSession, SendProgress, completeUpload, HandleFileUploadPause,
         HandleFileUploadResume, HandleCommand, ProcessUploadedFile, DeleteUploadSession, scheduleReconnect,
         pause, resume, cancel, ConnectionLost, ServerCrash
<1>5. CountTypes /\ UploadNext => disturbed' \in BOOLEAN
  BY DEF UploadNext, Protocol, onProgress, onComplete, onError, onload, HandleFileUploadStart,
         HandleFileUploadChunk, UpdateUploadSession, SendProgress, completeUpload, HandleFileUploadPause,
         HandleFileUploadResume, HandleCommand, ProcessUploadedFile, DeleteUploadSession, scheduleReconnect,
         pause, resume, cancel, ConnectionLost, ServerCrash, CountTypes
<1> QED BY <1>1, <1>2, <1>3, <1>4, <1>5 DEF CountTypes

\* A browser that sends, and a server that sends.
LEMMA SentTypes ==
  ASSUME SocketTypes
  PROVE  /\ \A m \in ToServer : send(m) => toServer' \in Seq(ToServer)
         /\ \A m \in ToBrowser : SendToBrowser(<<m>>) => toBrowser' \in Seq(ToBrowser)
         /\ toServer # <<>> => Tail(toServer) \in Seq(ToServer) /\ Head(toServer) \in ToServer
         /\ toBrowser # <<>> => Tail(toBrowser) \in Seq(ToBrowser) /\ Head(toBrowser) \in ToBrowser
         /\ \A i \in DOMAIN reading : reading[i] \in Chunk /\ RemoveAt(reading, i) \in Seq(Chunk)
         /\ \A d \in Chunk : Append(reading, d) \in Seq(Chunk)
<1>1. \A i \in DOMAIN reading : reading[i] \in Chunk /\ RemoveAt(reading, i) \in Seq(Chunk)
  BY DEF SocketTypes, RemoveAt
<1>2. /\ \A m \in ToServer : Append(toServer, m) \in Seq(ToServer)
      /\ \A m \in ToBrowser : toBrowser \o <<m>> \in Seq(ToBrowser)
      /\ \A d \in Chunk : Append(reading, d) \in Seq(Chunk)
  BY DEF SocketTypes
<1>3. /\ toServer # <<>> => Tail(toServer) \in Seq(ToServer) /\ Head(toServer) \in ToServer
      /\ toBrowser # <<>> => Tail(toBrowser) \in Seq(ToBrowser) /\ Head(toBrowser) \in ToBrowser
  BY DEF SocketTypes
<1> QED BY <1>1, <1>2, <1>3 DEF send, SendToBrowser, SocketTypes

\* The steps of the browser.
LEMMA PageTypes ==
  ASSUME SocketTypes, ServerTypes,
         onProgress \/ onComplete \/ onError \/ (\E i \in DOMAIN reading : onload(i)) \/ pause \/ resume \/ cancel
  PROVE  SocketTypes' /\ ServerTypes'
<1>1. UNCHANGED server
  BY DEF onProgress, onComplete, onError, onload, pause, resume, cancel, socket, server, serverMem, uploadDisk
<1>2. ServerTypes'
  BY <1>1 DEF server, ServerTypes
<1>3. browser.file \in Files /\ (browser.sess # 0 => browser.sess \in Files)
  BY UploadConstants DEF SocketTypes
<1>4. CASE onProgress
  <2> DEFINE p == Head(toBrowser)
  <2>1. p \in ToBrowser /\ p.sess \in Files /\ p.received \in Nat /\ toBrowser' \in Seq(ToBrowser)
    BY <1>4, SentTypes, UploadMessages DEF onProgress, Hears
  <2>2. p.received < UploadChunks =>
          Append(reading, <<browser.file, p.received>>) \in Seq(Chunk) /\ p.received \in 0..UploadChunks
    BY <1>3, <2>1, SentTypes, UploadMessages, UploadConstants
  <2>3. p.sess \in 0..FileCount
    BY <2>1, UploadConstants
  <2> HIDE DEF p
  <2>4. /\ reading' = reading \/ (reading' = Append(reading, <<browser.file, p.received>>) /\ p.received < UploadChunks)
        /\ toServer' = toServer /\ open' = open
    <3>1. toServer' = toServer /\ open' = open
      BY <1>4 DEF onProgress
    <3>2. CASE Listening
      BY <1>4, <3>1, <3>2 DEF onProgress, p
    <3>3. CASE ~Listening
      BY <1>4, <3>1, <3>3 DEF onProgress, p
    <3> QED BY <3>2, <3>3
  <2>5. browser' \in [file : Files, sess : 0..FileCount, next : 0..UploadChunks,
                      status : {"uploading", "paused", "completed", "error"}]
    <3> DEFINE more == p.received < UploadChunks /\ browser.status = "uploading"
    <3>1. (IF more THEN p.received ELSE browser.next) \in 0..UploadChunks
      BY <2>2 DEF SocketTypes
    <3>2. browser' = browser \/ browser' = [browser EXCEPT !.sess = p.sess, !.next = IF more THEN p.received ELSE @]
      BY <1>4 DEF onProgress, p
    <3> HIDE DEF more
    <3> QED BY <2>3, <3>1, <3>2 DEF SocketTypes
  <2> QED BY <1>2, <2>1, <2>2, <2>4, <2>5 DEF SocketTypes
<1>5. CASE onComplete
  <2>1. toBrowser' \in Seq(ToBrowser) /\ reading' = reading /\ open' = open
    BY <1>5, SentTypes DEF onComplete, Hears
  <2>2. browser.file < FileCount => browser.file + 1 \in Files
    BY <1>3, UploadConstants
  <2>3. browser.file < FileCount => [type |-> "start", sess |-> browser.file + 1] \in ToServer
    BY <2>2, UploadMessages
  <2>4. toServer' \in Seq(ToServer)
    BY <1>5, <2>3, SentTypes DEF onComplete, SocketTypes
  <2>5. browser' \in [file : Files, sess : 0..FileCount, next : 0..UploadChunks,
                      status : {"uploading", "paused", "completed", "error"}]
    <3>1. \/ browser' = [file |-> browser.file + 1, sess |-> 0, next |-> 0, status |-> "uploading"]
             /\ browser.file < FileCount
          \/ browser' = [browser EXCEPT !.sess = 0, !.status = "completed"]
          \/ browser' = browser
      BY <1>5 DEF onComplete
    <3>2. 0 \in 0..FileCount /\ 0 \in 0..UploadChunks
      BY UploadConstants
    <3>3. CASE browser.file < FileCount
               /\ browser' = [file |-> browser.file + 1, sess |-> 0, next |-> 0, status |-> "uploading"]
      BY <2>2, <3>2, <3>3
    <3>4. CASE browser' = [browser EXCEPT !.sess = 0, !.status = "completed"] \/ browser' = browser
      BY <3>2, <3>4 DEF SocketTypes
    <3> QED BY <3>1, <3>3, <3>4
  <2> QED BY <1>2, <2>1, <2>4, <2>5 DEF SocketTypes
<1>6. CASE onError \/ cancel
  <2>1. toBrowser' \in Seq(ToBrowser) /\ reading' = reading /\ open' = open /\ toServer' = toServer
    BY <1>6, SentTypes DEF onError, cancel, Hears, socket, SocketTypes
  <2>2. browser' \in [file : Files, sess : 0..FileCount, next : 0..UploadChunks,
                      status : {"uploading", "paused", "completed", "error"}]
    BY <1>6, UploadConstants DEF onError, cancel, SocketTypes
  <2> QED BY <1>2, <2>1, <2>2 DEF SocketTypes
<1>7. CASE pause \/ resume
  <2>1. \A t \in {"pause", "resume"} : send([type |-> t, sess |-> browser.sess]) /\ browser.sess # 0
                                        => toServer' \in Seq(ToServer)
    BY <1>3, UploadMessages, SentTypes
  <2>2. toServer' \in Seq(ToServer)
    BY <1>7, <2>1 DEF pause, resume
  <2>3. browser' \in [file : Files, sess : 0..FileCount, next : 0..UploadChunks,
                      status : {"uploading", "paused", "completed", "error"}]
    BY <1>7 DEF pause, resume, SocketTypes
  <2> QED BY <1>2, <1>7, <2>2, <2>3 DEF SocketTypes, pause, resume
<1>8. ASSUME NEW i \in DOMAIN reading, onload(i) PROVE SocketTypes' /\ ServerTypes'
  <2>1. browser.sess # 0 => [type |-> "chunk", sess |-> browser.sess, data |-> reading[i]] \in ToServer
    BY <1>3, <1>8, SentTypes, UploadMessages
  <2>2. toServer' \in Seq(ToServer)
    BY <1>8, <2>1, SentTypes DEF onload, SocketTypes
  <2> QED BY <1>2, <1>8, <2>2, SentTypes DEF SocketTypes, onload
<1> QED BY <1>4, <1>5, <1>6, <1>7, <1>8


\* What the server keeps of a file.
LEMMA ServerValues ==
  /\ \A f \in Files, pc \in {"idle", "row", "reply", "complete"} :
       /\ [pc |-> pc, sess |-> f] \in HandlerType
       /\ [pc |-> pc, sess |-> f].pc = pc /\ [pc |-> pc, sess |-> f].sess = f
  /\ [pc |-> "idle", sess |-> 0] \in HandlerType /\ [pc |-> "idle", sess |-> 0].pc = "idle"
  /\ NoRow \in RowType /\ [status |-> "IN_PROGRESS", index |-> 0] \in RowType
  /\ \A r \in RowType : r.status \in {"none", "IN_PROGRESS", "PAUSED", "COMPLETED"} /\ r.index \in Nat
  /\ \A h \in HandlerType : h.pc # "idle" => h.pc \in {"row", "reply", "complete"}
  /\ <<>> \in Data /\ \A s \in Data, d \in Chunk : Append(s, d) \in Data
<1>1. \A f \in Files : f \in 0..FileCount
  BY UploadConstants
<1>2. 0 \in 0..FileCount
  BY UploadConstants
<1> QED BY <1>1, <1>2 DEF HandlerType, RowType, Data, NoRow

\* An entry of the server's tables.
LEMMA ServerEntry ==
  ASSUME ServerTypes, NEW f \in Files
  PROVE  /\ sessions[f].status \in {"none", "IN_PROGRESS", "PAUSED", "COMPLETED"} /\ sessions[f].index \in Nat
         /\ temp[f] \in Data /\ active[f] \in Nat \cup {-1} /\ (active[f] >= 0 => active[f] \in Nat)
BY DEF ServerTypes, ActiveType, SessionsType, TempType, RowType

\* The count in memory is written.
LEMMA ActiveUpdate ==
  ASSUME active \in ActiveType, NEW f \in Files, NEW n \in Nat \cup {-1}, active' = [active EXCEPT ![f] = n]
  PROVE  active' \in ActiveType /\ active'[f] = n
BY DEF ActiveType
\* A row is written, whole or in part.
LEMMA RowUpdate ==
  ASSUME sessions \in SessionsType, NEW f \in Files,
         NEW st \in {"none", "IN_PROGRESS", "PAUSED", "COMPLETED"}, NEW n \in Nat,
         \/ sessions' = [sessions EXCEPT ![f] = [status |-> st, index |-> n]]
         \/ sessions' = [sessions EXCEPT ![f].status = st]
         \/ sessions' = [sessions EXCEPT ![f].index = n]
  PROVE  sessions' \in SessionsType
BY DEF SessionsType, RowType
\* A temporary file is written.
LEMMA TempUpdate ==
  ASSUME temp \in TempType, NEW f \in Files, NEW s \in Data, temp' = [temp EXCEPT ![f] = s]
  PROVE  temp' \in TempType
BY DEF TempType

\* The steps of the server that take a message.
LEMMA MessageTypes ==
  ASSUME SocketTypes, ServerTypes,
         HandleFileUploadStart \/ HandleFileUploadChunk \/ HandleFileUploadPause \/ HandleFileUploadResume
  PROVE  SocketTypes' /\ ServerTypes'
<1> DEFINE m == Head(toServer)
           f == m.sess
<1>1. /\ handler.pc = "idle" /\ toServer' = Tail(toServer) /\ toServer # <<>>
      /\ browser' = browser /\ reading' = reading /\ open' = open /\ packager' = packager
  BY DEF HandleFileUploadStart, HandleFileUploadChunk, HandleFileUploadPause, HandleFileUploadResume, HandleCommand,
         Takes, serverMem
<1>2. m \in ToServer /\ f \in Files
  BY <1>1, SentTypes, UploadMessages
<1>3. /\ [type |-> "progress", sess |-> f, received |-> 0] \in ToBrowser
      /\ [type |-> "error", sess |-> f] \in ToBrowser
      /\ \A n \in Nat : [type |-> "progress", sess |-> f, received |-> n] \in ToBrowser
  BY <1>2, UploadMessages
<1>4. /\ sessions[f].index \in Nat /\ temp[f] \in Data
      /\ active[f] \in Nat \cup {-1} /\ (active[f] >= 0 => active[f] \in Nat)
  BY <1>2, ServerEntry
<1>5. toServer' \in Seq(ToServer)
  BY <1>1, SentTypes
<1>6. active \in ActiveType /\ sessions \in SessionsType /\ temp \in TempType /\ <<>> \in Data
  BY ServerValues DEF ServerTypes
<1>7. ASSUME active' \in ActiveType, sessions' \in SessionsType, temp' \in TempType, handler' = handler
      PROVE  ServerTypes'
  BY <1>1, <1>7 DEF ServerTypes
<1>8. CASE HandleFileUploadStart
  <2>1. toBrowser' \in Seq(ToBrowser)
    BY <1>3, <1>8, SentTypes DEF HandleFileUploadStart
  <2>2. temp' = temp \/ temp' = [temp EXCEPT ![f] = <<>>]
    BY <1>8 DEF HandleFileUploadStart
  <2>3. sessions' = sessions \/ sessions' = [sessions EXCEPT ![f] = [status |-> "IN_PROGRESS", index |-> 0]]
    BY <1>8 DEF HandleFileUploadStart, CreateUploadSession
  <2>4. active' = active \/ active' = [active EXCEPT ![f] = 0]
    BY <1>8 DEF HandleFileUploadStart
  <2>5. handler' = handler
    BY <1>8 DEF HandleFileUploadStart
  <2> HIDE DEF f, m
  <2>6. temp' \in TempType
    BY <1>2, <1>6, <2>2, TempUpdate
  <2>7. sessions' \in SessionsType
    BY <1>2, <1>6, <2>3, RowUpdate
  <2>8. active' \in ActiveType
    BY <1>2, <1>6, <2>4, ActiveUpdate
  <2> QED BY <1>1, <1>5, <1>7, <2>1, <2>5, <2>6, <2>7, <2>8 DEF SocketTypes
<1>9. CASE HandleFileUploadChunk
  <2> DEFINE n == IF active[f] >= 0 THEN active[f] ELSE sessions[f].index
             k == n + 1
             s == Append(temp[f], m.data)
  <2>1. n \in Nat /\ k \in Nat /\ k >= 0
    BY <1>4
  <2>2. m.data \in Chunk
    <3>1. m.type = "chunk"
      BY <1>9 DEF HandleFileUploadChunk, Takes
    <3> QED BY <1>2, <3>1, UploadMessages
  <2>3. s \in Data
    BY <1>4, <2>2, ServerValues
  <2>4. toBrowser' \in Seq(ToBrowser)
    BY <1>3, <1>9, SentTypes DEF HandleFileUploadChunk, SocketTypes
  <2>5. /\ sessions' = sessions
        /\ \/ /\ temp' = [temp EXCEPT ![f] = s]
              /\ active' = [active EXCEPT ![f] = k]
              /\ handler' = [pc |-> "row", sess |-> f]
           \/ /\ temp' = temp /\ handler' = handler
              /\ active' = active \/ active' = [active EXCEPT ![f] = n]
    BY <1>9 DEF HandleFileUploadChunk, WriteAtEnd, Become, restoreSession
  <2> HIDE DEF k, n, s, f, m
  <2>6. temp' \in TempType
    BY <1>2, <1>6, <2>3, <2>5, TempUpdate
  <2>7. active' \in ActiveType /\ (active' = [active EXCEPT ![f] = k] => active'[f] >= 0)
    BY <1>2, <1>6, <2>1, <2>5, ActiveUpdate
  <2>8. CASE handler' = handler
    BY <1>1, <1>5, <1>6, <1>7, <2>4, <2>5, <2>6, <2>7, <2>8 DEF SocketTypes
  <2>9. CASE handler' = [pc |-> "row", sess |-> f] /\ active' = [active EXCEPT ![f] = k]
    <3>1. handler' \in HandlerType /\ handler'.sess = f
      BY <1>2, <2>9, ServerValues
    <3>2. ServerTypes'
      BY <1>1, <1>2, <1>6, <2>5, <2>6, <2>7, <2>9, <3>1 DEF ServerTypes
    <3> QED BY <1>1, <1>5, <2>4, <3>2 DEF SocketTypes
  <2> QED BY <2>5, <2>8, <2>9
<1>10. CASE HandleFileUploadPause \/ HandleFileUploadResume
  <2>1. toBrowser' \in Seq(ToBrowser)
    BY <1>3, <1>4, <1>10, SentTypes DEF HandleFileUploadPause, HandleFileUploadResume, HandleCommand, SocketTypes
  <2>2. /\ temp' = temp /\ active' = active /\ handler' = handler
        /\ \/ sessions' = sessions
           \/ \E st \in {"IN_PROGRESS", "PAUSED"} : sessions' = [sessions EXCEPT ![f].status = st]
    BY <1>10 DEF HandleFileUploadPause, HandleFileUploadResume, HandleCommand, serverMem
  <2> HIDE DEF f, m
  <2>3. sessions' \in SessionsType
    BY <1>2, <1>6, <2>2, RowUpdate
  <2> QED BY <1>1, <1>5, <1>6, <1>7, <2>1, <2>2, <2>3 DEF SocketTypes
<1> QED BY <1>8, <1>9, <1>10

\* The other steps of the server, and the faults.
LEMMA ServerStepTypes ==
  ASSUME SocketTypes, ServerTypes,
         \/ UpdateUploadSession \/ SendProgress \/ completeUpload \/ ProcessUploadedFile \/ DeleteUploadSession
         \/ scheduleReconnect \/ ConnectionLost \/ ServerCrash
  PROVE  SocketTypes' /\ ServerTypes'
<1> DEFINE f == handler.sess
<1>1. browser' = browser /\ reading' = reading
  BY DEF UpdateUploadSession, SendProgress, completeUpload, ProcessUploadedFile, DeleteUploadSession,
         scheduleReconnect, ConnectionLost, ServerCrash
<1>2. <<>> \in Seq(ToServer) /\ <<>> \in Seq(ToBrowser)
  OBVIOUS
<1>3. handler.pc # "idle" => f \in Files /\ active[f] \in Nat /\ active[f] >= 0
  <2>1. handler.pc # "idle" => f \in Files /\ active[f] >= 0
    BY DEF ServerTypes
  <2> QED BY <2>1, ServerEntry
<1>4. active \in ActiveType /\ sessions \in SessionsType /\ temp \in TempType /\ packager \in {"idle", "copy", "clean"}
  BY DEF ServerTypes
<1>5. CASE UpdateUploadSession
  <2>1. /\ handler.pc = "row" /\ handler' = [pc |-> "reply", sess |-> f]
        /\ sessions' = sessions \/ sessions' = [sessions EXCEPT ![f].index = active[f]]
        /\ active' = active /\ temp' = temp /\ packager' = packager
        /\ toServer' = toServer /\ toBrowser' = toBrowser /\ open' = open
    BY <1>5 DEF UpdateUploadSession, Become, socket
  <2> HIDE DEF f
  <2>2. handler' \in HandlerType /\ handler'.sess = f
    BY <1>3, <2>1, ServerValues
  <2>3. sessions' \in SessionsType
    BY <1>3, <1>4, <2>1, RowUpdate
  <2>4. ServerTypes'
    BY <1>3, <1>4, <2>1, <2>2, <2>3 DEF ServerTypes
  <2> QED BY <1>1, <2>1, <2>4 DEF SocketTypes
<1>6. CASE SendProgress
  <2>1. [type |-> "progress", sess |-> f, received |-> active[f]] \in ToBrowser
    BY <1>3, <1>6, UploadMessages DEF SendProgress
  <2>2. /\ handler.pc = "reply"
        /\ handler' = [pc |-> "complete", sess |-> f] \/ handler' = [pc |-> "idle", sess |-> 0]
        /\ sessions' = sessions /\ active' = active /\ temp' = temp /\ packager' = packager
        /\ toServer' = toServer /\ open' = open
    BY <1>6 DEF SendProgress, Become, uploadDisk
  <2>3. toBrowser' \in Seq(ToBrowser)
    BY <1>6, <2>1, SentTypes DEF SendProgress
  <2> HIDE DEF f
  <2>4. handler' \in HandlerType /\ (handler'.pc # "idle" => handler'.sess = f)
    <3>1. CASE handler' = [pc |-> "complete", sess |-> f]
      BY <1>3, <2>2, <3>1, ServerValues
    <3>2. CASE handler' = [pc |-> "idle", sess |-> 0]
      BY <3>2, ServerValues
    <3> QED BY <2>2, <3>1, <3>2
  <2>5. ServerTypes'
    BY <1>3, <1>4, <2>2, <2>4 DEF ServerTypes
  <2> QED BY <1>1, <2>2, <2>3, <2>5 DEF SocketTypes
<1>7. CASE completeUpload
  <2>1. [type |-> "complete", sess |-> f] \in ToBrowser
    BY <1>3, <1>7, UploadMessages DEF completeUpload
  <2>2. /\ handler.pc = "complete" /\ handler' = [pc |-> "idle", sess |-> 0]
        /\ sessions' = [sessions EXCEPT ![f].status = "COMPLETED"]
        /\ active' = [active EXCEPT ![f] = -1]
        /\ packager' \in {"copy", packager}
        /\ toServer' = toServer /\ open' = open /\ temp' = temp
    BY <1>7 DEF completeUpload, Become, ProcessGroup
  <2>3. toBrowser' \in Seq(ToBrowser)
    BY <1>7, <2>1, SentTypes DEF completeUpload
  <2> HIDE DEF f
  <2>4. handler' \in HandlerType /\ handler'.pc = "idle"
    BY <2>2, ServerValues
  <2>5. sessions' \in SessionsType
    BY <1>3, <1>4, <2>2, RowUpdate
  <2>6. active' \in ActiveType
    BY <1>3, <1>4, <2>2, ActiveUpdate
  <2>7. ServerTypes'
    BY <1>4, <2>2, <2>4, <2>5, <2>6 DEF ServerTypes
  <2> QED BY <1>1, <2>2, <2>3, <2>7 DEF SocketTypes
<1>8. CASE ProcessUploadedFile \/ DeleteUploadSession
  <2>1. SocketTypes'
    BY <1>1, <1>8 DEF ProcessUploadedFile, DeleteUploadSession, socket, SocketTypes
  <2>2. /\ handler' = handler /\ active' = active /\ packager' \in {packager, "idle", "clean"}
        /\ sessions' = sessions \/ sessions' = [g \in Files |-> NoRow]
        /\ temp' = temp \/ temp' = [g \in Files |-> <<>>]
    BY <1>8 DEF ProcessUploadedFile, DeleteUploadSession
  <2>3. sessions' \in SessionsType /\ temp' \in TempType
    BY <1>4, <2>2, ServerValues DEF SessionsType, TempType
  <2> QED BY <2>1, <2>2, <2>3 DEF ServerTypes
<1>9. CASE scheduleReconnect \/ ConnectionLost
  <2>1. UNCHANGED server
    BY <1>9 DEF scheduleReconnect, ConnectionLost, serverMem, uploadDisk, server
  <2> QED BY <1>1, <1>2, <1>9, <2>1 DEF SocketTypes, ServerTypes, server, scheduleReconnect, ConnectionLost, CloseSocket
<1>10. CASE ServerCrash
  <2>1. SocketTypes'
    BY <1>1, <1>2, <1>10 DEF ServerCrash, CloseSocket, SocketTypes
  <2>2. active' \in ActiveType /\ sessions' = sessions /\ temp' = temp /\ packager' = "idle"
    BY <1>10 DEF ServerCrash, uploadDisk, ActiveType
  <2>3. handler' \in HandlerType /\ handler'.pc = "idle"
    BY <1>10, ServerValues DEF ServerCrash
  <2> QED BY <1>4, <2>1, <2>2, <2>3 DEF ServerTypes
<1> QED BY <1>5, <1>6, <1>7, <1>8, <1>9, <1>10

\* Every step of the upload keeps the types.
LEMMA UploadTypesStep == UploadTypes /\ [UploadNext]_uploadVars => UploadTypes'
<1>1. UploadTypes /\ UploadNext => UploadTypes'
  BY CountsStep, PageTypes, MessageTypes, ServerStepTypes DEF UploadTypes, UploadNext, Protocol
<1>2. UploadTypes /\ UNCHANGED uploadVars => UploadTypes'
  BY DEF UploadTypes, SocketTypes, ServerTypes, CountTypes, uploadVars, socket, serverMem, uploadDisk
<1> QED BY <1>1, <1>2


-----------------------------------------------------------------------------
(* The queues of the undisturbed upload.                                    *)

\* The server's queue, when some of it is left.
LEMMA ServerQueueLeft ==
  ASSUME SocketTypes, SocketTypes', ToServerGood, Left(toServer', toServer),
         \A m \in ToServer : ToServerFits(m) /\ (ServerTurn(m) => ServerHas)
                             => ToServerFits(m)' /\ (ServerTurn(m)' => ServerTurn(m))
  PROVE  ToServerGood' /\ (ServerHas' => ServerHas)
<1>1. PICK k \in {0, 1} : \A i \in DOMAIN toServer' : i + k \in DOMAIN toServer /\ toServer'[i] = toServer[i + k]
  BY DEF Left
<1>2. \A i \in DOMAIN toServer : toServer[i] \in ToServer
  BY Queues DEF SocketTypes
<1>3. \A i \in DOMAIN toServer : ToServerFits(toServer[i]) /\ (ServerTurn(toServer[i]) => ServerHas)
  BY DEF ToServerGood, ServerFits, ServerHas
<1>4. ASSUME NEW i \in DOMAIN toServer'
      PROVE  \E m \in ToServer : m = toServer'[i] /\ m = toServer[i + k] /\ ToServerFits(m)'
                                 /\ (ServerTurn(m)' => ServerTurn(m))
  BY <1>1, <1>2, <1>3
<1>5. ASSUME NEW i \in DOMAIN toServer'
      PROVE  ToServerFits(toServer[i])' /\ (ServerTurn(toServer[i])' => ServerTurn(toServer[i + k]))
  BY <1>1, <1>4 DEF ToServerFits, ServerTurn, Live, Started, Over, NextChunk
<1>6. \A i \in DOMAIN toServer' : i \in Nat
  BY Queues DEF SocketTypes
<1>7. ServerFits'
  BY <1>5 DEF ServerFits
<1>8. ServerOnce'
  <2> SUFFICES ASSUME NEW i \in DOMAIN toServer', NEW j \in DOMAIN toServer',
                      ServerTurn(toServer[i])', ServerTurn(toServer[j])'
               PROVE  i = j
    BY DEF ServerOnce
  <2>1. i + k \in DOMAIN toServer /\ j + k \in DOMAIN toServer
        /\ ServerTurn(toServer[i + k]) /\ ServerTurn(toServer[j + k])
    BY <1>1, <1>5
  <2>2. i + k = j + k
    BY <2>1 DEF ToServerGood, ServerOnce
  <2> QED BY <1>6, <2>2
<1>9. ServerHas' => ServerHas
  BY <1>1, <1>5 DEF ServerHas
<1> QED BY <1>7, <1>8, <1>9 DEF ToServerGood


\* The server's queue, when the message that had the turn is taken.
LEMMA ServerQueueTaken ==
  ASSUME SocketTypes, SocketTypes', ToServerGood, toServer # <<>>, toServer' = Tail(toServer), ServerTurn(Head(toServer)),
         \A m \in ToServer : ToServerFits(m) /\ ~ServerTurn(m) => ToServerFits(m)' /\ ~ServerTurn(m)'
  PROVE  ToServerGood' /\ ~ServerHas'
<1>1. /\ 1 \in DOMAIN toServer /\ Head(toServer) = toServer[1]
      /\ \A i \in DOMAIN toServer' : i + 1 \in DOMAIN toServer /\ i + 1 # 1 /\ toServer'[i] = toServer[i + 1]
      /\ \A i \in DOMAIN toServer : toServer[i] \in ToServer
  BY Queues DEF SocketTypes
<1>2. \A i \in DOMAIN toServer : ToServerFits(toServer[i]) /\ (i # 1 => ~ServerTurn(toServer[i]))
  BY <1>1 DEF ToServerGood, ServerFits, ServerOnce
<1>3. ASSUME NEW i \in DOMAIN toServer'
      PROVE  \E m \in ToServer : m = toServer'[i] /\ ToServerFits(m)' /\ ~ServerTurn(m)'
  BY <1>1, <1>2
<1>4. ASSUME NEW i \in DOMAIN toServer'
      PROVE  ToServerFits(toServer[i])' /\ ~ServerTurn(toServer[i])'
  BY <1>3 DEF ToServerFits, ServerTurn, Live, Started, Over, NextChunk
<1>5. ServerFits' /\ ServerOnce' /\ ~ServerHas'
  BY <1>4 DEF ServerFits, ServerOnce, ServerHas
<1> QED BY <1>5 DEF ToServerGood

\* The server's queue, when a message is sent to it.
LEMMA ServerQueueGrown ==
  ASSUME SocketTypes, SocketTypes', ToServerGood, NEW n \in ToServer, Added1(toServer', toServer, n),
         \A m \in ToServer : ToServerFits(m) /\ (ServerTurn(m) => ServerHas)
                             => ToServerFits(m)' /\ (ServerTurn(m)' => ServerTurn(m)),
         ToServerFits(n)', ServerTurn(n)' => ~ServerHas
  PROVE  ToServerGood' /\ (ServerHas' => ServerHas \/ ServerTurn(n)')
<1>1. \A i \in DOMAIN toServer : toServer[i] \in ToServer
  BY Queues DEF SocketTypes
<1>2. \A i \in DOMAIN toServer : ToServerFits(toServer[i]) /\ (ServerTurn(toServer[i]) => ServerHas)
  BY DEF ToServerGood, ServerFits, ServerHas
<1>3. ASSUME NEW i \in DOMAIN toServer'
      PROVE  \E m \in ToServer : /\ m = toServer'[i] /\ ToServerFits(m)'
                                 /\ \/ i \in DOMAIN toServer /\ m = toServer[i] /\ (ServerTurn(m)' => ServerTurn(m))
                                    \/ i \notin DOMAIN toServer /\ i = Len(toServer) + 1 /\ m = n
  BY <1>1, <1>2 DEF Added1
<1>4. ASSUME NEW i \in DOMAIN toServer'
      PROVE  /\ ToServerFits(toServer[i])'
             /\ \/ i \in DOMAIN toServer /\ (ServerTurn(toServer[i])' => ServerTurn(toServer[i]))
                \/ i \notin DOMAIN toServer /\ i = Len(toServer) + 1 /\ (ServerTurn(toServer[i])' => ServerTurn(n)')
  BY <1>3 DEF ToServerFits, ServerTurn, Live, Started, Over, NextChunk
<1>5. ServerFits'
  BY <1>4 DEF ServerFits
<1>6. ServerOnce'
  <2> SUFFICES ASSUME NEW i \in DOMAIN toServer', NEW j \in DOMAIN toServer',
                      ServerTurn(toServer[i])', ServerTurn(toServer[j])'
               PROVE  i = j
    BY DEF ServerOnce
  <2>1. \A l \in {i, j} : \/ l \in DOMAIN toServer /\ ServerTurn(toServer[l])
                          \/ l = Len(toServer) + 1 /\ ServerTurn(n)'
    BY <1>4
  <2>2. \A l \in {i, j} : l \in DOMAIN toServer /\ ServerTurn(toServer[l]) => ServerHas
    BY DEF ServerHas
  <2> QED BY <2>1, <2>2 DEF ToServerGood, ServerOnce
<1>7. ServerHas' => ServerHas \/ ServerTurn(n)'
  BY <1>4 DEF ServerHas
<1> QED BY <1>5, <1>6, <1>7 DEF ToServerGood

\* The browser's queue, when some of it is left.
LEMMA BrowserQueueLeft ==
  ASSUME SocketTypes, SocketTypes', ToBrowserGood, Left(toBrowser', toBrowser),
         \A m \in ToBrowser : ToBrowserFits(m) /\ (BrowserTurn(m) => BrowserHas) => ToBrowserFits(m)'
  PROVE  ToBrowserGood' /\ (BrowserHas' => BrowserHas)
<1>1. PICK k \in {0, 1} : \A i \in DOMAIN toBrowser' : i + k \in DOMAIN toBrowser /\ toBrowser'[i] = toBrowser[i + k]
  BY DEF Left
<1>2. \A i \in DOMAIN toBrowser : toBrowser[i] \in ToBrowser
  BY Queues DEF SocketTypes
<1>3. \A i \in DOMAIN toBrowser : ToBrowserFits(toBrowser[i]) /\ (BrowserTurn(toBrowser[i]) => BrowserHas)
  BY DEF ToBrowserGood, BrowserFits, BrowserHas
<1>4. ASSUME NEW i \in DOMAIN toBrowser'
      PROVE  \E m \in ToBrowser : m = toBrowser'[i] /\ m = toBrowser[i + k] /\ ToBrowserFits(m)'
  BY <1>1, <1>2, <1>3
<1>5. ASSUME NEW i \in DOMAIN toBrowser'
      PROVE  ToBrowserFits(toBrowser[i])' /\ (BrowserTurn(toBrowser[i])' => BrowserTurn(toBrowser[i + k]))
  BY <1>1, <1>4 DEF ToBrowserFits, BrowserTurn, Live, Started, Over
<1>6. \A i \in DOMAIN toBrowser' : i \in Nat
  BY Queues DEF SocketTypes
<1>7. BrowserFits'
  BY <1>5 DEF BrowserFits
<1>8. BrowserOnce'
  <2> SUFFICES ASSUME NEW i \in DOMAIN toBrowser', NEW j \in DOMAIN toBrowser',
                      BrowserTurn(toBrowser[i])', BrowserTurn(toBrowser[j])'
               PROVE  i = j
    BY DEF BrowserOnce
  <2>1. i + k \in DOMAIN toBrowser /\ j + k \in DOMAIN toBrowser
        /\ BrowserTurn(toBrowser[i + k]) /\ BrowserTurn(toBrowser[j + k])
    BY <1>1, <1>5
  <2>2. i + k = j + k
    BY <2>1 DEF ToBrowserGood, BrowserOnce
  <2> QED BY <1>6, <2>2
<1>9. BrowserHas' => BrowserHas
  BY <1>1, <1>5 DEF BrowserHas
<1>10. BrowserOrder'
  <2> SUFFICES ASSUME NEW i \in DOMAIN toBrowser', NEW j \in DOMAIN toBrowser', i < j,
                      toBrowser'[i].type = "complete"
               PROVE  toBrowser'[j].type # "progress"
    BY DEF BrowserOrder
  <2>1. i + k \in DOMAIN toBrowser /\ j + k \in DOMAIN toBrowser /\ i + k < j + k
    BY <1>1, <1>6
  <2> QED BY <1>1, <2>1 DEF ToBrowserGood, BrowserOrder
<1> QED BY <1>7, <1>8, <1>9, <1>10 DEF ToBrowserGood

\* The browser's queue, when the message that had the turn is taken.
LEMMA BrowserQueueTaken ==
  ASSUME SocketTypes, SocketTypes', ToBrowserGood, toBrowser # <<>>, toBrowser' = Tail(toBrowser),
         BrowserTurn(Head(toBrowser)),
         \A m \in ToBrowser : ToBrowserFits(m) /\ ~BrowserTurn(m)
                              /\ (Head(toBrowser).type = "complete" => m.type # "progress") => ToBrowserFits(m)'
  PROVE  ToBrowserGood' /\ ~BrowserHas'
<1>1. /\ 1 \in DOMAIN toBrowser /\ Head(toBrowser) = toBrowser[1]
      /\ \A i \in DOMAIN toBrowser' : i + 1 \in DOMAIN toBrowser /\ i + 1 # 1 /\ toBrowser'[i] = toBrowser[i + 1]
      /\ \A i \in DOMAIN toBrowser : toBrowser[i] \in ToBrowser
      /\ \A i \in DOMAIN toBrowser' : i \in Nat
  BY Queues DEF SocketTypes
<1>2. \A i \in DOMAIN toBrowser : ToBrowserFits(toBrowser[i]) /\ (i # 1 => ~BrowserTurn(toBrowser[i]))
  BY <1>1 DEF ToBrowserGood, BrowserFits, BrowserOnce
<1>3. \A i \in DOMAIN toBrowser' : 1 < i + 1
  BY <1>1, Queues DEF SocketTypes
<1>4. ASSUME NEW i \in DOMAIN toBrowser'
      PROVE  Head(toBrowser).type = "complete" => toBrowser[i + 1].type # "progress"
  BY <1>1, <1>3 DEF ToBrowserGood, BrowserOrder
<1>5. ASSUME NEW i \in DOMAIN toBrowser'
      PROVE  \E m \in ToBrowser : m = toBrowser'[i] /\ ToBrowserFits(m)' /\ ~BrowserTurn(m)
  BY <1>1, <1>2, <1>4
<1>6. ASSUME NEW i \in DOMAIN toBrowser'
      PROVE  ToBrowserFits(toBrowser[i])' /\ ~BrowserTurn(toBrowser[i])'
  BY <1>5 DEF ToBrowserFits, BrowserTurn, Live, Started, Over
<1>7. BrowserFits' /\ BrowserOnce' /\ ~BrowserHas'
  BY <1>6 DEF BrowserFits, BrowserOnce, BrowserHas
<1>8. BrowserOrder'
  BY <1>6 DEF BrowserOrder, BrowserTurn
<1> QED BY <1>7, <1>8 DEF ToBrowserGood

\* The browser's queue, when a message is sent to it.
LEMMA BrowserQueueGrown ==
  ASSUME SocketTypes, SocketTypes', ToBrowserGood, NEW n \in ToBrowser, Added1(toBrowser', toBrowser, n),
         \A m \in ToBrowser : ToBrowserFits(m) /\ (BrowserTurn(m) => BrowserHas) => ToBrowserFits(m)',
         ToBrowserFits(n)', BrowserTurn(n) \/ n.type = "progress" => ~BrowserHas
  PROVE  ToBrowserGood' /\ (BrowserHas' => BrowserHas \/ BrowserTurn(n))
<1>1. \A i \in DOMAIN toBrowser : toBrowser[i] \in ToBrowser /\ i \in Int /\ i <= Len(toBrowser)
  BY Queues DEF SocketTypes
<1>2. \A i \in DOMAIN toBrowser : ToBrowserFits(toBrowser[i]) /\ (BrowserTurn(toBrowser[i]) => BrowserHas)
  BY DEF ToBrowserGood, BrowserFits, BrowserHas
<1>3. ASSUME NEW i \in DOMAIN toBrowser'
      PROVE  \E m \in ToBrowser : /\ m = toBrowser'[i] /\ ToBrowserFits(m)'
                                  /\ \/ i \in DOMAIN toBrowser /\ m = toBrowser[i]
                                     \/ i \notin DOMAIN toBrowser /\ i = Len(toBrowser) + 1 /\ m = n
  BY <1>1, <1>2 DEF Added1
<1>4. ASSUME NEW i \in DOMAIN toBrowser'
      PROVE  /\ ToBrowserFits(toBrowser[i])'
             /\ \/ i \in DOMAIN toBrowser /\ toBrowser'[i] = toBrowser[i]
                   /\ (BrowserTurn(toBrowser[i])' => BrowserTurn(toBrowser[i]))
                \/ i \notin DOMAIN toBrowser /\ i = Len(toBrowser) + 1 /\ toBrowser'[i] = n
                   /\ (BrowserTurn(toBrowser[i])' => BrowserTurn(n))
  BY <1>3 DEF ToBrowserFits, BrowserTurn, Live, Started, Over
<1>5. BrowserFits'
  BY <1>4 DEF BrowserFits
<1>6. BrowserOnce'
  <2> SUFFICES ASSUME NEW i \in DOMAIN toBrowser', NEW j \in DOMAIN toBrowser',
                      BrowserTurn(toBrowser[i])', BrowserTurn(toBrowser[j])'
               PROVE  i = j
    BY DEF BrowserOnce
  <2>1. \A l \in {i, j} : \/ l \in DOMAIN toBrowser /\ BrowserTurn(toBrowser[l])
                          \/ l = Len(toBrowser) + 1 /\ BrowserTurn(n)
    BY <1>4
  <2>2. \A l \in {i, j} : l \in DOMAIN toBrowser /\ BrowserTurn(toBrowser[l]) => BrowserHas
    BY DEF BrowserHas
  <2> QED BY <2>1, <2>2 DEF ToBrowserGood, BrowserOnce
<1>7. BrowserHas' => BrowserHas \/ BrowserTurn(n)
  BY <1>4 DEF BrowserHas
<1>8. BrowserOrder'
  <2> SUFFICES ASSUME NEW i \in DOMAIN toBrowser', NEW j \in DOMAIN toBrowser', i < j,
                      toBrowser'[i].type = "complete", toBrowser'[j].type = "progress"
               PROVE  FALSE
    BY DEF BrowserOrder
  <2>1. i \in DOMAIN toBrowser
    <3>1. Len(toBrowser) \in Nat /\ \A l \in DOMAIN toBrowser' : l \in Int /\ l <= Len(toBrowser) + 1
      BY <1>1, <1>4, Queues, SMTT(30) DEF SocketTypes
    <3> QED BY <1>4, <3>1
  <2>2. toBrowser[i].type = "complete" /\ BrowserHas
    BY <1>4, <2>1 DEF BrowserHas, BrowserTurn
  <2>3. j \in DOMAIN toBrowser /\ toBrowser[j].type = "progress"
    BY <1>4, <2>2
  <2> QED BY <2>1, <2>2, <2>3 DEF ToBrowserGood, BrowserOrder
<1> QED BY <1>5, <1>6, <1>7, <1>8 DEF ToBrowserGood


\* The first message of each queue.
LEMMA QueueHeads ==
  ASSUME SocketTypes, ToServerGood, ToBrowserGood
  PROVE  /\ toServer # <<>> => /\ Head(toServer) \in ToServer /\ ToServerFits(Head(toServer))
                               /\ (ServerTurn(Head(toServer)) => ServerHas) /\ Left(Tail(toServer), toServer)
         /\ toBrowser # <<>> => /\ Head(toBrowser) \in ToBrowser /\ ToBrowserFits(Head(toBrowser))
                                /\ (BrowserTurn(Head(toBrowser)) => BrowserHas) /\ Left(Tail(toBrowser), toBrowser)
         /\ Left(toServer, toServer) /\ Left(toBrowser, toBrowser)
<1>1. /\ toServer # <<>> => /\ 1 \in DOMAIN toServer /\ Head(toServer) = toServer[1] /\ Head(toServer) \in ToServer
                            /\ Left(Tail(toServer), toServer)
      /\ Left(toServer, toServer)
  BY Queues DEF SocketTypes
<1>2. /\ toBrowser # <<>> => /\ 1 \in DOMAIN toBrowser /\ Head(toBrowser) = toBrowser[1] /\ Head(toBrowser) \in ToBrowser
                             /\ Left(Tail(toBrowser), toBrowser)
      /\ Left(toBrowser, toBrowser)
  BY Queues DEF SocketTypes
<1>3. toServer # <<>> => ToServerFits(Head(toServer)) /\ (ServerTurn(Head(toServer)) => ServerHas)
  BY <1>1 DEF ToServerGood, ServerFits, ServerHas
<1>4. toBrowser # <<>> => ToBrowserFits(Head(toBrowser)) /\ (BrowserTurn(Head(toBrowser)) => BrowserHas)
  BY <1>2 DEF ToBrowserGood, BrowserFits, BrowserHas
<1> QED BY <1>1, <1>2, <1>3, <1>4

\* The browser takes a message that changes nothing of what the others fit.
LEMMA BrowserTakes ==
  ASSUME SocketTypes, SocketTypes', ToServerGood, ToBrowserGood, toBrowser # <<>>, toBrowser' = Tail(toBrowser),
         \A m \in ToBrowser : ToBrowserFits(m) => ToBrowserFits(m)'
  PROVE  ToBrowserGood' /\ (BrowserHas' => BrowserHas) /\ (BrowserTurn(Head(toBrowser)) => ~BrowserHas')
<1>1. ToBrowserGood' /\ (BrowserHas' => BrowserHas)
  BY QueueHeads, BrowserQueueLeft
<1>2. BrowserTurn(Head(toBrowser)) => ~BrowserHas'
  BY BrowserQueueTaken
<1> QED BY <1>1, <1>2

\* While the server rests, and the browser stays with its file, what fits goes on to fit.
LEMMA PageRests ==
  ASSUME Undisturbed, UNCHANGED <<server, packages>>, browser'.file = browser.file
  PROVE  /\ FilesFit' /\ HandlerFits' /\ PackageFits' /\ (HandlerHas' <=> HandlerHas)
         /\ Current' = Current /\ (Started(Current))' = Started(Current)
         /\ \A m \in ToServer : (ServerTurn(m)' <=> ServerTurn(m))
         /\ \A m \in ToBrowser : ToBrowserFits(m) => ToBrowserFits(m)'
         /\ \A d \in Chunk : NextChunk(d) => NextChunk(d)'
         /\ \A m \in ToServer : ToServerFits(m) /\ (m.type = "start" => browser'.sess \in {0, browser.sess})
                                => ToServerFits(m)'
<1>1. UNCHANGED <<handler, active, sessions, temp, packager, packages>> /\ browser'.file = browser.file
  BY DEF server
<1>2. \A f \in Files : (Live(f)' <=> Live(f)) /\ (Over(f)' <=> Over(f)) /\ (Started(f)' <=> Started(f))
  BY <1>1 DEF Live, Over, Started
<1>3. FilesFit'
  BY <1>1 DEF Undisturbed, FilesFit, RowFits, CurrentFits, Live, Over, Started, Current
<1>4. HandlerFits' /\ (HandlerHas' <=> HandlerHas)
  BY <1>1 DEF Undisturbed, HandlerFits, HandlerHas, Live, Current
<1>5. PackageFits'
  BY <1>1 DEF Undisturbed, PackageFits, Over
<1>6. Current' = Current /\ (Started(Current))' = Started(Current)
  BY <1>1 DEF Current, Started, Live, Over
<1>7. \A m \in ToServer : (ServerTurn(m)' <=> ServerTurn(m))
  BY <1>1 DEF ServerTurn, Live
<1>8. \A m \in ToBrowser : ToBrowserFits(m) => ToBrowserFits(m)'
  BY <1>1 DEF ToBrowserFits, Started, Live, Over, Current
<1>9. \A d \in Chunk : NextChunk(d) => NextChunk(d)'
  BY <1>1 DEF NextChunk, Live, Current
<1>10. \A m \in ToServer : ToServerFits(m) /\ (m.type = "start" => browser'.sess \in {0, browser.sess})
                           => ToServerFits(m)'
  BY <1>1 DEF ToServerFits, NextChunk, Started, Live, Over, Current
<1> QED BY <1>3, <1>4, <1>5, <1>6, <1>7, <1>8, <1>9, <1>10


-----------------------------------------------------------------------------
(* The browser's steps keep the undisturbed upload.                         *)

\* A progress message passes the turn to a reader, or loses it.
LEMMA ProgressKeeps ==
  ASSUME SocketTypes, SocketTypes', Undisturbed, onProgress PROVE Undisturbed'
<1> DEFINE p == Head(toBrowser)
           more == p.received < UploadChunks /\ browser.status = "uploading"
<1>1. /\ toBrowser # <<>> /\ toBrowser' = Tail(toBrowser) /\ p.type = "progress" /\ toServer' = toServer
      /\ UNCHANGED <<server, packages>>
  BY DEF onProgress, Hears, serverMem, uploadDisk, server
<1>2. \/ /\ browser' = [browser EXCEPT !.sess = p.sess, !.next = IF more THEN p.received ELSE @]
         /\ reading' = IF more THEN Append(reading, <<browser.file, p.received>>) ELSE reading
      \/ UNCHANGED <<browser, reading>>
  BY DEF onProgress
<1>3. OneHolder /\ ToServerGood /\ ToBrowserGood /\ ReadingFits /\ SessionFits
  BY DEF Undisturbed
<1>4. p \in ToBrowser /\ ToBrowserFits(p) /\ (BrowserTurn(p) => BrowserHas)
  BY <1>1, <1>3, QueueHeads
<1>5. p.sess = Current /\ Started(Current)
      /\ (p.received < UploadChunks => BrowserTurn(p) /\ p.received = Len(temp[Current]) /\ Live(Current))
  BY <1>1, <1>4 DEF ToBrowserFits, BrowserTurn
<1> HIDE DEF p
<1>6. browser'.file = browser.file /\ (browser'.sess = browser.sess \/ browser'.sess = p.sess)
  BY <1>2 DEF SocketTypes
<1>7. /\ FilesFit' /\ HandlerFits' /\ PackageFits' /\ (HandlerHas' <=> HandlerHas)
      /\ Current' = Current /\ (Started(Current))' = Started(Current)
  BY <1>1, <1>6, PageRests
<1>8. ToBrowserGood' /\ (BrowserHas' => BrowserHas) /\ (BrowserTurn(p) => ~BrowserHas')
  BY <1>1, <1>3, <1>6, PageRests, BrowserTakes DEF p
<1>9. ToServerGood' /\ (ServerHas' => ServerHas)
  <2>1. \A m \in ToServer : ToServerFits(m) => m.type # "start"
    BY <1>5 DEF ToServerFits
  <2>2. \A m \in ToServer : ToServerFits(m) => ToServerFits(m)' /\ (ServerTurn(m)' => ServerTurn(m))
    BY <1>1, <1>6, <2>1, PageRests
  <2> QED BY <1>1, <1>3, <2>2, QueueHeads, ServerQueueLeft
<1>10. SessionFits'
  BY <1>3, <1>5, <1>6, <1>7 DEF SessionFits
<1>11. CASE reading' = reading
  <2>1. ReadingFits'
    <3>1. \A i \in DOMAIN reading : reading[i] \in Chunk
      BY Queues DEF SocketTypes
    <3> QED BY <1>1, <1>3, <1>6, <1>11, <3>1, PageRests DEF ReadingFits
  <2>2. OneHolder'
    BY <1>3, <1>7, <1>8, <1>9, <1>11 DEF OneHolder, ReaderHas
  <2> QED BY <1>7, <1>8, <1>9, <1>10, <2>1, <2>2 DEF Undisturbed
<1>12. CASE p.received < UploadChunks /\ reading' = Append(reading, <<browser.file, p.received>>)
  <2>1. BrowserHas /\ ~ServerHas /\ ~HandlerHas /\ reading = <<>>
    BY <1>3, <1>4, <1>5, <1>12 DEF OneHolder, ReaderHas
  <2>2. Len(reading') = 1 /\ \A i \in DOMAIN reading' : reading'[i] = <<Current, p.received>>
    BY <1>12, <2>1 DEF Current
  <2>3. NextChunk(<<Current, p.received>>)
    BY <1>5, <1>12 DEF NextChunk
  <2>4. ReadingFits'
    BY <1>1, <1>6, <2>2, <2>3 DEF ReadingFits, NextChunk, Live, Current, server
  <2>5. OneHolder'
    BY <1>5, <1>7, <1>8, <1>9, <1>12, <2>1, <2>2 DEF OneHolder
  <2> QED BY <1>7, <1>8, <1>9, <1>10, <2>4, <2>5 DEF Undisturbed
<1> QED BY <1>2, <1>11, <1>12

\* A reader passes the turn to the server.
LEMMA ReaderKeeps ==
  ASSUME SocketTypes, SocketTypes', Undisturbed, NEW i \in DOMAIN reading, onload(i) PROVE Undisturbed'
<1> DEFINE n == [type |-> "chunk", sess |-> browser.sess, data |-> reading[i]]
<1>1. /\ toBrowser' = toBrowser /\ browser' = browser /\ UNCHANGED <<server, packages>>
      /\ reading' = RemoveAt(reading, i)
      /\ toServer' = toServer \/ (browser.sess # 0 /\ toServer' = Append(toServer, n))
  BY DEF onload, send, serverMem, uploadDisk, server
<1>2. OneHolder /\ ToServerGood /\ ToBrowserGood /\ ReadingFits /\ SessionFits
  BY DEF Undisturbed
<1>3. /\ FilesFit' /\ HandlerFits' /\ PackageFits' /\ (HandlerHas' <=> HandlerHas)
      /\ Current' = Current /\ (Started(Current))' = Started(Current)
  BY <1>1, PageRests
<1>4. reading' = <<>>
  <2>1. reading \in Seq(Chunk) /\ Len(reading) <= 1
    BY <1>2 DEF SocketTypes, OneHolder
  <2>2. Len(reading) = 1 /\ i = 1
    BY <2>1
  <2> QED BY <1>1, <2>1, <2>2 DEF RemoveAt
<1>5. ReaderHas /\ ~ServerHas /\ ~BrowserHas /\ ~HandlerHas
  BY <1>2 DEF OneHolder, ReaderHas
<1>6. ToBrowserGood' /\ (BrowserHas' => BrowserHas)
  BY <1>1, <1>2, PageRests, QueueHeads, BrowserQueueLeft
<1>7. \A m \in ToServer : ToServerFits(m) => ToServerFits(m)' /\ (ServerTurn(m)' => ServerTurn(m))
  BY <1>1, PageRests
<1>8. ToServerGood'
  <2>1. CASE toServer' = toServer
    BY <1>2, <1>7, <2>1, QueueHeads, ServerQueueLeft
  <2>2. CASE browser.sess # 0 /\ toServer' = Append(toServer, n)
    <3>1. browser.sess = Current /\ NextChunk(reading[i]) /\ reading[i] \in Chunk
      BY <1>2, <2>2, SentTypes DEF SessionFits, ReadingFits
    <3>2. n \in ToServer
      BY <3>1, UploadMessages DEF Current, SocketTypes
    <3>3. PICK k \in ToServer : k = n
      BY <3>2
    <3>4. k.type = "chunk" /\ k.sess = Current /\ k.data = reading[i]
      BY <3>1, <3>3
    <3>5. toServer' = Append(toServer, k)
      BY <2>2, <3>3
    <3> HIDE DEF n
    <3>6. ToServerFits(k)
      BY <3>1, <3>4 DEF ToServerFits
    <3>7. ToServerFits(k)'
      BY <1>7, <3>6
    <3>8. Added1(toServer', toServer, k)
      BY <3>5, Queues DEF SocketTypes
    <3> QED BY <1>2, <1>5, <1>7, <3>7, <3>8, ServerQueueGrown
  <2> QED BY <1>1, <2>1, <2>2
<1>9. OneHolder' /\ ReadingFits'
  BY <1>3, <1>4, <1>5, <1>6 DEF OneHolder, ReadingFits, ReaderHas
<1>10. SessionFits'
  BY <1>1, <1>2, <1>3 DEF SessionFits
<1> QED BY <1>3, <1>6, <1>8, <1>9, <1>10 DEF Undisturbed

\* An error, a cancel and a pause leave the turn where it is.
LEMMA StopsKeep ==
  ASSUME SocketTypes, SocketTypes', Undisturbed, onError \/ cancel \/ pause PROVE Undisturbed'
<1> DEFINE n == [type |-> "pause", sess |-> browser.sess]
<1>1. /\ toBrowser' = toBrowser \/ (toBrowser # <<>> /\ toBrowser' = Tail(toBrowser))
      /\ UNCHANGED <<server, packages>> /\ reading' = reading
      /\ toServer' = toServer \/ (browser.sess # 0 /\ toServer' = Append(toServer, n))
  BY DEF onError, cancel, pause, Hears, send, socket, serverMem, uploadDisk, server
<1>2. browser'.file = browser.file /\ browser'.sess \in {0, browser.sess}
  BY DEF onError, cancel, pause, SocketTypes
<1>3. OneHolder /\ ToServerGood /\ ToBrowserGood /\ ReadingFits /\ SessionFits
  BY DEF Undisturbed
<1>4. /\ FilesFit' /\ HandlerFits' /\ PackageFits' /\ (HandlerHas' <=> HandlerHas)
      /\ Current' = Current /\ (Started(Current))' = Started(Current)
  BY <1>1, <1>2, PageRests
<1>5. ToBrowserGood' /\ (BrowserHas' => BrowserHas)
  <2>1. Left(toBrowser', toBrowser)
    BY <1>1, <1>3, QueueHeads
  <2> QED BY <1>1, <1>2, <1>3, <2>1, PageRests, BrowserQueueLeft
<1>6. \A m \in ToServer : ToServerFits(m) => ToServerFits(m)' /\ (ServerTurn(m)' => ServerTurn(m))
  BY <1>1, <1>2, PageRests
<1>7. ToServerGood' /\ (ServerHas' => ServerHas)
  <2>1. CASE toServer' = toServer
    BY <1>3, <1>6, <2>1, QueueHeads, ServerQueueLeft
  <2>2. CASE browser.sess # 0 /\ toServer' = Append(toServer, n)
    <3>1. browser.sess \in Files
      BY <2>2, UploadConstants DEF SocketTypes
    <3>2. PICK k \in ToServer : k = n
      BY <3>1, UploadMessages
    <3>3. k.type = "pause" /\ toServer' = Append(toServer, k)
      BY <2>2, <3>2
    <3> HIDE DEF n
    <3>4. ToServerFits(k)' /\ ~ServerTurn(k)'
      BY <3>3 DEF ToServerFits, ServerTurn
    <3>5. Added1(toServer', toServer, k)
      BY <3>3, Queues DEF SocketTypes
    <3> QED BY <1>3, <1>6, <3>4, <3>5, ServerQueueGrown
  <2> QED BY <1>1, <2>1, <2>2
<1>8. ReadingFits'
  <2>1. \A j \in DOMAIN reading : reading[j] \in Chunk
    BY Queues DEF SocketTypes
  <2> QED BY <1>1, <1>2, <1>3, <2>1, PageRests DEF ReadingFits
<1>9. OneHolder'
  BY <1>1, <1>3, <1>4, <1>5, <1>7 DEF OneHolder, ReaderHas
<1>10. SessionFits'
  BY <1>2, <1>3, <1>4 DEF SessionFits
<1> QED BY <1>4, <1>5, <1>7, <1>8, <1>9, <1>10 DEF Undisturbed


\* A resume brings the turn back, when nothing of the upload is under way.
LEMMA ResumeKeeps ==
  ASSUME SocketTypes, SocketTypes', Undisturbed, resume, ~disturbed' PROVE Undisturbed'
<1> DEFINE n == [type |-> "resume", sess |-> browser.sess]
<1>1. /\ toBrowser' = toBrowser /\ UNCHANGED <<server, packages>> /\ reading' = reading /\ browser.sess # 0
      /\ toServer' = toServer \/ toServer' = Append(toServer, n)
      /\ ~UnderWay
  BY DEF resume, send, serverMem, uploadDisk, server
<1>2. browser'.file = browser.file /\ browser'.sess = browser.sess
  BY DEF resume, SocketTypes
<1>3. OneHolder /\ ToServerGood /\ ToBrowserGood /\ ReadingFits /\ SessionFits
  BY DEF Undisturbed
<1>4. /\ FilesFit' /\ HandlerFits' /\ PackageFits' /\ (HandlerHas' <=> HandlerHas)
      /\ Current' = Current /\ (Started(Current))' = Started(Current)
  BY <1>1, <1>2, PageRests
<1>5. browser.sess = Current /\ Started(Current) /\ Current \in Files
  BY <1>1, <1>3 DEF SessionFits, Current, SocketTypes
<1>6. reading = <<>> /\ ~HandlerHas
  BY <1>1 DEF UnderWay, HandlerHas
<1>7. ~ServerHas
  <2> SUFFICES ASSUME NEW j \in DOMAIN toServer, ServerTurn(toServer[j]) PROVE FALSE
    BY DEF ServerHas
  <2>1. toServer[j].type \notin {"chunk", "resume"}
    BY <1>1 DEF UnderWay
  <2>2. toServer[j].type = "start"
    BY <2>1 DEF ServerTurn
  <2>3. ToServerFits(toServer[j])
    BY <1>3 DEF ToServerGood, ServerFits
  <2> QED BY <1>5, <2>2, <2>3 DEF ToServerFits
<1>8. BrowserHas => Over(Current)
  <2> SUFFICES ASSUME NEW j \in DOMAIN toBrowser, BrowserTurn(toBrowser[j]) PROVE Over(Current)
    BY DEF BrowserHas
  <2>1. toBrowser[j].type # "progress"
    BY <1>1 DEF UnderWay
  <2>2. ToBrowserFits(toBrowser[j])
    BY <1>3 DEF ToBrowserGood, BrowserFits
  <2> QED BY <2>1, <2>2 DEF BrowserTurn, ToBrowserFits
<1>9. ToBrowserGood' /\ (BrowserHas' => BrowserHas)
  BY <1>1, <1>2, <1>3, PageRests, QueueHeads, BrowserQueueLeft
<1>10. \A m \in ToServer : ToServerFits(m) => ToServerFits(m)' /\ (ServerTurn(m)' => ServerTurn(m))
  BY <1>1, <1>2, PageRests
<1>11. ToServerGood' /\ (ServerHas' => Live(Current))
  <2>1. CASE toServer' = toServer
    BY <1>3, <1>7, <1>10, <2>1, QueueHeads, ServerQueueLeft
  <2>2. CASE toServer' = Append(toServer, n)
    <3>1. PICK k \in ToServer : k = n
      BY <1>5, UploadMessages
    <3>2. k.type = "resume" /\ k.sess = Current /\ toServer' = Append(toServer, k)
      BY <1>5, <2>2, <3>1
    <3> HIDE DEF n
    <3>3. k.sess <= Current
      BY <1>5, <3>2, UploadConstants
    <3>4. ToServerFits(k) /\ (ServerTurn(k) => Live(Current))
      BY <1>5, <3>2, <3>3 DEF ToServerFits, ServerTurn
    <3>5. ToServerFits(k)' /\ (ServerTurn(k)' => Live(Current))
      BY <1>10, <3>4
    <3>6. Added1(toServer', toServer, k)
      BY <3>2, Queues DEF SocketTypes
    <3> QED BY <1>3, <1>7, <1>10, <3>5, <3>6, ServerQueueGrown
  <2> QED BY <1>1, <2>1, <2>2
<1>12. ReadingFits'
  BY <1>1, <1>6 DEF ReadingFits
<1>13. OneHolder'
  <2>1. ~(Live(Current) /\ Over(Current))
    BY DEF Live, Over
  <2> QED BY <1>1, <1>4, <1>6, <1>8, <1>9, <1>11, <2>1 DEF OneHolder, ReaderHas
<1>14. SessionFits'
  BY <1>2, <1>3, <1>4 DEF SessionFits
<1> QED BY <1>4, <1>9, <1>11, <1>12, <1>13, <1>14 DEF Undisturbed

\* The completion of a file passes the turn to the start of the next one.
LEMMA CompletionKeeps ==
  ASSUME SocketTypes, SocketTypes', Undisturbed, onComplete PROVE Undisturbed'
<1> DEFINE p == Head(toBrowser)
           n == [type |-> "start", sess |-> browser.file + 1]
<1>1. /\ toBrowser # <<>> /\ toBrowser' = Tail(toBrowser) /\ p.type = "complete" /\ reading' = reading
      /\ UNCHANGED <<server, packages>>
  BY DEF onComplete, Hears, serverMem, uploadDisk, server
<1>2. OneHolder /\ ToServerGood /\ ToBrowserGood /\ ReadingFits /\ SessionFits /\ FilesFit /\ HandlerFits /\ PackageFits
  BY DEF Undisturbed
<1>3. p \in ToBrowser /\ ToBrowserFits(p) /\ (BrowserTurn(p) => BrowserHas)
  BY <1>1, <1>2, QueueHeads
<1>4. Over(Current) /\ BrowserTurn(p) /\ BrowserHas
  BY <1>1, <1>3 DEF ToBrowserFits, BrowserTurn
<1>5. ~ServerHas /\ reading = <<>> /\ ~HandlerHas
  BY <1>2, <1>4 DEF OneHolder, ReaderHas
<1>6. CASE /\ browser'.file = browser.file /\ browser'.sess \in {0, browser.sess} /\ toServer' = toServer
  <2>1. /\ FilesFit' /\ HandlerFits' /\ PackageFits' /\ (HandlerHas' <=> HandlerHas)
        /\ Current' = Current /\ (Started(Current))' = Started(Current)
    BY <1>1, <1>6, PageRests
  <2>2. ToBrowserGood' /\ (BrowserHas' => BrowserHas)
    BY <1>1, <1>2, <1>6, PageRests, BrowserTakes
  <2>3. ToServerGood' /\ (ServerHas' => ServerHas)
    BY <1>1, <1>2, <1>6, PageRests, QueueHeads, ServerQueueLeft
  <2>4. ReadingFits' /\ SessionFits'
    BY <1>1, <1>2, <1>5, <1>6, <2>1 DEF ReadingFits, SessionFits
  <2>5. OneHolder'
    BY <1>1, <1>2, <2>1, <2>2, <2>3 DEF OneHolder, ReaderHas
  <2> QED BY <2>1, <2>2, <2>3, <2>4, <2>5 DEF Undisturbed
<1>7. CASE /\ browser.file < FileCount
           /\ browser' = [file |-> browser.file + 1, sess |-> 0, next |-> 0, status |-> "uploading"]
           /\ toServer' \in {toServer, Append(toServer, n)}
  <2>1. UNCHANGED <<handler, active, sessions, temp, packager, packages>>
    BY <1>1 DEF server
  <2>2. Current \in Files /\ Current' = Current + 1 /\ Current' \in Files /\ browser'.sess = 0
    BY <1>7, UploadConstants DEF Current, SocketTypes
  <2>3. \A f \in Files : f \in Nat
    BY UploadConstants
  <2>4. \A f \in Files : (Live(f)' <=> Live(f)) /\ (Over(f)' <=> Over(f)) /\ (Started(f)' <=> Started(f))
    BY <2>1 DEF Live, Over, Started
  <2>5. ~Started(Current')
    BY <1>2, <2>2, <2>3 DEF FilesFit
  <2>6. (~Started(Current))' /\ (~Live(Current))'
    BY <2>2, <2>4, <2>5 DEF Started
  <2>7. \A m \in ToServer : ~ServerTurn(m) /\ ToServerFits(m) => ToServerFits(m)' /\ ~ServerTurn(m)'
    <3> SUFFICES ASSUME NEW m \in ToServer, ~ServerTurn(m), ToServerFits(m)
                 PROVE  ToServerFits(m)' /\ ~ServerTurn(m)'
      OBVIOUS
    <3>1. m.type \notin {"start", "chunk"} /\ m.sess \in Files /\ (m.type = "resume" => ~Live(m.sess))
      BY UploadMessages DEF ServerTurn
    <3>2. m.type = "resume" => m.sess <= Current' /\ Started(m.sess)'
      <4>1. m.type = "resume" => m.sess <= Current /\ Started(m.sess)
        BY DEF ToServerFits
      <4>2. m.sess <= Current => m.sess <= Current'
        <5>1. m.sess \in Nat /\ Current \in Nat /\ Current' = Current + 1
          BY <2>2, <2>3, <3>1
        <5> QED BY ONLY <5>1
      <4>3. PICK f \in Files : f = m.sess
        BY <3>1
      <4>4. Started(f) => Started(f)'
        BY <2>4
      <4>5. Started(m.sess) => Started(m.sess)'
        BY <4>3, <4>4
      <4> QED BY <4>1, <4>2, <4>5
    <3>3. ToServerFits(m)'
      BY <3>1, <3>2 DEF ToServerFits
    <3> QED BY <2>4, <3>1, <3>3 DEF ServerTurn
  <2>8. ToServerGood'
    <3>1. CASE toServer' = toServer
      BY <1>2, <1>5, <2>7, <3>1, QueueHeads, ServerQueueLeft
    <3>2. CASE toServer' = Append(toServer, n)
      <4>1. PICK k \in ToServer : k = n
        BY <2>2, UploadMessages DEF Current
      <4>2. k.type = "start" /\ k.sess = Current' /\ toServer' = Append(toServer, k)
        BY <2>2, <3>2, <4>1 DEF Current
      <4> HIDE DEF n
      <4>3. ToServerFits(k)'
        BY <2>2, <2>6, <4>2 DEF ToServerFits
      <4>4. Added1(toServer', toServer, k)
        BY <4>2, Queues DEF SocketTypes
      <4> QED BY <1>2, <1>5, <2>7, <4>3, <4>4, ServerQueueGrown
    <3> QED BY <1>7, <3>1, <3>2
  <2>9. ToBrowserGood' /\ ~BrowserHas'
    <3>1. \A m \in ToBrowser : ~BrowserTurn(m) /\ m.type # "progress" => ToBrowserFits(m)'
      BY DEF ToBrowserFits, BrowserTurn
    <3> QED BY <1>1, <1>2, <1>4, <3>1, BrowserQueueTaken
  <2>10. FilesFit'
    <3>1. \A f \in Files : f < Current' => Over(f)'
      <4> SUFFICES ASSUME NEW f \in Files, f < Current' PROVE Over(f)
        BY <2>4
      <4>1. f < Current \/ f = Current
        BY <2>2, <2>3
      <4> QED BY <1>2, <1>4, <4>1 DEF FilesFit
    <3>2. \A f \in Files : f > Current' => ~Started(f)'
      <4> SUFFICES ASSUME NEW f \in Files, f > Current' PROVE ~Started(f)
        BY <2>4
      <4>1. f > Current
        BY <2>2, <2>3
      <4> QED BY <1>2, <4>1 DEF FilesFit
    <3>3. \A f \in Files : RowFits(f)'
      BY <1>2, <2>1 DEF FilesFit, RowFits
    <3>4. CurrentFits'
      BY <2>6 DEF CurrentFits
    <3> QED BY <3>1, <3>2, <3>3, <3>4 DEF FilesFit
  <2>11. HandlerFits' /\ ~HandlerHas'
    BY <1>5, <2>1 DEF HandlerFits, HandlerHas
  <2>12. PackageFits'
    BY <1>2, <2>1 DEF PackageFits, Over
  <2>13. ReadingFits' /\ SessionFits' /\ OneHolder'
    BY <1>1, <1>5, <2>2, <2>9, <2>11 DEF ReadingFits, SessionFits, OneHolder, ReaderHas
  <2> QED BY <2>8, <2>9, <2>10, <2>11, <2>12, <2>13 DEF Undisturbed
<1>8. \/ /\ browser.file < FileCount
         /\ browser' = [file |-> browser.file + 1, sess |-> 0, next |-> 0, status |-> "uploading"]
         /\ toServer' \in {toServer, Append(toServer, n)}
      \/ browser'.file = browser.file /\ browser'.sess \in {0, browser.sess} /\ toServer' = toServer
  <2>1. CASE Listening /\ browser.file < FileCount
    BY <2>1 DEF onComplete, send
  <2>2. CASE ~(Listening /\ browser.file < FileCount)
    BY <2>2 DEF onComplete, SocketTypes
  <2> QED BY <2>1, <2>2
<1> QED BY <1>6, <1>7, <1>8


-----------------------------------------------------------------------------
(* The server's steps keep the undisturbed upload.                          *)

\* The files the browser is not at.
OthersRest == \A g \in Files : g # Current => sessions'[g] = sessions[g] /\ temp'[g] = temp[g]

\* A step at the current file does not disturb the others.
LEMMA OthersKeep ==
  ASSUME SocketTypes, FilesFit, browser' = browser, packages' = packages, OthersRest, RowFits(Current)', CurrentFits'
  PROVE  FilesFit'
<1>1. Current \in Files /\ Current' = Current
  BY DEF SocketTypes, Current
<1>2. \A g \in Files : g # Current => (Over(g)' <=> Over(g)) /\ (Started(g)' <=> Started(g))
  BY DEF OthersRest, Over, Started, Live
<1>3. \A g \in Files : (g < Current => g # Current) /\ (g > Current => g # Current)
  BY <1>1, UploadConstants
<1>4. \A g \in Files : g < Current' => Over(g)'
  BY <1>1, <1>2, <1>3 DEF FilesFit
<1>5. \A g \in Files : g > Current' => ~Started(g)'
  BY <1>1, <1>2, <1>3 DEF FilesFit
<1>6. \A g \in Files : RowFits(g)'
  <2>1. ASSUME NEW g \in Files, g # Current PROVE RowFits(g)'
    BY <2>1 DEF FilesFit, RowFits, OthersRest
  <2>2. ASSUME NEW g \in Files, g = Current PROVE RowFits(g)'
    BY <1>1, <2>2 DEF RowFits
  <2> QED BY <2>1, <2>2
<1> QED BY <1>4, <1>5, <1>6 DEF FilesFit

\* Messages that do not have the turn go on to fit.
LEMMA MessagesStay ==
  ASSUME SocketTypes, browser' = browser, packages' = packages, OthersRest,
         Started(Current) => Started(Current)', Live(Current)' => Live(Current) \/ ~Started(Current)
  PROVE  /\ \A m \in ToServer : ToServerFits(m) /\ ~ServerTurn(m) => ToServerFits(m)' /\ ~ServerTurn(m)'
         /\ \A m \in ToBrowser : ToBrowserFits(m) /\ ~BrowserTurn(m) => ToBrowserFits(m)'
<1>1. Current \in Files /\ Current' = Current
  BY DEF SocketTypes, Current
<1>2. \A g \in Files : g # Current => (Live(g)' <=> Live(g)) /\ (Started(g)' <=> Started(g))
  BY DEF OthersRest, Over, Started, Live
<1>3. ASSUME NEW m \in ToServer, ToServerFits(m), ~ServerTurn(m) PROVE ToServerFits(m)' /\ ~ServerTurn(m)'
  <2>1. m.type \notin {"start", "chunk"} /\ m.sess \in Files /\ (m.type = "resume" => ~Live(m.sess))
    BY <1>3, UploadMessages DEF ServerTurn
  <2>2. m.type = "resume" => m.sess <= Current /\ Started(m.sess)
    BY <1>3 DEF ToServerFits
  <2>3. PICK g \in Files : g = m.sess
    BY <2>1
  <2>4. m.type = "resume" => Started(g)' /\ (~Live(g))'
    <3>1. CASE g = Current
      <4>1. m.type = "resume" => Started(Current)' /\ ~Live(Current)'
        BY <2>1, <2>2, <2>3, <3>1
      <4> QED BY <1>1, <3>1, <4>1 DEF Started, Live, Over
    <3>2. CASE g # Current
      BY <1>2, <2>1, <2>2, <2>3, <3>2
    <3> QED BY <3>1, <3>2
  <2>5. m.type = "resume" => Started(m.sess)' /\ (~Live(m.sess))'
    BY <2>3, <2>4
  <2>6. m.type = "resume" => m.sess <= Current'
    BY <1>1, <2>2
  <2>7. ToServerFits(m)'
    BY <2>1, <2>5, <2>6 DEF ToServerFits
  <2> QED BY <2>1, <2>5, <2>7 DEF ServerTurn
<1>4. ASSUME NEW m \in ToBrowser, ToBrowserFits(m), ~BrowserTurn(m) PROVE ToBrowserFits(m)'
  <2>1. m.type # "complete" /\ (m.type = "progress" => ~(m.received < UploadChunks))
    BY <1>4 DEF BrowserTurn
  <2>2. m.type = "progress" => m.sess = Current' /\ Started(Current)'
    BY <1>1, <1>4 DEF ToBrowserFits
  <2> QED BY <2>1, <2>2 DEF ToBrowserFits
<1> QED BY <1>3, <1>4

\* While a file is under way nothing is packaged.
LEMMA NothingPackaged ==
  ASSUME SocketTypes, ServerTypes, PackageFits, ~Over(Current)
  PROVE  packager = "idle" /\ packages = <<>>
<1>1. Current \in Files
  BY DEF SocketTypes, Current
<1> QED BY <1>1 DEF PackageFits, ServerTypes

\* A message goes to the browser, or is lost with the connection.
LEMMA BrowserGets ==
  ASSUME SocketTypes, NEW k \in ToBrowser, toBrowser' \in {toBrowser, toBrowser \o <<k>>}
  PROVE  Added1(toBrowser', toBrowser, k)
<1>1. toBrowser \in Seq(ToBrowser)
  BY DEF SocketTypes
<1>2. toBrowser \o <<k>> = Append(toBrowser, k)
  BY <1>1, Queues
<1>3. Added1(Append(toBrowser, k), toBrowser, k) /\ Added1(toBrowser, toBrowser, k)
  BY <1>1, Queues
<1> QED BY <1>2, <1>3

\* A start hands the turn to the browser.
LEMMA StartKeeps ==
  ASSUME SocketTypes, SocketTypes', ServerTypes, ServerTypes', Undisturbed, HandleFileUploadStart
  PROVE  Undisturbed'
<1> DEFINE f == Head(toServer).sess
           n == [type |-> "progress", sess |-> f, received |-> 0]
           e == [type |-> "error", sess |-> f]
<1>1. /\ handler.pc = "idle" /\ toServer # <<>> /\ Head(toServer).type = "start" /\ toServer' = Tail(toServer)
      /\ browser' = browser /\ reading' = reading /\ handler' = handler /\ packager' = packager /\ packages' = packages
  BY DEF HandleFileUploadStart, Takes
<1>2. OneHolder /\ ToServerGood /\ ToBrowserGood /\ ReadingFits /\ SessionFits /\ FilesFit /\ HandlerFits /\ PackageFits
  BY DEF Undisturbed
<1>3. /\ Head(toServer) \in ToServer /\ ToServerFits(Head(toServer)) /\ ServerTurn(Head(toServer)) /\ ServerHas
  BY <1>1, <1>2, QueueHeads DEF ServerTurn
<1>4. f = Current /\ ~Started(Current) /\ browser.sess = 0 /\ Current \in Files
  BY <1>1, <1>3 DEF ToServerFits, Current, SocketTypes
<1>5. ~BrowserHas /\ reading = <<>> /\ ~HandlerHas
  BY <1>2, <1>3 DEF OneHolder, ReaderHas
<1>6. packager = "idle" /\ packages = <<>>
  BY <1>2, <1>4, NothingPackaged DEF Started
<1>7. HandlerFits' /\ PackageFits' /\ ~HandlerHas' /\ ReadingFits' /\ SessionFits' /\ Len(reading') <= 1 /\ ~ReaderHas'
  BY <1>1, <1>4, <1>5, <1>6 DEF HandlerFits, PackageFits, HandlerHas, ReadingFits, SessionFits, ReaderHas
<1>8. CASE UNCHANGED <<temp, sessions, active>> /\ toBrowser' \in {toBrowser, toBrowser \o <<e>>}
  <2>1. OthersRest /\ (Started(Current) => Started(Current)') /\ (Live(Current)' => Live(Current) \/ ~Started(Current))
    BY <1>4, <1>8 DEF OthersRest
  <2>2. FilesFit'
    BY <1>1, <1>2, <1>8 DEF FilesFit, RowFits, CurrentFits, Live, Over, Started, Current
  <2>3. ToServerGood' /\ ~ServerHas'
    BY <1>1, <1>2, <1>3, <2>1, MessagesStay, ServerQueueTaken
  <2>4. ToBrowserGood' /\ ~BrowserHas'
    <3>1. PICK k \in ToBrowser : k = e
      BY <1>4, UploadMessages
    <3>2. Added1(toBrowser', toBrowser, k)
      BY <1>8, <3>1, BrowserGets
    <3>3. ToBrowserFits(k)' /\ ~BrowserTurn(k) /\ k.type # "progress"
      BY <3>1 DEF ToBrowserFits, BrowserTurn
    <3> QED BY <1>1, <1>2, <1>5, <2>1, <3>2, <3>3, MessagesStay, BrowserQueueGrown
  <2> QED BY <1>7, <2>2, <2>3, <2>4 DEF Undisturbed, OneHolder
<1>9. CASE /\ temp' = [temp EXCEPT ![f] = <<>>]
           /\ sessions' = [sessions EXCEPT ![f] = [status |-> "IN_PROGRESS", index |-> 0]]
           /\ active' = [active EXCEPT ![f] = 0]
           /\ toBrowser' \in {toBrowser, toBrowser \o <<n>>}
  <2>1. temp'[Current] = <<>> /\ sessions'[Current] = [status |-> "IN_PROGRESS", index |-> 0] /\ active'[Current] = 0
        /\ OthersRest /\ Current' = Current
    BY <1>1, <1>4, <1>9 DEF OthersRest, ServerTypes, TempType, SessionsType, ActiveType, Current
  <2>2. Live(Current)' /\ Started(Current)'
    BY <2>1 DEF Live, Started
  <2>3. RowFits(Current)' /\ CurrentFits'
    <3>1. 0 <= UploadChunks
      BY UploadConstants
    <3> QED BY <2>1, <3>1 DEF RowFits, CurrentFits
  <2>4. FilesFit'
    BY <1>1, <1>2, <2>1, <2>3, OthersKeep
  <2>5. ToServerGood' /\ ~ServerHas'
    BY <1>1, <1>2, <1>3, <1>4, <2>1, <2>2, MessagesStay, ServerQueueTaken
  <2>6. ToBrowserGood'
    <3>1. PICK k \in ToBrowser : k = n
      <4>1. f \in Files /\ 0 \in Nat
        BY <1>4
      <4>2. n \in ToBrowser
        BY <4>1, UploadMessages
      <4> QED BY <4>2
    <3>2. Added1(toBrowser', toBrowser, k)
      BY <1>9, <3>1, BrowserGets
    <3>3. k.type = "progress" /\ k.sess = Current /\ k.received = 0
      BY <1>4, <3>1
    <3>4. ToBrowserFits(k)'
      BY <2>1, <2>2, <3>3 DEF ToBrowserFits
    <3> QED BY <1>1, <1>2, <1>4, <1>5, <2>1, <2>2, <3>2, <3>4, MessagesStay, BrowserQueueGrown
  <2> QED BY <1>7, <2>4, <2>5, <2>6 DEF Undisturbed, OneHolder
<1> QED BY <1>8, <1>9 DEF HandleFileUploadStart, CreateUploadSession, SendToBrowser


\* A chunk hands the turn to the handler.
LEMMA ChunkKeeps ==
  ASSUME SocketTypes, SocketTypes', ServerTypes, ServerTypes', Undisturbed, HandleFileUploadChunk
  PROVE  Undisturbed'
<1> DEFINE f == Head(toServer).sess
           d == Head(toServer).data
           len == Len(temp[Current])
           e == [type |-> "error", sess |-> f]
           n == IF active[f] >= 0 THEN active[f] ELSE sessions[f].index
<1>1. /\ handler.pc = "idle" /\ toServer # <<>> /\ Head(toServer).type = "chunk" /\ toServer' = Tail(toServer)
      /\ browser' = browser /\ reading' = reading /\ packager' = packager /\ packages' = packages /\ sessions' = sessions
  BY DEF HandleFileUploadChunk, Takes
<1>2. OneHolder /\ ToServerGood /\ ToBrowserGood /\ ReadingFits /\ SessionFits /\ FilesFit /\ HandlerFits /\ PackageFits
  BY DEF Undisturbed
<1>3. /\ Head(toServer) \in ToServer /\ ToServerFits(Head(toServer)) /\ ServerTurn(Head(toServer)) /\ ServerHas
  BY <1>1, <1>2, QueueHeads DEF ServerTurn
<1>4. f = Current /\ NextChunk(d) /\ d \in Chunk /\ Current \in Files
  BY <1>1, <1>3, UploadMessages DEF ToServerFits, Current, SocketTypes
<1>5. ~BrowserHas /\ reading = <<>> /\ ~HandlerHas
  BY <1>2, <1>3 DEF OneHolder, ReaderHas
<1>6. Live(Current) /\ ~Over(Current) /\ Started(Current)
  BY <1>4 DEF NextChunk, Live, Over, Started
<1>7. packager = "idle" /\ packages = <<>>
  BY <1>2, <1>6, NothingPackaged
<1>8. temp[Current] \in Seq(Chunk) /\ len \in Nat /\ d = <<Current, len>> /\ len < UploadChunks
  BY <1>4, ServerEntry DEF NextChunk, Data
<1>9. n = len
  <2>1. sessions[Current].index = len /\ (active[Current] >= 0 => active[Current] = len)
    BY <1>1, <1>2, <1>6 DEF FilesFit, CurrentFits
  <2> QED BY <1>4, <2>1
<1>10. Current' = Current /\ Live(Current)' /\ Started(Current)'
  BY <1>1, <1>6 DEF Current, Live, Over, Started
<1>11. PackageFits' /\ ReadingFits' /\ SessionFits' /\ Len(reading') <= 1 /\ ~ReaderHas'
  BY <1>1, <1>2, <1>5, <1>7, <1>10 DEF PackageFits, ReadingFits, SessionFits, ReaderHas
<1>12. ASSUME OthersRest PROVE ToServerGood' /\ ~ServerHas'
  BY <1>1, <1>2, <1>3, <1>6, <1>10, <1>12, MessagesStay, ServerQueueTaken
<1>13. CASE /\ temp' = temp /\ handler' = handler
            /\ active' \in {active, [active EXCEPT ![f] = n]}
            /\ toBrowser' \in {toBrowser, toBrowser \o <<e>>}
  <2>1. OthersRest
    BY <1>1, <1>13 DEF OthersRest
  <2>2. active'[Current] = active[Current] \/ active'[Current] = len
    <3> HIDE DEF n
    <3> QED BY <1>4, <1>9, <1>13 DEF ServerTypes, ActiveType
  <2>3. RowFits(Current)' /\ CurrentFits'
    <3>1. RowFits(Current) /\ CurrentFits
      BY <1>2, <1>4 DEF FilesFit
    <3>2. active'[Current] >= 0 => active'[Current] = len
      BY <1>6, <2>2, <3>1 DEF CurrentFits
    <3> QED BY <1>1, <1>6, <1>10, <1>13, <3>1, <3>2 DEF RowFits, CurrentFits
  <2>4. FilesFit'
    BY <1>1, <1>2, <2>1, <2>3, OthersKeep
  <2>5. ToBrowserGood' /\ ~BrowserHas'
    <3>1. PICK k \in ToBrowser : k = e
      BY <1>4, UploadMessages
    <3>2. Added1(toBrowser', toBrowser, k)
      BY <1>13, <3>1, BrowserGets
    <3>3. ToBrowserFits(k)' /\ ~BrowserTurn(k) /\ k.type # "progress"
      BY <3>1 DEF ToBrowserFits, BrowserTurn
    <3> QED BY <1>1, <1>2, <1>5, <1>6, <1>10, <2>1, <3>2, <3>3, MessagesStay, BrowserQueueGrown
  <2>6. HandlerFits' /\ ~HandlerHas'
    BY <1>1, <1>13 DEF HandlerFits, HandlerHas
  <2> QED BY <1>11, <1>12, <2>1, <2>4, <2>5, <2>6 DEF Undisturbed, OneHolder
<1>14. CASE /\ temp' = [temp EXCEPT ![f] = Append(temp[f], d)]
            /\ active' = [active EXCEPT ![f] = n + 1]
            /\ handler' = [pc |-> "row", sess |-> f]
            /\ toBrowser' = toBrowser
  <2>1. temp'[Current] = Append(temp[Current], d) /\ OthersRest
    BY <1>1, <1>4, <1>14 DEF OthersRest, ServerTypes, TempType
  <2>2. active'[Current] = len + 1
    <3> HIDE DEF n, len
    <3> QED BY <1>4, <1>9, <1>14 DEF ServerTypes, ActiveType
  <2>3. Len(temp'[Current]) = len + 1 /\ \A i \in DOMAIN temp'[Current] : temp'[Current][i] = <<Current, i - 1>>
    <3>1. \A i \in DOMAIN temp[Current] : temp[Current][i] = <<Current, i - 1>>
      BY <1>2, <1>4, <1>6 DEF FilesFit, RowFits, Live
    <3>2. ASSUME NEW s \in Seq(Chunk), NEW k \in Nat, k = Len(s), NEW c, d = <<c, k>>,
                 \A i \in DOMAIN s : s[i] = <<c, i - 1>>
          PROVE  Len(Append(s, d)) = k + 1 /\ \A i \in DOMAIN Append(s, d) : Append(s, d)[i] = <<c, i - 1>>
      <4>1. d \in Chunk
        BY <1>4
      <4> HIDE DEF d
      <4> QED BY <3>2, <4>1
    <3> HIDE DEF d
    <3> QED BY <1>8, <2>1, <3>1, <3>2
  <2>4. RowFits(Current)' /\ CurrentFits'
    <3>1. len + 1 <= UploadChunks
      BY <1>8, UploadConstants
    <3>2. sessions'[Current].status \notin {"none", "COMPLETED"}
      BY <1>1, <1>6 DEF Live
    <3>3. handler'.pc = "row"
      BY <1>14
    <3> HIDE DEF len
    <3> QED BY <1>10, <2>2, <2>3, <3>1, <3>2, <3>3 DEF RowFits, CurrentFits
  <2>5. FilesFit'
    BY <1>1, <1>2, <2>1, <2>4, OthersKeep
  <2>6. ToBrowserGood' /\ ~BrowserHas'
    <3>1. \A m \in ToBrowser : ToBrowserFits(m) /\ (BrowserTurn(m) => BrowserHas) => ToBrowserFits(m)'
      BY <1>1, <1>5, <1>6, <1>10, <2>1, MessagesStay
    <3> QED BY <1>2, <1>5, <1>14, <3>1, QueueHeads, BrowserQueueLeft
  <2>7. HandlerFits'
    <3>1. len + 1 >= 0
      BY <1>8
    <3> QED BY <1>4, <1>10, <1>14, <2>2, <3>1 DEF HandlerFits
  <2> QED BY <1>11, <1>12, <2>1, <2>5, <2>6, <2>7 DEF Undisturbed, OneHolder
<1>15. active[f] >= 0 \/ Row(f)
  BY <1>4, <1>6 DEF Row, Live
<1> QED BY <1>13, <1>14, <1>15 DEF HandleFileUploadChunk, WriteAtEnd, Become, restoreSession, SendToBrowser

\* The row gets the count, and the browser the answer.
LEMMA HandlerKeeps ==
  ASSUME SocketTypes, SocketTypes', ServerTypes, ServerTypes', Undisturbed, UpdateUploadSession \/ SendProgress
  PROVE  Undisturbed'
<1> DEFINE f == handler.sess
           len == Len(temp[Current])
           n == [type |-> "progress", sess |-> f, received |-> active[f]]
<1>1. /\ handler.pc # "idle" /\ toServer' = toServer /\ browser' = browser /\ reading' = reading
      /\ packager' = packager /\ packages' = packages /\ temp' = temp /\ active' = active
  BY DEF UpdateUploadSession, SendProgress, socket, uploadDisk
<1>2. OneHolder /\ ToServerGood /\ ToBrowserGood /\ ReadingFits /\ SessionFits /\ FilesFit /\ HandlerFits /\ PackageFits
  BY DEF Undisturbed
<1>3. HandlerHas /\ ~ServerHas /\ ~BrowserHas /\ reading = <<>>
  BY <1>1, <1>2 DEF HandlerHas, OneHolder, ReaderHas
<1>4. f = Current /\ Live(Current) /\ active[Current] >= 0 /\ Current \in Files /\ Current' = Current
  BY <1>1, <1>2 DEF HandlerFits, Current, SocketTypes
<1>5. active[Current] = len /\ RowFits(Current)
  BY <1>2, <1>4 DEF FilesFit, CurrentFits
<1>6. len \in Nat /\ len <= UploadChunks
  <2>1. temp[Current] \in Seq(Chunk)
    BY <1>4, ServerEntry DEF Data
  <2>2. sessions[Current].status # "none"
    BY <1>4 DEF Live
  <2> QED BY <1>5, <2>1, <2>2 DEF RowFits
<1>7. ~Over(Current) /\ Started(Current)
  BY <1>4 DEF Live, Over, Started
<1>8. packager = "idle" /\ packages = <<>>
  BY <1>2, <1>7, NothingPackaged
<1>9. PackageFits' /\ ReadingFits' /\ Len(reading') <= 1 /\ ~ReaderHas'
  BY <1>1, <1>3, <1>8 DEF PackageFits, ReadingFits, ReaderHas
<1>10. ASSUME OthersRest, Live(Current)'
       PROVE  /\ SessionFits' /\ ToServerGood' /\ ~ServerHas'
              /\ \A m \in ToBrowser : ToBrowserFits(m) /\ (BrowserTurn(m) => BrowserHas) => ToBrowserFits(m)'
  <2>1. Started(Current)'
    BY <1>10 DEF Started
  <2>2. SessionFits'
    BY <1>1, <1>2, <1>4, <2>1 DEF SessionFits
  <2>3. ToServerGood' /\ ~ServerHas'
    BY <1>1, <1>2, <1>3, <1>4, <1>10, <2>1, MessagesStay, QueueHeads, ServerQueueLeft
  <2> QED BY <1>1, <1>3, <1>4, <1>10, <2>1, <2>2, <2>3, MessagesStay
<1>11. CASE UpdateUploadSession
  <2>1. /\ sessions' = [sessions EXCEPT ![f].index = active[f]]
        /\ handler' = [pc |-> "reply", sess |-> f] /\ toBrowser' = toBrowser
    <3>1. Row(f)
      BY <1>4 DEF Row, Live
    <3> QED BY <1>11, <3>1 DEF UpdateUploadSession, Become, socket
  <2>2. /\ sessions'[Current].index = len /\ sessions'[Current].status = sessions[Current].status /\ OthersRest
    <3>1. sessions[Current] \in RowType /\ sessions \in SessionsType
      BY <1>4 DEF ServerTypes, SessionsType
    <3> HIDE DEF len
    <3> QED BY <1>1, <1>4, <1>5, <2>1, <3>1 DEF OthersRest, SessionsType, RowType
  <2>3. Live(Current)'
    BY <1>4, <2>2 DEF Live
  <2>4. FilesFit'
    <3>1. RowFits(Current)' /\ CurrentFits'
      BY <1>1, <1>4, <1>5, <2>2 DEF RowFits, CurrentFits
    <3> QED BY <1>1, <1>2, <2>2, <3>1, OthersKeep
  <2>5. HandlerFits'
    BY <1>1, <1>4, <2>1, <2>3 DEF HandlerFits
  <2>6. ToBrowserGood' /\ ~BrowserHas'
    BY <1>2, <1>3, <1>10, <2>1, <2>2, <2>3, QueueHeads, BrowserQueueLeft
  <2> QED BY <1>9, <1>10, <2>2, <2>3, <2>4, <2>5, <2>6 DEF Undisturbed, OneHolder
<1>12. CASE SendProgress
  <2>1. /\ sessions' = sessions /\ toBrowser' \in {toBrowser, toBrowser \o <<n>>} /\ handler.pc = "reply"
        /\ handler' = IF active[f] >= UploadChunks THEN [pc |-> "complete", sess |-> f] ELSE [pc |-> "idle", sess |-> 0]
    BY <1>12 DEF SendProgress, SendToBrowser, Become, Ends, uploadDisk
  <2>2. OthersRest /\ Live(Current)' /\ Started(Current)'
    BY <1>1, <1>4, <2>1 DEF OthersRest, Live, Started
  <2>3. FilesFit'
    <3>1. handler.pc # "row" /\ handler'.pc # "row"
      BY <2>1
    <3>2. RowFits(Current)' /\ CurrentFits'
      BY <1>1, <1>2, <1>4, <1>5, <2>1, <3>1 DEF RowFits, CurrentFits, FilesFit
    <3> QED BY <1>1, <1>2, <2>2, <3>2, OthersKeep
  <2>4. PICK k \in ToBrowser : k = n
    <3>1. active[f] \in Nat
      BY <1>4, <1>5, <1>6
    <3> QED BY <1>4, <3>1, UploadMessages
  <2>5. k.type = "progress" /\ k.sess = Current /\ k.received = len
    BY <1>4, <1>5, <2>4
  <2>6. ToBrowserFits(k)'
    BY <1>1, <1>4, <2>2, <2>5 DEF ToBrowserFits
  <2>7. ToBrowserGood' /\ (BrowserHas' => BrowserTurn(k))
    <3>1. Added1(toBrowser', toBrowser, k)
      BY <2>1, <2>4, BrowserGets
    <3> QED BY <1>2, <1>3, <1>10, <2>2, <2>6, <3>1, BrowserQueueGrown
  <2>8. BrowserTurn(k) => len < UploadChunks
    BY <2>5 DEF BrowserTurn
  <2>9. HandlerFits' /\ (HandlerHas' => len = UploadChunks)
    <3>1. CASE active[f] >= UploadChunks
      <4>1. len = UploadChunks /\ handler' = [pc |-> "complete", sess |-> f]
        BY <1>4, <1>5, <1>6, <2>1, <3>1, UploadConstants
      <4> QED BY <1>1, <1>4, <2>2, <4>1 DEF HandlerFits
    <3>2. CASE ~(active[f] >= UploadChunks)
      BY <2>1, <3>2 DEF HandlerFits, HandlerHas
    <3> QED BY <3>1, <3>2
  <2>10. ~(BrowserHas' /\ HandlerHas')
    <3>1. ~(len < UploadChunks /\ len = UploadChunks)
      BY <1>6, UploadConstants
    <3> QED BY <2>7, <2>8, <2>9, <3>1
  <2> QED BY <1>9, <1>10, <2>2, <2>3, <2>7, <2>9, <2>10 DEF Undisturbed, OneHolder
<1> QED BY <1>11, <1>12


\* The completion of a file hands the turn to the browser, the last one starts the packaging.
LEMMA CompleteKeeps ==
  ASSUME SocketTypes, SocketTypes', ServerTypes, ServerTypes', Undisturbed, completeUpload
  PROVE  Undisturbed'
<1> DEFINE f == handler.sess
           n == [type |-> "complete", sess |-> f]
<1>1. /\ handler.pc = "complete" /\ toServer' = toServer /\ browser' = browser /\ reading' = reading
      /\ packages' = packages /\ temp' = temp /\ handler' = [pc |-> "idle", sess |-> 0]
      /\ sessions' = [sessions EXCEPT ![f].status = "COMPLETED"]
      /\ toBrowser' \in {toBrowser, toBrowser \o <<n>>}
  BY DEF completeUpload, Become, SendToBrowser
<1>2. OneHolder /\ ToServerGood /\ ToBrowserGood /\ ReadingFits /\ SessionFits /\ FilesFit /\ HandlerFits /\ PackageFits
  BY DEF Undisturbed
<1>3. HandlerHas /\ ~ServerHas /\ ~BrowserHas /\ reading = <<>>
  BY <1>1, <1>2 DEF HandlerHas, OneHolder, ReaderHas
<1>4. f = Current /\ Live(Current) /\ Len(temp[Current]) = UploadChunks /\ Current \in Files /\ Current' = Current
  BY <1>1, <1>2 DEF HandlerFits, Current, SocketTypes
<1>5. ~Over(Current) /\ Started(Current)
  BY <1>4 DEF Live, Over, Started
<1>6. packager = "idle" /\ packages = <<>>
  BY <1>2, <1>5, NothingPackaged
<1>7. sessions'[Current].status = "COMPLETED" /\ OthersRest
  <2>1. sessions[Current] \in RowType /\ sessions \in SessionsType
    BY <1>4 DEF ServerTypes, SessionsType
  <2> QED BY <1>1, <1>4, <2>1 DEF OthersRest, SessionsType, RowType
<1>8. Over(Current)' /\ (~Live(Current))' /\ Started(Current)'
  BY <1>4, <1>7 DEF Over, Live, Started
<1>9. FilesFit'
  <2>1. RowFits(Current)
    BY <1>2, <1>4 DEF FilesFit
  <2>2. RowFits(Current)' /\ CurrentFits'
    BY <1>1, <1>4, <1>7, <1>8, <2>1 DEF RowFits, CurrentFits, Live
  <2> QED BY <1>1, <1>2, <1>7, <2>2, OthersKeep
<1>10. SessionFits' /\ ReadingFits' /\ HandlerFits' /\ ~HandlerHas' /\ Len(reading') <= 1 /\ ~ReaderHas'
  BY <1>1, <1>2, <1>3, <1>4, <1>8 DEF SessionFits, ReadingFits, HandlerFits, HandlerHas, ReaderHas
<1>11. PackageFits'
  <2>1. packager' \in {"idle", "copy"} /\ (packager' = "copy" => \A g \in Files : sessions'[g].status = "COMPLETED")
    BY <1>6 DEF completeUpload, ProcessGroup, IsUploadGroupComplete
  <2> QED BY <1>1, <1>6, <2>1 DEF PackageFits, Over
<1>12. ToServerGood' /\ ~ServerHas'
  BY <1>1, <1>2, <1>3, <1>5, <1>7, <1>8, MessagesStay, QueueHeads, ServerQueueLeft
<1>13. ToBrowserGood'
  <2>1. PICK k \in ToBrowser : k = n
    BY <1>4, UploadMessages
  <2>2. k.type = "complete"
    BY <2>1
  <2>3. ToBrowserFits(k)'
    BY <1>8, <2>2 DEF ToBrowserFits
  <2>4. Added1(toBrowser', toBrowser, k)
    BY <1>1, <2>1, BrowserGets
  <2>5. \A m \in ToBrowser : ToBrowserFits(m) /\ (BrowserTurn(m) => BrowserHas) => ToBrowserFits(m)'
    BY <1>1, <1>3, <1>5, <1>7, <1>8, MessagesStay
  <2> QED BY <1>2, <1>3, <2>3, <2>4, <2>5, BrowserQueueGrown
<1> QED BY <1>9, <1>10, <1>11, <1>12, <1>13 DEF Undisturbed, OneHolder

\* A pause leaves the turn where it is; a resume of a live session hands it to the browser.
LEMMA CommandsKeep ==
  ASSUME SocketTypes, SocketTypes', ServerTypes, ServerTypes', Undisturbed, ~disturbed',
         HandleFileUploadPause \/ HandleFileUploadResume
  PROVE  Undisturbed'
<1> DEFINE h == Head(toServer)
           f == h.sess
           n == [type |-> "progress", sess |-> f, received |-> sessions[f].index]
<1>1. /\ handler.pc = "idle" /\ toServer # <<>> /\ toServer' = Tail(toServer) /\ browser' = browser /\ reading' = reading
      /\ packages' = packages /\ temp' = temp /\ handler' = handler /\ active' = active /\ packager' = packager
      /\ sessions[f].status # "COMPLETED" /\ h.type \in {"pause", "resume"}
  BY DEF HandleFileUploadPause, HandleFileUploadResume, HandleCommand, Takes, serverMem
<1>2. OneHolder /\ ToServerGood /\ ToBrowserGood /\ ReadingFits /\ SessionFits /\ FilesFit /\ HandlerFits /\ PackageFits
  BY DEF Undisturbed
<1>3. h \in ToServer /\ ToServerFits(h) /\ (ServerTurn(h) => ServerHas) /\ Left(toServer', toServer)
  BY <1>1, <1>2, QueueHeads
<1>4. f \in Files /\ Current \in Files /\ Current' = Current
  BY <1>1, <1>3, UploadMessages DEF Current, SocketTypes
<1>5. \A g \in Files : sessions[g] \in RowType
  BY DEF ServerTypes, SessionsType
<1>6. \/ sessions' = sessions
      \/ \E st \in {"PAUSED", "IN_PROGRESS"} : sessions' = [sessions EXCEPT ![f].status = st] /\ Row(f)
  BY DEF HandleFileUploadPause, HandleFileUploadResume, HandleCommand
<1>7. ASSUME NEW g \in Files
      PROVE  /\ sessions'[g].index = sessions[g].index
             /\ (sessions'[g].status = "none" <=> sessions[g].status = "none")
             /\ (sessions'[g].status = "COMPLETED" <=> sessions[g].status = "COMPLETED")
  <2>1. CASE sessions' = sessions
    BY <2>1
  <2>2. ASSUME NEW st \in {"PAUSED", "IN_PROGRESS"}, sessions' = [sessions EXCEPT ![f].status = st], Row(f)
        PROVE  /\ sessions'[g].index = sessions[g].index
               /\ (sessions'[g].status = "none" <=> sessions[g].status = "none")
               /\ (sessions'[g].status = "COMPLETED" <=> sessions[g].status = "COMPLETED")
    <3>1. sessions \in SessionsType
      BY DEF ServerTypes
    <3> HIDE DEF f
    <3>2. g # f => sessions'[g] = sessions[g]
      BY <1>4, <2>2, <3>1 DEF SessionsType
    <3>3. sessions'[f].index = sessions[f].index /\ sessions'[f].status = st
      BY <1>4, <1>5, <2>2, <3>1 DEF SessionsType, RowType
    <3>4. sessions[f].status \notin {"none", "COMPLETED"}
      BY <1>1, <2>2 DEF Row
    <3> QED BY <3>2, <3>3, <3>4
  <2> QED BY <1>6, <2>1, <2>2
<1> HIDE DEF f, n, h
<1>8. \A g \in Files : (Live(g)' <=> Live(g)) /\ (Over(g)' <=> Over(g)) /\ (Started(g)' <=> Started(g))
  BY <1>1, <1>7 DEF Live, Over, Started
<1>9. (Live(Current)' <=> Live(Current)) /\ (Started(Current)' <=> Started(Current)) /\ (Over(Current)' <=> Over(Current))
  BY <1>1, <1>4, <1>7 DEF Live, Over, Started, Current
<1>10. FilesFit'
  <2>1. \A g \in Files : RowFits(g)'
    BY <1>1, <1>2, <1>7 DEF FilesFit, RowFits
  <2>2. CurrentFits'
    <3>1. sessions'[Current].index = sessions[Current].index
      BY <1>4, <1>7
    <3> QED BY <1>1, <1>2, <1>4, <1>9, <3>1 DEF FilesFit, CurrentFits
  <2>3. /\ \A g \in Files : g < Current' => Over(g)'
        /\ \A g \in Files : g > Current' => ~Started(g)'
    BY <1>2, <1>4, <1>8 DEF FilesFit
  <2> QED BY <2>1, <2>2, <2>3 DEF FilesFit
<1>11. HandlerFits' /\ ~HandlerHas'
  BY <1>1 DEF HandlerFits, HandlerHas
<1>12. PackageFits'
  BY <1>1, <1>2, <1>8 DEF PackageFits
<1>13. SessionFits'
  BY <1>1, <1>2, <1>4, <1>9 DEF SessionFits
<1>14. ReadingFits'
  BY <1>1, <1>2, <1>4, <1>9 DEF ReadingFits, NextChunk
<1>15. \A m \in ToServer : ToServerFits(m) => ToServerFits(m)' /\ (ServerTurn(m)' => ServerTurn(m))
  <2> SUFFICES ASSUME NEW m \in ToServer, ToServerFits(m)
               PROVE  ToServerFits(m)' /\ (ServerTurn(m)' => ServerTurn(m))
    OBVIOUS
  <2>1. PICK g \in Files : g = m.sess
    BY UploadMessages
  <2>2. (Live(g)' <=> Live(g)) /\ (Started(g)' <=> Started(g))
    BY <1>8
  <2>3. (Live(m.sess)' <=> Live(m.sess)) /\ (Started(m.sess)' <=> Started(m.sess))
    BY <2>1, <2>2
  <2>4. \A d \in Chunk : NextChunk(d) => NextChunk(d)'
    BY <1>1, <1>4, <1>9 DEF NextChunk
  <2>5. ToServerFits(m)'
    BY <1>1, <1>4, <1>9, <2>3, <2>4, UploadMessages DEF ToServerFits
  <2> QED BY <2>3, <2>5 DEF ServerTurn
<1>16. \A m \in ToBrowser : ToBrowserFits(m) => ToBrowserFits(m)'
  BY <1>1, <1>4, <1>9 DEF ToBrowserFits
<1>17. ToServerGood' /\ (ServerHas' => ServerHas)
  BY <1>2, <1>3, <1>15, ServerQueueLeft
<1>18. CASE toBrowser' = toBrowser
  <2>1. ToBrowserGood' /\ (BrowserHas' => BrowserHas)
    BY <1>2, <1>16, <1>18, QueueHeads, BrowserQueueLeft
  <2>2. OneHolder'
    BY <1>1, <1>2, <1>11, <1>17, <2>1 DEF OneHolder, ReaderHas
  <2> QED BY <1>10, <1>11, <1>12, <1>13, <1>14, <1>17, <2>1, <2>2 DEF Undisturbed
<1>19. CASE h.type = "resume" /\ Row(f) /\ toBrowser' = toBrowser \o <<n>>
  <2>1. Live(f) /\ f <= Current
    BY <1>1, <1>3, <1>19 DEF Live, Row, ToServerFits, f
  <2>2. f = Current
    <3>1. f < Current => Over(f)
      BY <1>2, <1>4 DEF FilesFit
    <3>2. ~(f < Current)
      BY <2>1, <3>1 DEF Live, Over
    <3> QED BY <1>4, <2>1, <3>2, UploadConstants
  <2>3. ServerTurn(h) /\ ServerHas
    BY <1>3, <1>19, <2>1 DEF ServerTurn, f
  <2>4. ~BrowserHas /\ reading = <<>>
    BY <1>2, <2>3 DEF OneHolder, ReaderHas
  <2>5. sessions[Current].index = Len(temp[Current])
    BY <1>1, <1>2, <2>1, <2>2 DEF FilesFit, CurrentFits
  <2>6. PICK k \in ToBrowser : k = n
    <3>1. sessions[f].index \in Nat
      BY <1>4, ServerEntry
    <3> QED BY <1>4, <3>1, UploadMessages DEF n
  <2>7. k.type = "progress" /\ k.sess = Current /\ k.received = Len(temp[Current])
    BY <2>2, <2>5, <2>6 DEF n
  <2>8. Live(Current)' /\ Started(Current)'
    BY <1>9, <2>1, <2>2 DEF Started
  <2>9. ToBrowserFits(k)'
    BY <1>1, <1>4, <2>7, <2>8 DEF ToBrowserFits
  <2>10. Added1(toBrowser', toBrowser, k)
    BY <1>19, <2>6, BrowserGets
  <2>11. ToBrowserGood'
    BY <1>2, <1>16, <2>4, <2>9, <2>10, BrowserQueueGrown
  <2>12. ~ServerHas'
    BY <1>1, <1>2, <1>15, <2>3, ServerQueueTaken DEF h
  <2>13. OneHolder'
    BY <1>1, <1>11, <2>4, <2>12 DEF OneHolder, ReaderHas
  <2> QED BY <1>10, <1>11, <1>12, <1>13, <1>14, <1>17, <2>11, <2>13 DEF Undisturbed
<1>20. toBrowser' = toBrowser \/ (h.type = "resume" /\ Row(f) /\ toBrowser' = toBrowser \o <<n>>)
  BY DEF HandleFileUploadPause, HandleFileUploadResume, HandleCommand, SendToBrowser, Takes, h, f, n
<1> QED BY <1>18, <1>19, <1>20


\* The packaging: while it runs no file is under way, and what it stores is whole.
LEMMA PackagingKeeps ==
  ASSUME SocketTypes, SocketTypes', ServerTypes, ServerTypes', Undisturbed,
         ProcessUploadedFile \/ DeleteUploadSession
  PROVE  Undisturbed'
<1>1. /\ UNCHANGED <<toServer, toBrowser, browser, reading, handler, active>>
      /\ packager \in {"copy", "clean"}
  BY DEF ProcessUploadedFile, DeleteUploadSession, socket
<1>2. OneHolder /\ ToServerGood /\ ToBrowserGood /\ ReadingFits /\ SessionFits /\ FilesFit /\ HandlerFits /\ PackageFits
  BY DEF Undisturbed
<1>3. Current \in Files /\ Current' = Current
  BY <1>1 DEF SocketTypes, Current
<1>4. \A f \in Files : Over(f) /\ ~Live(f)
  BY <1>1, <1>2 DEF PackageFits, Over, Live
<1>5. \A s : s \in Seq(Chunk) => Len(s) \in Nat
  OBVIOUS
<1>6. ASSUME ProcessUploadedFile
      PROVE  (\A f \in Files : Over(f)' /\ (~Live(f))' /\ RowFits(f)') /\ PackageFits'
  <2>1. packager = "copy" /\ packages = <<>> /\ sessions' = sessions /\ temp' = temp
    BY <1>2, <1>6 DEF ProcessUploadedFile, PackageFits
  <2>2. \A f \in Files : sessions[f].status = "COMPLETED"
    BY <1>4, <2>1 DEF Over
  <2>3. packages' = <<temp>> /\ packager' = "clean"
    BY <1>6, <2>1, <2>2 DEF ProcessUploadedFile, Row
  <2>4. temp = Original
    <3>1. \A f \in Files : Len(temp[f]) = UploadChunks /\ \A i \in DOMAIN temp[f] : temp[f][i] = <<f, i - 1>>
      BY <1>2, <2>2 DEF FilesFit, RowFits
    <3>2. \A f \in Files : temp[f] \in Seq(Chunk)
      BY ServerEntry DEF Data
    <3>3. ASSUME NEW f \in Files PROVE temp[f] = [i \in 1..UploadChunks |-> <<f, i - 1>>]
      <4>1. PICK s \in Seq(Chunk) : s = temp[f]
        BY <3>2
      <4>2. Len(s) = UploadChunks /\ DOMAIN s = 1..UploadChunks
        BY <3>1, <4>1
      <4>3. \A i \in 1..UploadChunks : s[i] = <<f, i - 1>>
        BY <3>1, <4>1, <4>2
      <4>4. s = [i \in 1..UploadChunks |-> s[i]]
        BY <4>2
      <4> QED BY <4>1, <4>3, <4>4
    <3>4. temp = [f \in Files |-> temp[f]]
      BY DEF ServerTypes, TempType
    <3> QED BY <3>3, <3>4 DEF Original
  <2>5. \A f \in Files : Over(f)' /\ (~Live(f))'
    BY <2>1, <2>2 DEF Over, Live
  <2>6. PackageFits'
    BY <2>3, <2>4, <2>5 DEF PackageFits
  <2>7. \A f \in Files : RowFits(f)'
    BY <1>2, <2>1 DEF FilesFit, RowFits
  <2> QED BY <2>5, <2>6, <2>7
<1>7. ASSUME DeleteUploadSession
      PROVE  (\A f \in Files : Over(f)' /\ (~Live(f))' /\ RowFits(f)') /\ PackageFits'
  <2>1. packages # <<>> /\ packages' = packages /\ packager' = "idle"
    BY <1>2, <1>7 DEF DeleteUploadSession, PackageFits
  <2>2. \A f \in Files : sessions'[f].status = "none"
    BY <1>7 DEF DeleteUploadSession, NoRow
  <2>3. \A f \in Files : Over(f)' /\ (~Live(f))' /\ RowFits(f)'
    BY <2>1, <2>2 DEF Over, Live, RowFits
  <2>4. PackageFits'
    BY <1>2, <2>1, <2>3 DEF PackageFits
  <2> QED BY <2>3, <2>4
<1>8. (\A f \in Files : Over(f)' /\ (~Live(f))' /\ RowFits(f)') /\ PackageFits'
  BY <1>6, <1>7
<1>9. \A f \in Files : Started(f) /\ Started(f)'
  BY <1>4, <1>8 DEF Started
<1>10. Started(Current) /\ ~Live(Current) /\ Over(Current)
  BY <1>3, <1>4, <1>9
<1>11. Started(Current)' /\ (~Live(Current))' /\ Over(Current)'
  <2>1. PICK c \in Files : c = Current
    BY <1>3
  <2>2. Started(c)' /\ (~Live(c))' /\ Over(c)'
    BY <1>8, <1>9
  <2> QED BY <1>3, <2>1, <2>2 DEF Started, Live, Over
<1>12. FilesFit'
  <2>1. \A f \in Files : ~(f > Current)
    BY <1>2, <1>9 DEF FilesFit
  <2>2. CurrentFits'
    BY <1>11 DEF CurrentFits
  <2> QED BY <1>3, <1>8, <2>1, <2>2 DEF FilesFit
<1>13. handler.pc = "idle" /\ HandlerFits' /\ ~HandlerHas'
  BY <1>1, <1>2, <1>10 DEF HandlerFits, HandlerHas
<1>14. reading = <<>> /\ ReadingFits' /\ ~ReaderHas' /\ Len(reading') <= 1
  <2>1. DOMAIN reading = {}
    BY <1>2, <1>10 DEF ReadingFits, NextChunk
  <2>2. reading = <<>>
    BY <2>1 DEF SocketTypes
  <2> QED BY <1>1, <2>2 DEF ReadingFits, ReaderHas
<1>15. SessionFits'
  BY <1>1, <1>2, <1>3, <1>11 DEF SessionFits
<1>16. \A m \in ToServer : ToServerFits(m) => ToServerFits(m)' /\ ~ServerTurn(m) /\ ~ServerTurn(m)'
  <2> SUFFICES ASSUME NEW m \in ToServer, ToServerFits(m)
               PROVE  ToServerFits(m)' /\ ~ServerTurn(m) /\ ~ServerTurn(m)'
    OBVIOUS
  <2>1. m.type \notin {"start", "chunk"}
    BY <1>10 DEF ToServerFits, NextChunk
  <2>2. PICK g \in Files : g = m.sess
    BY UploadMessages
  <2>3. Started(g)' /\ ~Live(g) /\ (~Live(g))'
    BY <1>4, <1>8, <1>9
  <2>4. Started(m.sess)' /\ ~Live(m.sess) /\ (~Live(m.sess))'
    BY <2>2, <2>3
  <2>5. ToServerFits(m)'
    BY <1>3, <2>1, <2>4 DEF ToServerFits
  <2> QED BY <2>1, <2>4, <2>5 DEF ServerTurn
<1>17. \A m \in ToBrowser : ToBrowserFits(m) => ToBrowserFits(m)'
  BY <1>3, <1>10, <1>11 DEF ToBrowserFits
<1>18. ToServerGood' /\ (ServerHas' => ServerHas)
  BY <1>1, <1>2, <1>16, QueueHeads, ServerQueueLeft
<1>19. ToBrowserGood' /\ (BrowserHas' => BrowserHas)
  BY <1>1, <1>2, <1>17, QueueHeads, BrowserQueueLeft
<1>20. OneHolder'
  BY <1>2, <1>13, <1>14, <1>18, <1>19 DEF OneHolder
<1> QED BY <1>8, <1>12, <1>13, <1>14, <1>15, <1>18, <1>19, <1>20 DEF Undisturbed

\* A lost connection loses the turn, if it was on its way; a crash does too, and what the server
\* had in memory.
LEMMA LossesKeep ==
  ASSUME SocketTypes, SocketTypes', ServerTypes, ServerTypes', Undisturbed, ~disturbed',
         ConnectionLost \/ scheduleReconnect \/ ServerCrash
  PROVE  Undisturbed'
<1>1. /\ UNCHANGED <<browser, reading, sessions, temp, packages>>
      /\ (toServer' = toServer /\ toBrowser' = toBrowser) \/ (toServer' = <<>> /\ toBrowser' = <<>>)
  BY DEF ConnectionLost, scheduleReconnect, ServerCrash, CloseSocket, uploadDisk
<1>2. OneHolder /\ ToServerGood /\ ToBrowserGood /\ ReadingFits /\ SessionFits /\ FilesFit /\ HandlerFits /\ PackageFits
  BY DEF Undisturbed
<1>3. \/ UNCHANGED <<handler, active, packager>>
      \/ /\ handler' = [pc |-> "idle", sess |-> 0] /\ active' = [f \in Files |-> -1] /\ packager' = "idle"
         /\ handler.pc # "row"
  BY DEF ConnectionLost, scheduleReconnect, ServerCrash, serverMem
<1>4. Current' = Current /\ Current \in Files
  BY <1>1 DEF Current, SocketTypes
<1>5. \A f \in Files : (Live(f)' <=> Live(f)) /\ (Over(f)' <=> Over(f)) /\ (Started(f)' <=> Started(f))
  BY <1>1 DEF Live, Over, Started
<1>6. (Live(Current)' <=> Live(Current)) /\ (Started(Current)' <=> Started(Current)) /\ (Over(Current)' <=> Over(Current))
  BY <1>1 DEF Live, Over, Started, Current
<1>7. HandlerFits' /\ (HandlerHas' => HandlerHas)
  BY <1>1, <1>2, <1>3, <1>4, <1>6 DEF HandlerFits, HandlerHas
<1>8. PackageFits'
  BY <1>1, <1>2, <1>3, <1>5 DEF PackageFits
<1>9. FilesFit'
  <2>1. \A f \in Files : RowFits(f)'
    BY <1>1, <1>2 DEF FilesFit, RowFits
  <2>2. CurrentFits'
    <3>1. CASE UNCHANGED <<handler, active, packager>>
      BY <1>1, <1>2, <1>4, <1>6, <3>1 DEF FilesFit, CurrentFits
    <3>2. CASE active' = [f \in Files |-> -1] /\ handler.pc # "row"
      <4>1. ~(active'[Current] >= 0)
        BY <1>4, <3>2
      <4> QED BY <1>1, <1>2, <1>4, <1>6, <3>2, <4>1 DEF FilesFit, CurrentFits
    <3> QED BY <1>3, <3>1, <3>2
  <2>3. /\ \A f \in Files : f < Current' => Over(f)'
        /\ \A f \in Files : f > Current' => ~Started(f)'
    BY <1>2, <1>4, <1>5 DEF FilesFit
  <2> QED BY <2>1, <2>2, <2>3 DEF FilesFit
<1>10. SessionFits' /\ ReadingFits'
  BY <1>1, <1>2, <1>4, <1>6 DEF SessionFits, ReadingFits, NextChunk
<1>11. ToServerGood' /\ (ServerHas' => ServerHas)
  <2>1. CASE toServer' = toServer
    <3>1. \A m \in ToServer : ToServerFits(m) => ToServerFits(m)' /\ (ServerTurn(m)' => ServerTurn(m))
      BY <1>1 DEF ToServerFits, ServerTurn, NextChunk, Live, Over, Started, Current
    <3> QED BY <1>2, <2>1, <3>1, QueueHeads, ServerQueueLeft
  <2>2. CASE toServer' = <<>>
    BY <2>2 DEF ToServerGood, ServerOnce, ServerFits, ServerHas
  <2> QED BY <1>1, <2>1, <2>2
<1>12. ToBrowserGood' /\ (BrowserHas' => BrowserHas)
  <2>1. CASE toBrowser' = toBrowser
    <3>1. \A m \in ToBrowser : ToBrowserFits(m) => ToBrowserFits(m)'
      BY <1>1, <1>4, <1>6 DEF ToBrowserFits
    <3> QED BY <1>2, <2>1, <3>1, QueueHeads, BrowserQueueLeft
  <2>2. CASE toBrowser' = <<>>
    BY <2>2 DEF ToBrowserGood, BrowserOnce, BrowserFits, BrowserOrder, BrowserHas
  <2> QED BY <1>1, <2>1, <2>2
<1>13. OneHolder'
  BY <1>1, <1>2, <1>7, <1>11, <1>12 DEF OneHolder, ReaderHas
<1> QED BY <1>7, <1>8, <1>9, <1>10, <1>11, <1>12, <1>13 DEF Undisturbed

\* The upload begins undisturbed, with the start of the first file on its way.
LEMMA UploadInitially == UploadInit => UploadInvariant
<1> SUFFICES ASSUME UploadInit PROVE UploadInvariant
  OBVIOUS
<1>1. 1 \in Files /\ 0 \in 0..FileCount /\ 0 \in 0..UploadChunks
  BY UploadConstants
<1>2. [type |-> "start", sess |-> 1] \in ToServer
  BY <1>1, UploadMessages
<1>3. SocketTypes
  BY <1>1, <1>2 DEF UploadInit, SocketTypes
<1>4. ServerTypes
  BY <1>1, ServerValues DEF UploadInit, ServerTypes, ActiveType, SessionsType, TempType
<1>5. CountTypes
  <2>1. 0 \in 0..MaxCommands /\ 0 \in 0..MaxUploadFaults
    BY UploadConstants
  <2> QED BY <2>1 DEF UploadInit, CountTypes
<1>6. \A f \in Files : ~Started(f) /\ RowFits(f) /\ ~Live(f)
  BY DEF UploadInit, Started, Live, Over, RowFits, NoRow
<1>7. Current = 1 /\ \A f \in Files : ~(f < Current)
  <2>1. \A f \in Files : f \in Nat /\ f # 0
    BY UploadConstants
  <2> QED BY <2>1 DEF UploadInit, Current
<1>8. FilesFit
  BY <1>1, <1>6, <1>7 DEF FilesFit, CurrentFits
<1>9. ToServerGood /\ ~BrowserHas
  BY <1>1, <1>6, <1>7 DEF UploadInit, ToServerGood, ServerOnce, ServerFits, ToServerFits, BrowserHas
<1>10. ToBrowserGood /\ ReadingFits /\ SessionFits /\ HandlerFits /\ PackageFits /\ OneHolder
  BY <1>9 DEF UploadInit, ToBrowserGood, BrowserOnce, BrowserFits, BrowserOrder, ReadingFits, SessionFits,
              HandlerFits, PackageFits, OneHolder, ReaderHas, HandlerHas
<1> QED BY <1>3, <1>4, <1>5, <1>8, <1>9, <1>10 DEF UploadInvariant, UploadTypes, Undisturbed

\* A step that changes nothing.
LEMMA RestKeeps ==
  ASSUME SocketTypes, SocketTypes', Undisturbed, UNCHANGED <<server, packages>>,
         UNCHANGED <<browser, reading, toServer, toBrowser>>
  PROVE  Undisturbed'
<1>1. OneHolder /\ ToServerGood /\ ToBrowserGood /\ ReadingFits /\ SessionFits
  BY DEF Undisturbed
<1>2. /\ FilesFit' /\ HandlerFits' /\ PackageFits' /\ (HandlerHas' <=> HandlerHas)
      /\ Current' = Current /\ (Started(Current))' = Started(Current)
  BY PageRests
<1>3. ToServerGood' /\ (ServerHas' => ServerHas)
  BY <1>1, PageRests, QueueHeads, ServerQueueLeft
<1>4. ToBrowserGood' /\ (BrowserHas' => BrowserHas)
  BY <1>1, PageRests, QueueHeads, BrowserQueueLeft
<1>5. ReadingFits'
  <2>1. \A j \in DOMAIN reading : reading[j] \in Chunk
    BY Queues DEF SocketTypes
  <2> QED BY <1>1, <2>1, PageRests DEF ReadingFits
<1>6. OneHolder' /\ SessionFits'
  BY <1>1, <1>2, <1>3, <1>4 DEF OneHolder, ReaderHas, SessionFits
<1> QED BY <1>2, <1>3, <1>4, <1>5, <1>6 DEF Undisturbed

\* What has been disturbed stays so.
LEMMA DisturbedStays == CountTypes /\ UploadNext /\ disturbed => disturbed'
BY DEF UploadNext, Protocol, onProgress, onComplete, onError, onload, HandleFileUploadStart,
       HandleFileUploadChunk, UpdateUploadSession, SendProgress, completeUpload, HandleFileUploadPause,
       HandleFileUploadResume, HandleCommand, ProcessUploadedFile, DeleteUploadSession, scheduleReconnect,
       pause, resume, cancel, ConnectionLost, ServerCrash, CountTypes

\* Every step of the upload keeps its invariant.
LEMMA UploadStep == UploadInvariant /\ [UploadNext]_uploadVars => UploadInvariant'
<1> SUFFICES ASSUME UploadInvariant, [UploadNext]_uploadVars PROVE UploadInvariant'
  OBVIOUS
<1>1. UploadTypes /\ UploadTypes'
  BY UploadTypesStep DEF UploadInvariant
<1>2. SocketTypes /\ SocketTypes' /\ ServerTypes /\ ServerTypes' /\ CountTypes
  BY <1>1 DEF UploadTypes
<1>3. CASE UNCHANGED uploadVars
  <2>1. /\ UNCHANGED <<server, packages>> /\ disturbed' = disturbed
        /\ UNCHANGED <<browser, reading, toServer, toBrowser>>
    BY <1>3 DEF uploadVars, socket, serverMem, uploadDisk, server
  <2>2. ASSUME Undisturbed PROVE Undisturbed'
    BY <1>2, <2>1, <2>2, RestKeeps
  <2> QED BY <1>1, <2>1, <2>2 DEF UploadInvariant
<1>4. CASE UploadNext /\ ~disturbed'
  <2>1. Undisturbed
    BY <1>2, <1>4, DisturbedStays DEF UploadInvariant
  <2> SUFFICES Undisturbed'
    BY <1>1 DEF UploadInvariant
  <2>2. CASE onProgress \/ onComplete \/ onError \/ (\E i \in DOMAIN reading : onload(i)) \/ pause \/ resume \/ cancel
    BY <1>2, <1>4, <2>1, <2>2, ProgressKeeps, CompletionKeeps, StopsKeep, ReaderKeeps, ResumeKeeps
  <2>3. CASE HandleFileUploadStart \/ HandleFileUploadChunk \/ HandleFileUploadPause \/ HandleFileUploadResume
    BY <1>2, <1>4, <2>1, <2>3, StartKeeps, ChunkKeeps, CommandsKeep
  <2>4. CASE UpdateUploadSession \/ SendProgress \/ completeUpload \/ ProcessUploadedFile \/ DeleteUploadSession
    BY <1>2, <1>4, <2>1, <2>4, HandlerKeeps, CompleteKeeps, PackagingKeeps
  <2>5. CASE scheduleReconnect \/ ConnectionLost \/ ServerCrash
    BY <1>2, <1>4, <2>1, <2>5, LossesKeep
  <2> QED BY <1>4, <2>2, <2>3, <2>4, <2>5 DEF UploadNext, Protocol
<1>5. CASE disturbed'
  BY <1>1, <1>5 DEF UploadInvariant
<1> QED BY <1>3, <1>4, <1>5

-----------------------------------------------------------------------------
(* The theorems of the upload, and of both parts.                           *)

\* The invariant of the upload holds in every behaviour.
THEOREM UploadsHold == FilesSpec => []UploadInvariant
<1>1. FilesInit => UploadInvariant
  BY UploadInitially DEF FilesInit
<1>2. [FilesNext]_filesVars => [UploadNext]_uploadVars
  BY DEF FilesNext, filesVars, Transfers, Uploads
<1>3. UploadInvariant /\ [FilesNext]_filesVars => UploadInvariant'
  BY <1>2, UploadStep
<1> QED BY <1>1, <1>3, PTL DEF FilesSpec

\* What is stored as a data service is whole, and is stored once, for any number of files, chunks,
\* commands and faults, unless one of the three disturbances has been met.
THEOREM UploadedWhole == FilesSpec => []UploadedIsWhole
<1>1. UploadInvariant => UploadedIsWhole
  <2> SUFFICES ASSUME PackageFits PROVE Len(packages) <= 1 /\ \A i \in DOMAIN packages : packages[i] = Original
    BY DEF UploadInvariant, Undisturbed, UploadedIsWhole
  <2>1. packages = <<>> \/ packages = <<Original>>
    BY DEF PackageFits
  <2>2. CASE packages = <<>>
    BY <2>2
  <2>3. PICK o : o = Original
    OBVIOUS
  <2>4. CASE packages = <<o>>
    BY <2>3, <2>4
  <2> QED BY <2>1, <2>2, <2>3, <2>4
<1> QED BY <1>1, UploadsHold, PTL

\* The variables of both parts have their types in every behaviour.
THEOREM FilesTypeCorrect == FilesSpec => []FilesTypeOK
<1>1. TransferInvariant => TypeOK
  <2>1. SenderTypes /\ RequestsCounted => requests \in 0 .. MaxFaults + 1
    BY TransferConstants DEF SenderTypes, RequestsCounted
  <2> QED BY <2>1 DEF TransferInvariant, SenderInvariant, ReceiverInvariant, SenderTypes, ReceiverTypes, TypeOK
<1>2. UploadInvariant => UploadTypeOK
  BY ServerEntry DEF UploadInvariant, UploadTypes, SocketTypes, ServerTypes, CountTypes, HandlerType, ActiveType, Data,
                     UploadTypeOK
<1> DEFINE PartOK == part \in {"transfer", "upload"}
<1>3. FilesInit => PartOK
  BY DEF FilesInit
<1>4. PartOK /\ [FilesNext]_filesVars => PartOK'
  BY DEF FilesNext, filesVars, Transfers, Uploads
<1>5. TransferInvariant /\ UploadInvariant /\ PartOK => FilesTypeOK
  BY <1>1, <1>2 DEF FilesTypeOK
<1> HIDE DEF PartOK
<1> QED BY <1>3, <1>4, <1>5, TransfersHold, UploadsHold, PTL DEF FilesSpec

=============================================================================
