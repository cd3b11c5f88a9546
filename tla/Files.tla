-------------------------------- MODULE Files --------------------------------
(***************************************************************************)
(* Files on their way: from the user's browser to the node (FileUpload)    *)
(* and from node to node (DataTransfer).  What is uploaded becomes a data  *)
(* service; a transfer reads it only when it is stored.  The two share no  *)
(* memory and no row, so a behaviour is about the one or about the other.  *)
(***************************************************************************)
EXTENDS DataTransfer, FileUpload

VARIABLE part   \* what the behaviour is about

filesVars == <<vars, uploadVars, part>>

Transfers(A) == part = "transfer" /\ A /\ UNCHANGED <<uploadVars, part>>
Uploads(A)   == part = "upload"   /\ A /\ UNCHANGED <<vars, part>>

FilesInit == Init /\ UploadInit /\ part \in {"transfer", "upload"}

FilesNext == Transfers(Next) \/ Uploads(UploadNext)

\* The goroutines of both nodes and the browser's event loop go on.  The user does not leave
\* an upload paused for ever.  A behaviour is about one part, so a disjunction of the two is
\* as strong as fairness of each.
FilesFairness ==
  /\ WF_filesVars(Transfers(ExecuteDataService) \/ Uploads(Protocol))
  /\ WF_filesVars(Transfers(Resume) \/ Uploads(resume))
  /\ WF_filesVars(Transfers(HandleJobDataTransferRequest))
  /\ \A h \in Handlers : WF_filesVars(Transfers(Handle(h)))
  /\ WF_filesVars(Transfers(cleanupAbandonedTransfers))

FilesSpec == FilesInit /\ [][FilesNext]_filesVars /\ FilesFairness

\* The types of both parts.
FilesTypeOK == TypeOK /\ UploadTypeOK /\ part \in {"transfer", "upload"}

\* Without a fault files arrive.  A transfer that the sender has closed does, although the
\* sender closes its row before any acknowledgement and chunks are handled concurrently
\* (data_worker.go).  An upload that is not given up does, pauses and resumes included: the
\* stop and wait protocol never loses its turn, and the last file of the group starts the
\* packaging (file_upload_handler.go, completeUpload).
FilesArrive ==
  (part = "upload" \/ sendRow.status = "completed")
    ~> (\/ part = "transfer" /\ (placed["job"] = "whole" \/ faults > 0)
        \/ part = "upload" /\ (packages # <<>> \/ uploadFaults > 0 \/ disturbed
                               \/ browser.status = "error"))
=============================================================================
