----------------------------- MODULE FileUpload -----------------------------
(***************************************************************************)
(* The upload of a service's files from the browser to the node over the   *)
(* WebSocket: the browser's composable (useChunkedFileUpload.ts), the      *)
(* server's handler (file_upload_handler.go), the upload_sessions table    *)
(* and the packaging of a finished group (file_processor.go).              *)
(*                                                                         *)
(* The protocol is stop and wait: every progress message asks for the next *)
(* chunk.  The server appends what it gets and looks neither at the chunk  *)
(* index nor at a hash; the browser's listeners do not look at the session *)
(* of a message.  A connection handles its messages one after the other,   *)
(* in the goroutine that reads them; a reconnection takes a second or      *)
(* more, so the handler of the old connection has ended before it.         *)
(*                                                                         *)
(* A session is named by its file, a chunk by its file and number.         *)
(***************************************************************************)
EXTENDS Naturals, Sequences, SequencesExt

CONSTANTS FileCount,      \* files of the group
          UploadChunks,   \* chunks of a file
          MaxCommands,    \* bound on the user's pauses and cancels
          MaxUploadFaults \* bound on failing writes, lost connections and crashes

ASSUME UploadConstantsAssumption ==
  /\ FileCount \in Nat \ {0} /\ UploadChunks \in Nat \ {0}
  /\ MaxCommands \in Nat /\ MaxUploadFaults \in Nat

VARIABLES browser,    \* file, session, chunk index and status of the composable
          reading,    \* the chunks its FileReaders are reading
          toServer, toBrowser, open,   \* the WebSocket
          handler,    \* where the reading goroutine is: a message, and the step
          active,     \* activeSessions: session -> chunksReceived
          sessions,   \* the table upload_sessions
          temp,       \* the temporary files, as sequences of chunks
          packager,   \* the goroutine of onUploadComplete, and processingGroups
          packages,   \* what was stored as a data service, in order
          commands, uploadFaults,
          disturbed   \* history: a resume met a message that was still under
                      \* way, a command met a completed session, or a crash
                      \* came between a chunk and its row

socket     == <<toServer, toBrowser, open>>
serverMem  == <<handler, active, packager>>
uploadDisk == <<sessions, temp, packages>>
uploadVars == <<browser, reading, socket, serverMem, uploadDisk, commands,
                uploadFaults, disturbed>>

Files   == 1..FileCount
Chunk   == Files \X (0..UploadChunks - 1)
ToServer == [type : {"start", "pause", "resume"}, sess : Files]
              \cup [type : {"chunk"}, sess : Files, data : Chunk]
ToBrowser == [type : {"progress"}, sess : Files, received : Nat]
               \cup [type : {"complete", "error"}, sess : Files]

Original == [f \in Files |-> [i \in 1..UploadChunks |-> <<f, i - 1>>]]
NoRow    == [status |-> "none", index |-> 0]

UploadTypeOK ==
  /\ browser \in [file : Files, sess : 0..FileCount, next : 0..UploadChunks,
                  status : {"uploading", "paused", "completed", "error"}]
  /\ reading \in Seq(Chunk)
  /\ toServer \in Seq(ToServer) /\ toBrowser \in Seq(ToBrowser) /\ open \in BOOLEAN
  /\ handler \in [pc : {"idle", "row", "reply", "complete"}, sess : 0..FileCount]
  /\ active \in [Files -> Nat \cup {-1}]
  /\ \A f \in Files : /\ sessions[f].status
                           \in {"none", "IN_PROGRESS", "PAUSED", "COMPLETED"}
                      /\ sessions[f].index \in Nat
                      /\ temp[f] \in Seq(Chunk)
  /\ packager \in {"idle", "copy", "clean"}
  /\ commands \in 0..MaxCommands /\ uploadFaults \in 0..MaxUploadFaults
  /\ disturbed \in BOOLEAN

UploadInit ==
  /\ browser = [file |-> 1, sess |-> 0, next |-> 0, status |-> "uploading"]
  /\ reading = <<>>
  /\ toServer = <<[type |-> "start", sess |-> 1]>> /\ toBrowser = <<>> /\ open = TRUE
  /\ handler = [pc |-> "idle", sess |-> 0]
  /\ active = [f \in Files |-> -1]
  /\ sessions = [f \in Files |-> NoRow]
  /\ temp = [f \in Files |-> <<>>]
  /\ packager = "idle" /\ packages = <<>>
  /\ commands = 0 /\ uploadFaults = 0 /\ disturbed = FALSE

\* WebSocketService.send drops what it cannot send.
send(m) == toServer' = IF open THEN Append(toServer, m) ELSE toServer

\* Client.Send, on a channel of 2048 places the protocol never fills.
SendToBrowser(ms) == toBrowser' = IF open THEN toBrowser \o ms ELSE toBrowser

UploadFault == uploadFaults < MaxUploadFaults /\ uploadFaults' = uploadFaults + 1

-----------------------------------------------------------------------------
(* The browser *)

\* The listeners are there until the composable has cleaned up.
Listening == browser.status \in {"uploading", "paused"}

\* A message of the server, for the browser's listener.
Hears(type) == toBrowser # <<>> /\ Head(toBrowser).type = type

\* A progress message names the session from now on and asks for the chunk
\* the server has not got, unless the user has paused.
onProgress ==
  /\ Hears("progress")
  /\ toBrowser' = Tail(toBrowser)
  /\ LET p    == Head(toBrowser)
         more == p.received < UploadChunks /\ browser.status = "uploading" IN
     IF Listening
     THEN /\ browser' = [browser EXCEPT !.sess = p.sess,
                                        !.next = IF more THEN p.received ELSE @]
          /\ reading' = IF more THEN Append(reading, <<browser.file, p.received>>)
                                ELSE reading
     ELSE UNCHANGED <<browser, reading>>
  /\ UNCHANGED <<toServer, open, serverMem, uploadDisk, commands, uploadFaults,
                 disturbed>>

\* reader.onload: the chunk goes to the session of that moment.
onload(i) ==
  /\ reading' = RemoveAt(reading, i)
  /\ IF browser.sess = 0 THEN UNCHANGED toServer
     ELSE send([type |-> "chunk", sess |-> browser.sess, data |-> reading[i]])
  /\ UNCHANGED <<browser, toBrowser, open, serverMem, uploadDisk, commands,
                 uploadFaults, disturbed>>

\* A completed file resolves its promise, and the loop of uploadMultipleFiles
\* starts the next one before another message is seen.
onComplete ==
  /\ Hears("complete")
  /\ toBrowser' = Tail(toBrowser)
  /\ IF Listening /\ browser.file < FileCount
     THEN /\ browser' = [file |-> browser.file + 1, sess |-> 0, next |-> 0,
                         status |-> "uploading"]
          /\ send([type |-> "start", sess |-> browser.file + 1])
     ELSE /\ browser' = IF Listening
                        THEN [browser EXCEPT !.sess = 0, !.status = "completed"]
                        ELSE browser
          /\ UNCHANGED toServer
  /\ UNCHANGED <<reading, open, serverMem, uploadDisk, commands, uploadFaults,
                 disturbed>>

\* handleError: the promise is rejected and the group is given up.
onError ==
  /\ Hears("error")
  /\ toBrowser' = Tail(toBrowser)
  /\ browser' = IF Listening THEN [browser EXCEPT !.sess = 0, !.status = "error"]
                             ELSE browser
  /\ UNCHANGED <<reading, toServer, open, serverMem, uploadDisk, commands,
                 uploadFaults, disturbed>>

Command == commands < MaxCommands /\ commands' = commands + 1

pause ==
  /\ Command /\ browser.status = "uploading" /\ browser.sess # 0
  /\ send([type |-> "pause", sess |-> browser.sess])
  /\ browser' = [browser EXCEPT !.status = "paused"]
  /\ UNCHANGED <<reading, toBrowser, open, serverMem, uploadDisk, uploadFaults,
                 disturbed>>

\* Something of the upload is still under way.
UnderWay == \/ reading # <<>> \/ handler.pc # "idle"
            \/ \E i \in DOMAIN toServer  : toServer[i].type \in {"chunk", "resume"}
            \/ \E i \in DOMAIN toBrowser : toBrowser[i].type = "progress"

\* The page offers it while the upload is paused.
resume ==
  /\ browser.status = "paused" /\ browser.sess # 0
  /\ send([type |-> "resume", sess |-> browser.sess])
  /\ browser' = [browser EXCEPT !.status = "uploading"]
  /\ disturbed' = (disturbed \/ UnderWay)
  /\ UNCHANGED <<reading, toBrowser, open, serverMem, uploadDisk, commands,
                 uploadFaults>>

\* Nothing tells the server.
cancel ==
  /\ Command /\ Listening
  /\ browser' = [browser EXCEPT !.sess = 0, !.status = "error"]
  /\ UNCHANGED <<reading, socket, serverMem, uploadDisk, uploadFaults, disturbed>>

-----------------------------------------------------------------------------
(* The server *)

\* The reading goroutine takes the next message.
Takes(type) == /\ handler.pc = "idle" /\ toServer # <<>> /\ Head(toServer).type = type
               /\ toServer' = Tail(toServer)

Row(f)        == sessions[f].status # "none"
Become(pc, f) == handler' = [pc |-> pc, sess |-> f]

CreateUploadSession(f) ==
  sessions' = [sessions EXCEPT ![f] = [status |-> "IN_PROGRESS", index |-> 0]]

HandleFileUploadStart ==
  /\ Takes("start")
  /\ LET f == Head(toServer).sess IN
     \/ /\ temp' = [temp EXCEPT ![f] = <<>>]
        /\ CreateUploadSession(f)
        /\ active' = [active EXCEPT ![f] = 0]
        /\ SendToBrowser(<<[type |-> "progress", sess |-> f, received |-> 0]>>)
        /\ UNCHANGED uploadFaults
     \/ /\ UploadFault
        /\ SendToBrowser(<<[type |-> "error", sess |-> f]>>)
        /\ UNCHANGED <<temp, sessions, active>>
  /\ UNCHANGED <<browser, reading, open, handler, packager, packages, commands,
                 disturbed>>

\* Any chunk goes to the end of the file, in the session in memory or in the
\* one restored from its row.
WriteAtEnd(m) == temp' = [temp EXCEPT ![m.sess] = Append(@, m.data)]

\* A mutant: the session is restored from its row and starts to count anew.
RestoreFromZero(f) == 0

restoreSession(f) == sessions[f].index

HandleFileUploadChunk ==
  /\ Takes("chunk")
  /\ LET m == Head(toServer)
         f == m.sess
         n == IF active[f] >= 0 THEN active[f] ELSE restoreSession(f) IN
     \/ /\ active[f] >= 0 \/ Row(f)
        /\ WriteAtEnd(m)
        /\ active' = [active EXCEPT ![f] = n + 1]
        /\ Become("row", f)
        /\ UNCHANGED <<toBrowser, uploadFaults>>
     \/ /\ IF active[f] >= 0 \/ Row(f)
           THEN /\ UploadFault                      \* the file cannot be written
                /\ active' = [active EXCEPT ![f] = n]
           ELSE UNCHANGED <<active, uploadFaults>>  \* SESSION_NOT_FOUND
        /\ SendToBrowser(<<[type |-> "error", sess |-> f]>>)
        /\ UNCHANGED <<temp, handler>>
  /\ UNCHANGED <<browser, reading, open, sessions, packager, packages, commands,
                 disturbed>>

\* The row gets the count, and keeps the status it has.
UpdateUploadSession ==
  /\ handler.pc = "row"
  /\ LET f == handler.sess IN
     /\ sessions' = IF Row(f) THEN [sessions EXCEPT ![f].index = active[f]] ELSE sessions
     /\ Become("reply", f)
  /\ UNCHANGED <<browser, reading, socket, active, packager, temp, packages, commands,
                 uploadFaults, disturbed>>

Ends(f) == active[f] >= UploadChunks

SendProgress ==
  /\ handler.pc = "reply"
  /\ LET f == handler.sess IN
     /\ SendToBrowser(<<[type |-> "progress", sess |-> f, received |-> active[f]]>>)
     /\ IF Ends(f) THEN Become("complete", f) ELSE Become("idle", 0)
  /\ UNCHANGED <<browser, reading, toServer, open, active, packager, uploadDisk,
                 commands, uploadFaults, disturbed>>

IsUploadGroupComplete(rows) == \A f \in Files : rows[f].status = "COMPLETED"

\* The group is complete, and no other goroutine is packaging it.
ProcessGroup(rows) ==
  packager' = IF IsUploadGroupComplete(rows) /\ packager = "idle" THEN "copy"
              ELSE packager

completeUpload ==
  /\ handler.pc = "complete"
  /\ LET f == handler.sess
         rows == [sessions EXCEPT ![f].status = "COMPLETED"] IN
     /\ Row(f)
     /\ sessions' = rows
     /\ active' = [active EXCEPT ![f] = -1]
     /\ SendToBrowser(<<[type |-> "complete", sess |-> f]>>)
     /\ ProcessGroup(rows)
     /\ Become("idle", 0)
  /\ UNCHANGED <<browser, reading, toServer, open, temp, packages, commands,
                 uploadFaults, disturbed>>

\* Pause and resume write the status whatever it is; resume answers with the
\* count of the row.
HandleCommand(type, status, answered) ==
  /\ Takes(type)
  /\ LET f == Head(toServer).sess IN
     /\ sessions' = IF Row(f) THEN [sessions EXCEPT ![f].status = status] ELSE sessions
     /\ disturbed' = (disturbed \/ sessions[f].status = "COMPLETED")
     /\ IF answered /\ Row(f)
        THEN SendToBrowser(<<[type |-> "progress", sess |-> f,
                               received |-> sessions[f].index]>>)
        ELSE UNCHANGED toBrowser
  /\ UNCHANGED <<browser, reading, open, serverMem, temp, packages, commands,
                 uploadFaults>>

\* A mutant: resume is not answered.
ResumeQuietly == HandleCommand("resume", "IN_PROGRESS", FALSE)

HandleFileUploadPause  == HandleCommand("pause", "PAUSED", FALSE)
HandleFileUploadResume == HandleCommand("resume", "IN_PROGRESS", TRUE)

\* ProcessUploadedFile: the files are copied into one package, which replaces
\* the service's data; then the temporary files and the rows are deleted.
ProcessUploadedFile ==
  /\ packager = "copy"
  /\ IF \A f \in Files : Row(f)
     THEN packages' = Append(packages, temp) /\ packager' = "clean"
     ELSE packager' = "idle" /\ UNCHANGED packages
  /\ UNCHANGED <<browser, reading, socket, handler, active, sessions, temp, commands,
                 uploadFaults, disturbed>>

DeleteUploadSession ==
  /\ packager = "clean"
  /\ sessions' = [f \in Files |-> NoRow] /\ temp' = [f \in Files |-> <<>>]
  /\ packager' = "idle"
  /\ UNCHANGED <<browser, reading, socket, handler, active, packages, commands,
                 uploadFaults, disturbed>>

-----------------------------------------------------------------------------
(* Faults *)

CloseSocket == open' = FALSE /\ toServer' = <<>> /\ toBrowser' = <<>>

ConnectionLost ==
  /\ open /\ UploadFault /\ CloseSocket
  /\ UNCHANGED <<browser, reading, serverMem, uploadDisk, commands, disturbed>>

\* The reconnection is automatic; nothing resumes the upload.
scheduleReconnect ==
  /\ ~open /\ handler.pc = "idle" /\ open' = TRUE
  /\ UNCHANGED <<browser, reading, toServer, toBrowser, serverMem, uploadDisk,
                 commands, uploadFaults, disturbed>>

\* The node dies, also by the nil session of completeUpload.
ServerCrash ==
  /\ IF handler.pc = "complete" /\ ~Row(handler.sess) THEN UNCHANGED uploadFaults
     ELSE UploadFault
  /\ CloseSocket
  /\ handler' = [pc |-> "idle", sess |-> 0]
  /\ active' = [f \in Files |-> -1] /\ packager' = "idle"
  /\ disturbed' = (disturbed \/ handler.pc = "row")
  /\ UNCHANGED <<browser, reading, uploadDisk, commands>>

-----------------------------------------------------------------------------
Protocol ==
  \/ onProgress \/ onComplete \/ onError
  \/ \E i \in DOMAIN reading : onload(i)
  \/ HandleFileUploadStart \/ HandleFileUploadChunk \/ UpdateUploadSession
  \/ SendProgress \/ completeUpload \/ HandleFileUploadPause \/ HandleFileUploadResume
  \/ ProcessUploadedFile \/ DeleteUploadSession \/ scheduleReconnect

UploadNext == Protocol \/ pause \/ resume \/ cancel \/ ConnectionLost \/ ServerCrash

-----------------------------------------------------------------------------
\* A data service gets exactly the files the user chose, once: every chunk of every file in
\* its place, although the server takes chunks by their arrival, writes the file and its row
\* in two steps, restores a session from the row after a crash and appends to what is there.
\* The three ways in which this goes wrong are named by disturbed.
UploadedIsWhole ==
  disturbed \/ /\ Len(packages) <= 1
               /\ \A i \in DOMAIN packages : packages[i] = Original
=============================================================================
