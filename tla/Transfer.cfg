\* A transfer of two chunks, two concurrent handlers, an acknowledgement and a checkpoint per chunk,
\* one fault.  An upload of two files of two chunks, one pause or cancel, one fault.
CONSTANTS
  h1 = h1
  h2 = h2
  NoFile = NoFile
  ChunkCount = 2
  Handlers <- TwoHandlers
  AckEvery = 1
  CheckpointEvery = 1
  MaxFaults = 1
  FileCount = 2
  UploadChunks = 2
  MaxCommands = 1
  MaxUploadFaults = 1
SPECIFICATION FilesSpec
INVARIANTS FilesTypeOK TransfersAreOwned UploadedIsWhole
PROPERTIES  EntriesLeave FilesArrive
CHECK_DEADLOCK FALSE
