--------------------------- MODULE MCJobExecution ---------------------------
(* Small instances of JobExecution for TLC. *)
EXTENDS JobExecution, TLC

CONSTANTS j1, j2, w1, w2

OneJob      == {j1}
OneWorker   == {w1}
TwoWorkers  == {w1, w2}
NoJobs      == {}

DockerKind     == [j \in Jobs |-> "docker"]
StandaloneKind == [j \in Jobs |-> "standalone"]
DataKind       == [j \in Jobs |-> "data"]

NoRows    == {}
OneRow    == {1}
SameRow   == [j \in Jobs |-> 1]

WorkerSymmetry == Permutations(Workers)
=============================================================================
