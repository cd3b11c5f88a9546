---------------------------- MODULE FileDelivery ----------------------------
(***************************************************************************)
(* What a data transfer promises to the job that waits for its input: the  *)
(* archive is collected out of sight, piece by piece, may be thrown away   *)
(* and begun again at any time, and the output appears in one step and     *)
(* only from a complete archive.  Once there, the output stays.            *)
(***************************************************************************)
CONSTANT Chunks

VARIABLES archive, \* "none" or "open"
          written, \* the pieces of the archive that are right
          output   \* "none" or "whole": what the job finds

vars == <<archive, written, output>>

Init == archive = "none" /\ written = {} /\ output = "none"

Open    == archive' = "open" /\ written' = {} /\ UNCHANGED output
Write   == /\ archive = "open"
           /\ \E i \in Chunks : written' = written \cup {i}
           /\ UNCHANGED <<archive, output>>
Discard == archive' = "none" /\ written' = {} /\ UNCHANGED output
Deliver == /\ archive = "open" /\ written = Chunks
           /\ archive' = "none" /\ written' = {} /\ output' = "whole"

Next == Open \/ Write \/ Discard \/ Deliver

Spec == Init /\ [][Next]_vars
=============================================================================
