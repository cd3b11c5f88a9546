--------------------------- MODULE MCFiles ----------------------------------
(* Small instances of Files for TLC. *)
EXTENDS Files, TLC

CONSTANTS h1, h2

TwoHandlers == {h1, h2}
=============================================================================
