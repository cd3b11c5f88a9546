------------------------------- MODULE MCChat -------------------------------
(* A small instance of Chat for TLC. *)
EXTENDS Chat, TLC

CONSTANTS x1, x2, y1, mem1, mem2, mem3

ThreeMessages == {x1, x2, y1}
Writers       == x1 :> 1 @@ x2 :> 1 @@ y1 :> 2
ThreeMembers  == {mem1, mem2, mem3}
=============================================================================
