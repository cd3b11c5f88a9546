-------------------------------- MODULE Chat --------------------------------
(***************************************************************************)
(* A conversation is of two peers or of a group (conversation_type in      *)
(* internal/database/chat_conversations.go); SendMessage of                *)
(* internal/chat/chat_manager.go and the handlers of chat_handler.go treat *)
(* each kind with keys of its own.                                         *)
(***************************************************************************)
EXTENDS ChatRatchet, GroupChat

VARIABLE conversationType

vars == <<ratchetVars, groupVars, conversationType>>

Init ==
  /\ RatchetInit /\ GroupInit
  /\ conversationType \in {"1on1", "group"}

Next ==
  /\ \/ conversationType = "1on1" /\ RatchetNext /\ UNCHANGED groupVars
     \/ conversationType = "group" /\ GroupNext /\ UNCHANGED ratchetVars
  /\ UNCHANGED conversationType

Spec == Init /\ [][Next]_vars

\* The types of both kinds.
TypeOK == RatchetTypeOK /\ GroupTypeOK /\ conversationType \in {"1on1", "group"}
=============================================================================
