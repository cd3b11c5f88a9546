---------------------------- MODULE MCConnections ----------------------------
(* Small instances of LocalStore with Connections for TLC. *)
EXTENDS LocalStore, TLC

CONSTANTS peer1, listen, in1, m1, w1, w2, ping

OnePeer       == {peer1}
ListenAt      == peer1 :> listen
OneIncoming   == {in1}
OwnerOfOne    == in1 :> peer1
OneMessage    == {m1}
ToPeer        == m1 :> peer1
TwoWorkers    == {w1, w2}
FewThreads    == {m1, w1, w2, ping}
OnePinger     == {ping}
=============================================================================
