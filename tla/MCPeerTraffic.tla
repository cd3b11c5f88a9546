---------------------------- MODULE MCPeerTraffic ----------------------------
(* Small instances of PeerTraffic for TLC. *)
EXTENDS PeerTraffic, TLC

CONSTANTS s1, s2, t1, t2, m1, r1, r2, f1, d1, reqA, reqB, peer1, peer2

TwoSessions  == {s1, s2}
OneThread    == {t1}
TwoThreads   == {t1, t2}
NoMessages   == {}
OneMessage   == {m1}
NoRows       == {}
TwoRows      == {r1, r2}
OneForwarder == {f1}
OneDeliverer == {d1}
NoRequests   == {}
TwoRequests  == {reqA, reqB}
OnePeer      == {peer1}
TwoPeers     == {peer1, peer2}
FiltersOfOne == {NoFilter, {peer1}}
FiltersOfTwo == {NoFilter, {peer1}, {peer2, Me}}
TwoAskedFor  == {reqA :> "paid" @@ reqB :> "paid", reqA :> "paid" @@ reqB :> "start",
                 reqA :> "free" @@ reqB :> "status", reqA :> "capabilities" @@ reqB :> "search",
                 reqA :> "cancel" @@ reqB :> "free"}
NoneAskedFor == {<<>>}
=============================================================================
