-------------------------- MODULE LocalStore_proofs --------------------------
(***************************************************************************)
(* Proofs about the connections of a node and the store of the messages it *)
(* could not send (LocalStore with Connections), for every set of peers,   *)
(* addresses, connections, messages, goroutines and rows.                  *)
(***************************************************************************)
EXTENDS LocalStore, FiniteSetTheorems, TLAPS

-----------------------------------------------------------------------------
(* The table of connections.                                                *)

Steps == {"idle", "connect", "dial", "handshake", "write", "error", "over", "next", "send",
          "sent", "failed"}

(* Why the two tables agree although clean-ups go by address: an address      *)
(* stands for one peer for ever, an incoming address is used once, and a      *)
(* goroutine that is about to enter a connection knows its address.           *)
ConnInv ==
  /\ ConnTypeOK
  /\ pc \in [Threads -> Steps]
  /\ \A t \in Threads :
       /\ pc[t] \in {"connect", "dial"} => at[t] \in Addrs
       /\ pc[t] = "handshake" => /\ at[t] \in Addrs \ Incoming
                                 /\ conn[t] \in Conns
                                 /\ stage[conn[t]] # "none"
                                 /\ addrOf[conn[t]] = at[t]
  /\ \A c \in Conns :
       /\ stage[c] = "none" => addrOf[c] = NoAddr
       /\ stage[c] \in {"handshake", "entering"} => addrOf[c] \in Incoming
       /\ stage[c] = "entering" => PeerAt(addrOf[c]) \in known
       /\ stage[c] = "ready" => addrOf[c] \in Addrs
  /\ \A a \in Incoming : connections[a] # NoEntry => \E c \in Conns : addrOf[c] = a
  /\ \A a \in Addrs : connections[a].peer \in {NoPeer, PeerAt(a)}
  /\ AddressBookIsSound

(* An address stands for one peer: the owner of an incoming address, or the  *)
(* peer that listens at it.                                                  *)
LEMMA PeerOfAddress ==
  /\ \A a \in Addrs : PeerAt(a) \in Peers
  /\ \A p \in Peers : Listening[p] \in Addrs /\ PeerAt(Listening[p]) = p
  /\ Incoming \subseteq Addrs
<1>1. \A a \in Addrs : PeerAt(a) \in Peers
  BY ConnectionsAssumption DEF Addrs, PeerAt
<1>2. \A p \in Peers : Listening[p] \in Addrs /\ PeerAt(Listening[p]) = p
  BY ConnectionsAssumption DEF Addrs, PeerAt
<1> QED
  BY <1>1, <1>2 DEF Addrs

(* Before the first connection the tables are empty. *)
LEMMA ConnInitInv == Init => ConnInv
<1> SUFFICES ASSUME Init PROVE ConnInv
  OBVIOUS
<1> USE DEF Init, ConnInit
<1>1. NoEntry \in [conn : Conns \cup {NoConn}, peer : Peers \cup {NoPeer}] /\ NoEntry.peer = NoPeer
  BY DEF NoEntry
<1>2. ConnTypeOK
  BY <1>1 DEF ConnTypeOK
<1>3. pc \in [Threads -> Steps] /\ \A t \in Threads : pc[t] = "idle"
  BY DEF Steps
<1>4. /\ \A a \in Addrs : connections[a] = NoEntry
      /\ \A a \in Incoming : connections[a] = NoEntry
  BY DEF Addrs
<1>5. AddressBookIsSound
  BY DEF AddressBookIsSound, Connected
<1> QED
  BY <1>1, <1>2, <1>3, <1>4, <1>5 DEF ConnInv

(* Both entries of an address go together. *)
LEMMA RemoveEffect ==
  ASSUME ConnInv, NEW a \in Addrs, Remove(a)
  PROVE  /\ connections' \in [Addrs -> [conn : Conns \cup {NoConn}, peer : Peers \cup {NoPeer}]]
         /\ peerConnections' \in [Peers -> Addrs \cup {NoAddr}]
         /\ connections'[a] = NoEntry
         /\ \A b \in Addrs : b # a => connections'[b] = connections[b]
         /\ \A b \in Addrs : connections'[b].peer \in {NoPeer, PeerAt(b)}
         /\ AddressBookIsSound'
<1>1. /\ connections'[a] = NoEntry
      /\ connections' \in [Addrs -> [conn : Conns \cup {NoConn}, peer : Peers \cup {NoPeer}]]
      /\ \A b \in Addrs : b # a => connections'[b] = connections[b]
  BY DEF Remove, ConnInv, ConnTypeOK, NoEntry
<1>2. /\ peerConnections' \in [Peers -> Addrs \cup {NoAddr}]
      /\ \A p \in Peers : peerConnections'[p] =
           IF connections[a].peer = p THEN NoAddr ELSE peerConnections[p]
  BY DEF Remove, ConnInv, ConnTypeOK
<1>3. NoEntry.peer = NoPeer
  BY DEF NoEntry
<1>4. \A b \in Addrs : connections'[b].peer \in {NoPeer, PeerAt(b)}
  BY <1>1, <1>3 DEF ConnInv
<1>5. AddressBookIsSound'
  <2> SUFFICES ASSUME NEW p \in Peers, peerConnections'[p] # NoAddr
               PROVE  connections'[peerConnections'[p]].peer = p
    BY DEF AddressBookIsSound, Connected
  <2>1. peerConnections'[p] = peerConnections[p] /\ connections[a].peer # p
    BY <1>2
  <2>2. connections[peerConnections[p]].peer = p /\ peerConnections[p] \in Addrs
    BY <2>1 DEF ConnInv, ConnTypeOK, AddressBookIsSound, Connected
  <2> QED
    BY <1>1, <2>1, <2>2
<1> QED
  BY <1>1, <1>2, <1>4, <1>5

(* Goroutines that only take a step of their own, with or without an address *)
(* to connect to, leave the tables as they are.                              *)
LEMMA ConnFrame ==
  ASSUME ConnInv, UNCHANGED <<table, known, stage, addrOf>>,
         up' \subseteq up, arrived' \subseteq arrived,
         pc' \in [Threads -> Steps],
         at' \in [Threads -> Addrs \cup {NoAddr}],
         conn' \in [Threads -> Conns \cup {NoConn}],
         \A t \in Threads :
           \/ pc'[t] = pc[t] /\ at'[t] = at[t] /\ conn'[t] = conn[t]
           \/ pc'[t] = "connect" /\ at'[t] \in Addrs
           \/ pc'[t] \notin {"connect", "dial", "handshake"}
  PROVE  ConnInv'
<1>1. ConnTypeOK' /\ AddressBookIsSound'
  BY DEF ConnInv, ConnTypeOK, table, AddressBookIsSound, Connected
<1>2. \A t \in Threads :
        /\ pc'[t] \in {"connect", "dial"} => at'[t] \in Addrs
        /\ pc'[t] = "handshake" => /\ at'[t] \in Addrs \ Incoming
                                   /\ conn'[t] \in Conns
                                   /\ stage[conn'[t]] # "none"
                                   /\ addrOf[conn'[t]] = at'[t]
  BY DEF ConnInv
<1> QED
  BY <1>1, <1>2 DEF ConnInv, table

(* The goroutine of a connection: its handshake, the entry of its peer and its *)
(* clean-up keep the tables in agreement.                                      *)
LEMMA ServeConn ==
  ASSUME ConnInv, NEW c \in Conns,
         handleConnection(c) \/ enterIncoming(c) \/ monitorConnection(c)
  PROVE  ConnInv'
<1> USE DEF ConnInv, ConnTypeOK
<1>1. CASE handleConnection(c) /\ stage'[c] = "entering"
  <2>1. /\ stage[c] = "handshake" /\ addrOf[c] \in Incoming
        /\ stage' = [stage EXCEPT ![c] = "entering"]
        /\ known' = known \cup {PeerAt(addrOf[c])}
        /\ UNCHANGED <<connections, peerConnections, up, addrOf, pc, at, conn, arrived>>
    BY <1>1 DEF handleConnection, table, callVars
  <2>2. PeerAt(addrOf[c]) \in Peers
    BY <2>1, PeerOfAddress
  <2>3. AddressBookIsSound'
    BY <2>1 DEF AddressBookIsSound, Connected
  <2> QED
    BY <2>1, <2>2, <2>3
<1>2. CASE handleConnection(c) /\ stage'[c] # "entering"
  <2>1. /\ stage[c] = "handshake" /\ addrOf[c] \in Incoming
        /\ stage' = [stage EXCEPT ![c] = "over"]
        /\ up' = up \ {c} /\ Remove(addrOf[c])
        /\ UNCHANGED <<known, addrOf, pc, at, conn, arrived>>
    BY <1>2 DEF handleConnection, callVars
  <2> QED
    BY <2>1, RemoveEffect, PeerOfAddress
<1>3. CASE enterIncoming(c)
  <2> DEFINE a == addrOf[c]
             p == PeerAt(a)
  <2>1. /\ stage[c] = "entering" /\ a \in Incoming /\ a \in Addrs /\ p \in known /\ p \in Peers
        /\ stage' = [stage EXCEPT ![c] = "ready"]
        /\ arrived' = arrived \cup {p}
        /\ UNCHANGED <<known, addrOf, up, pc, at, conn>>
        /\ EnterPeer(a, p)
    BY <1>3, PeerOfAddress DEF enterIncoming, callVars
  <2>2. CASE connections[a] = NoEntry
    <3>1. UNCHANGED <<connections, peerConnections>>
      BY <2>1, <2>2 DEF EnterPeer, table
    <3>2. AddressBookIsSound'
      BY <3>1 DEF AddressBookIsSound, Connected
    <3> QED
      BY <2>1, <3>1, <3>2
  <2>3. CASE connections[a] # NoEntry
    <3>1. /\ connections' = [connections EXCEPT ![a].peer = p]
          /\ peerConnections' = [peerConnections EXCEPT ![p] = a]
      BY <2>1, <2>3 DEF EnterPeer
    <3>2. /\ connections'[a].peer = p
          /\ \A b \in Addrs : b # a => connections'[b] = connections[b]
          /\ connections' \in [Addrs -> [conn : Conns \cup {NoConn}, peer : Peers \cup {NoPeer}]]
          /\ peerConnections'[p] = a
          /\ \A q \in Peers : q # p => peerConnections'[q] = peerConnections[q]
          /\ peerConnections' \in [Peers -> Addrs \cup {NoAddr}]
      BY <2>1, <3>1
    <3>3. AddressBookIsSound'
      <4> SUFFICES ASSUME NEW q \in Peers, peerConnections'[q] # NoAddr
                   PROVE  connections'[peerConnections'[q]].peer = q
        BY DEF AddressBookIsSound, Connected
      <4>1. CASE q = p
        BY <4>1, <3>2
      <4>2. CASE q # p
        <5>1. /\ peerConnections'[q] = peerConnections[q] /\ peerConnections[q] \in Addrs
              /\ connections[peerConnections[q]].peer = q
          BY <4>2, <3>2 DEF AddressBookIsSound, Connected
        <5>2. peerConnections[q] # a
          BY <5>1, <4>2, <2>1, ConnectionsAssumption
        <5> QED
          BY <5>1, <5>2, <3>2
      <4> QED
        BY <4>1, <4>2
    <3>4. \A b \in Addrs : connections'[b].peer \in {NoPeer, PeerAt(b)}
      BY <3>2
    <3>5. \A b \in Incoming : connections'[b] # NoEntry => \E d \in Conns : addrOf[d] = b
      BY <2>1, <2>3, <3>2, PeerOfAddress
    <3> QED
      BY <2>1, <3>2, <3>3, <3>4, <3>5
  <2> QED
    BY <2>2, <2>3
<1>4. CASE monitorConnection(c)
  <2>1. /\ stage[c] = "ready" /\ addrOf[c] \in Addrs
        /\ stage' = [stage EXCEPT ![c] = "over"]
        /\ UNCHANGED <<known, addrOf, up, pc, at, conn, arrived>>
        /\ Remove(addrOf[c])
    BY <1>4 DEF monitorConnection, callVars
  <2> QED
    BY <2>1, RemoveEffect, PeerOfAddress
<1> QED
  BY <1>1, <1>2, <1>3, <1>4

(* A connection that a peer opens comes under an address of its own. *)
LEMMA AcceptConn ==
  ASSUME ConnInv, NEW c \in Conns, NEW a \in Incoming, acceptConnections(c, a)
  PROVE  ConnInv'
<1> USE DEF ConnInv, ConnTypeOK
<1>1. /\ stage[c] = "none" /\ a \in Addrs /\ (\A d \in Conns : addrOf[d] # a)
      /\ stage' = [stage EXCEPT ![c] = "handshake"]
      /\ addrOf' = [addrOf EXCEPT ![c] = a]
      /\ up' = up \cup {c}
      /\ connections' = [connections EXCEPT ![a] = Entry(c, NoPeer)]
      /\ UNCHANGED <<peerConnections, known, pc, at, conn, arrived>>
  BY PeerOfAddress DEF acceptConnections, NextConn, callVars
<1>2. Entry(c, NoPeer) \in [conn : Conns \cup {NoConn}, peer : Peers \cup {NoPeer}]
      /\ Entry(c, NoPeer).peer = NoPeer
  BY DEF Entry
<1>3. connections[a].peer = NoPeer
  BY <1>1 DEF NoEntry
<1>4. /\ connections' \in [Addrs -> [conn : Conns \cup {NoConn}, peer : Peers \cup {NoPeer}]]
      /\ \A b \in Addrs : connections'[b].peer = connections[b].peer
      /\ \A b \in Addrs : b # a => connections'[b] = connections[b]
  BY <1>1, <1>2, <1>3
<1>5. AddressBookIsSound'
  BY <1>1, <1>4 DEF AddressBookIsSound, Connected
<1>6. /\ addrOf' \in [Conns -> Addrs \cup {NoAddr}] /\ addrOf'[c] = a
      /\ \A d \in Conns : d # c => addrOf'[d] = addrOf[d]
      /\ stage' \in [Conns -> {"none", "handshake", "entering", "dialled", "ready", "over"}]
      /\ stage'[c] = "handshake" /\ \A d \in Conns : d # c => stage'[d] = stage[d]
  BY <1>1
<1>7. \A d \in Conns :
        /\ stage'[d] = "none" => addrOf'[d] = NoAddr
        /\ stage'[d] \in {"handshake", "entering"} => addrOf'[d] \in Incoming
        /\ stage'[d] = "entering" => PeerAt(addrOf'[d]) \in known
        /\ stage'[d] = "ready" => addrOf'[d] \in Addrs
  BY <1>6
<1>8. \A t \in Threads :
        pc[t] = "handshake" => /\ at[t] \in Addrs \ Incoming
                               /\ conn[t] \in Conns
                               /\ stage'[conn[t]] # "none"
                               /\ addrOf'[conn[t]] = at[t]
  BY <1>1, <1>6
<1>9. \A b \in Incoming : connections'[b] # NoEntry => \E d \in Conns : addrOf'[d] = b
  <2> SUFFICES ASSUME NEW b \in Incoming, connections'[b] # NoEntry
               PROVE  \E d \in Conns : addrOf'[d] = b
    OBVIOUS
  <2>1. CASE b = a
    BY <2>1, <1>6
  <2>2. CASE b # a
    <3>1. PICK d \in Conns : addrOf[d] = b
      BY <2>2, <1>4, PeerOfAddress
    <3>2. d # c
      BY <3>1, <1>1, ConnectionsAssumption, PeerOfAddress
    <3> QED
      BY <3>1, <3>2, <1>6
  <2> QED
    BY <2>1, <2>2
<1>10. ConnTypeOK'
  BY <1>1, <1>4, <1>6
<1> QED
  BY <1>1, <1>4, <1>5, <1>7, <1>8, <1>9, <1>10

(* A goroutine that connects: a dead entry is removed, a new connection is    *)
(* dialled and entered under its address, over another one that may be there. *)
LEMMA StepConn ==
  ASSUME ConnInv, NEW t \in Threads, ConnectToPeer(t) \/ Dial(t) \/ PerformHandshake(t)
  PROVE  ConnInv'
<1> USE DEF ConnInv, ConnTypeOK
<1>1. CASE ConnectToPeer(t) /\ pc'[t] = "write"
  <2>1. /\ pc' = [pc EXCEPT ![t] = "write"]
        /\ conn' = [conn EXCEPT ![t] = connections[at[t]].conn]
        /\ UNCHANGED <<connections, peerConnections, known, stage, addrOf, up, at, arrived>>
        /\ at[t] \in Addrs
    BY <1>1 DEF ConnectToPeer, table
  <2>2. conn' \in [Threads -> Conns \cup {NoConn}]
    BY <2>1
  <2>3. pc' \in [Threads -> Steps]
    BY <2>1 DEF Steps
  <2> QED
    BY <2>1, <2>2, <2>3, ConnFrame DEF table
<1>2. CASE ConnectToPeer(t) /\ pc'[t] # "write"
  <2>1. /\ pc[t] = "connect" /\ pc' = [pc EXCEPT ![t] = "dial"]
        /\ UNCHANGED <<known, stage, addrOf, up, at, conn, arrived>>
        /\ at[t] \in Addrs
        /\ Remove(at[t]) \/ UNCHANGED <<connections, peerConnections>>
    BY <1>2 DEF ConnectToPeer, table
  <2>2. pc' \in [Threads -> Steps] /\ \A u \in Threads : u # t => pc'[u] = pc[u]
    BY <2>1 DEF Steps
  <2>3. CASE Remove(at[t])
    BY <2>1, <2>2, <2>3, RemoveEffect, PeerOfAddress
  <2>4. CASE UNCHANGED <<connections, peerConnections>>
    <3>1. AddressBookIsSound'
      BY <2>4 DEF AddressBookIsSound, Connected
    <3> QED
      BY <2>1, <2>2, <2>4, <3>1
  <2> QED
    BY <2>1, <2>3, <2>4
<1>3. CASE Dial(t) /\ pc'[t] # "handshake"
  <2>1. /\ pc' = [pc EXCEPT ![t] = "error"]
        /\ UNCHANGED <<connections, peerConnections, known, stage, addrOf, up, at, conn, arrived>>
    BY <1>3 DEF Dial, table
  <2>2. pc' \in [Threads -> Steps]
    BY <2>1 DEF Steps
  <2> QED
    BY <2>1, <2>2, ConnFrame DEF table
<1>4. CASE Dial(t) /\ pc'[t] = "handshake"
  <2>1. PICK c \in Conns :
        /\ stage[c] = "none" /\ at[t] \notin Incoming /\ at[t] \in Addrs
        /\ stage' = [stage EXCEPT ![c] = "dialled"]
        /\ addrOf' = [addrOf EXCEPT ![c] = at[t]]
        /\ up' = up \cup {c}
        /\ conn' = [conn EXCEPT ![t] = c]
        /\ pc' = [pc EXCEPT ![t] = "handshake"]
        /\ UNCHANGED <<connections, peerConnections, known, at, arrived>>
    BY <1>4 DEF Dial, NextConn, table
  <2>2. pc' \in [Threads -> Steps] /\ conn' \in [Threads -> Conns \cup {NoConn}]
    BY <2>1 DEF Steps
  <2>3. AddressBookIsSound'
    BY <2>1 DEF AddressBookIsSound, Connected
  <2>4. /\ addrOf' \in [Conns -> Addrs \cup {NoAddr}] /\ addrOf'[c] = at[t]
        /\ \A d \in Conns : d # c => addrOf'[d] = addrOf[d]
        /\ stage' \in [Conns -> {"none", "handshake", "entering", "dialled", "ready", "over"}]
        /\ stage'[c] = "dialled" /\ \A d \in Conns : d # c => stage'[d] = stage[d]
    BY <2>1
  <2>5. ConnTypeOK'
    BY <2>1, <2>2, <2>4
  <2>6. \A u \in Threads :
          pc'[u] = "handshake" => /\ at[u] \in Addrs \ Incoming
                                  /\ conn'[u] \in Conns
                                  /\ stage'[conn'[u]] # "none"
                                  /\ addrOf'[conn'[u]] = at[u]
    BY <2>1, <2>4
  <2>7. \A d \in Conns :
          /\ stage'[d] = "none" => addrOf'[d] = NoAddr
          /\ stage'[d] \in {"handshake", "entering"} => addrOf'[d] \in Incoming
          /\ stage'[d] = "entering" => PeerAt(addrOf'[d]) \in known
          /\ stage'[d] = "ready" => addrOf'[d] \in Addrs
    BY <2>4
  <2>8. \A b \in Incoming : connections[b] # NoEntry => \E d \in Conns : addrOf'[d] = b
    <3> SUFFICES ASSUME NEW b \in Incoming, connections[b] # NoEntry
                 PROVE  \E d \in Conns : addrOf'[d] = b
      OBVIOUS
    <3>1. PICK d \in Conns : addrOf[d] = b
      OBVIOUS
    <3>2. d # c
      BY <3>1, <2>1, ConnectionsAssumption, PeerOfAddress
    <3> QED
      BY <3>1, <3>2, <2>4
  <2> QED
    BY <2>1, <2>2, <2>3, <2>5, <2>6, <2>7, <2>8
<1>5. CASE PerformHandshake(t) /\ pc'[t] # "write"
  <2>1. /\ pc[t] = "handshake" /\ conn[t] \in Conns
        /\ pc' = [pc EXCEPT ![t] = "error"]
        /\ up' = up \ {conn[t]}
        /\ stage' = [stage EXCEPT ![conn[t]] = "over"]
        /\ UNCHANGED <<connections, peerConnections, known, arrived, addrOf, at, conn>>
    BY <1>5 DEF PerformHandshake, table
  <2>2. pc' \in [Threads -> Steps] /\ \A u \in Threads : u # t => pc'[u] = pc[u]
    BY <2>1 DEF Steps
  <2>3. AddressBookIsSound'
    BY <2>1 DEF AddressBookIsSound, Connected
  <2> QED
    BY <2>1, <2>2, <2>3
<1>6. CASE PerformHandshake(t) /\ pc'[t] = "write"
  <2> DEFINE c == conn[t]
             a == at[t]
             p == PeerAt(a)
  <2>1. /\ pc[t] = "handshake" /\ c \in Conns /\ a \in Addrs \ Incoming /\ p \in Peers
        /\ stage[c] # "none" /\ addrOf[c] = a
        /\ connections' = [connections EXCEPT ![a] = Entry(c, p)]
        /\ peerConnections' = [peerConnections EXCEPT ![p] = a]
        /\ known' = known \cup {p}
        /\ arrived' = arrived \cup {p}
        /\ stage' = [stage EXCEPT ![c] = "ready"]
        /\ pc' = [pc EXCEPT ![t] = "write"]
        /\ UNCHANGED <<up, addrOf, at, conn>>
    BY <1>6, PeerOfAddress DEF PerformHandshake
  <2>2. pc' \in [Threads -> Steps] /\ \A u \in Threads : u # t => pc'[u] = pc[u]
    BY <2>1 DEF Steps
  <2>3. /\ Entry(c, p) \in [conn : Conns \cup {NoConn}, peer : Peers \cup {NoPeer}]
        /\ Entry(c, p).peer = p
    BY <2>1 DEF Entry
  <2>4. /\ connections' \in [Addrs -> [conn : Conns \cup {NoConn}, peer : Peers \cup {NoPeer}]]
        /\ connections'[a].peer = p
        /\ \A b \in Addrs : b # a => connections'[b] = connections[b]
        /\ peerConnections' \in [Peers -> Addrs \cup {NoAddr}]
        /\ peerConnections'[p] = a
        /\ \A q \in Peers : q # p => peerConnections'[q] = peerConnections[q]
    BY <2>1, <2>3
  <2>5. AddressBookIsSound'
    <3> SUFFICES ASSUME NEW q \in Peers, peerConnections'[q] # NoAddr
                 PROVE  connections'[peerConnections'[q]].peer = q
      BY DEF AddressBookIsSound, Connected
    <3>1. CASE q = p
      BY <3>1, <2>4
    <3>2. CASE q # p
      <4>1. /\ peerConnections'[q] = peerConnections[q] /\ peerConnections[q] \in Addrs
            /\ connections[peerConnections[q]].peer = q
        BY <3>2, <2>4 DEF AddressBookIsSound, Connected
      <4>2. peerConnections[q] # a
        BY <4>1, <3>2, <2>1, ConnectionsAssumption
      <4> QED
        BY <4>1, <4>2, <2>4
    <3> QED
      BY <3>1, <3>2
  <2>6. \A b \in Incoming : connections'[b] = connections[b]
    BY <2>1, <2>4, PeerOfAddress
  <2>7. ConnTypeOK'
    BY <2>1, <2>2, <2>4
  <2>8. \A b \in Addrs : connections'[b].peer \in {NoPeer, PeerAt(b)}
    BY <2>4
  <2> QED
    BY <2>1, <2>2, <2>4, <2>5, <2>6, <2>7, <2>8
<1> QED
  BY <1>1, <1>2, <1>3, <1>4, <1>5, <1>6

(* Connections end, by the network or by the node itself. *)
LEMMA EndConn ==
  ASSUME ConnInv, ConnectionEnds PROVE ConnInv'
<1> USE DEF ConnInv, ConnTypeOK
<1>1. ASSUME NEW c \in Conns, Closes(c) PROVE ConnInv'
  BY <1>1, ConnFrame DEF Closes, callVars
<1>2. ASSUME NEW a \in Addrs, DisconnectFromPeer(a) PROVE ConnInv'
  <2>1. /\ up' \subseteq up /\ Remove(a)
        /\ UNCHANGED <<known, stage, addrOf, pc, at, conn, arrived>>
    BY <1>2 DEF DisconnectFromPeer, callVars
  <2> QED
    BY <2>1, RemoveEffect, PeerOfAddress
<1> QED
  BY <1>1, <1>2 DEF ConnectionEnds

(* A restart empties the tables; the addresses of connections that are over   *)
(* are not used again.                                                        *)
LEMMA RestartConn ==
  ASSUME ConnInv, Restart PROVE ConnInv'
<1>1. /\ connections' = [a \in Addrs |-> NoEntry]
      /\ peerConnections' = [p \in Peers |-> NoAddr]
      /\ known' = {} /\ arrived' = {} /\ up' = {}
      /\ stage' = [c \in Conns |-> IF stage[c] = "none" THEN "none" ELSE "over"]
      /\ addrOf' = addrOf
      /\ at' = [t \in Threads |-> NoAddr] /\ conn' = [t \in Threads |-> NoConn]
      /\ pc' = [t \in Threads |-> IF t \in Workers THEN "idle" ELSE "over"]
  BY DEF Restart
<1>2. pc' \in [Threads -> Steps] /\ \A t \in Threads : pc'[t] \in {"idle", "over"}
  BY <1>1 DEF Steps
<1>3. NoEntry \in [conn : Conns \cup {NoConn}, peer : Peers \cup {NoPeer}] /\ NoEntry.peer = NoPeer
  BY DEF NoEntry
<1>4. /\ stage' \in [Conns -> {"none", "handshake", "entering", "dialled", "ready", "over"}]
      /\ \A c \in Conns : /\ stage'[c] = "none" <=> stage[c] = "none"
                          /\ stage'[c] \in {"none", "over"}
  BY <1>1 DEF ConnInv, ConnTypeOK
<1>5. ConnTypeOK'
  BY <1>1, <1>3, <1>4 DEF ConnInv, ConnTypeOK
<1>6. AddressBookIsSound'
  BY <1>1 DEF AddressBookIsSound, Connected
<1>7. \A a \in Addrs : connections'[a] = NoEntry
  BY <1>1
<1> QED
  BY <1>1, <1>2, <1>3, <1>4, <1>5, <1>6, <1>7, PeerOfAddress DEF ConnInv

(* Steps of the store: they read the tables, and start a connection to an     *)
(* address that is in them.                                                   *)
LEMMA StoreConn ==
  ASSUME ConnInv, NEW t \in Threads,
         SendMessageToPeer(t) => Carried(t) \in Messages,
         \/ SendMessageToPeer(t) \/ SendMessage(t)
         \/ \E p \in Peers : Ping(t, p)
         \/ t \in Workers /\ DeliverPendingMessages(t)
         \/ t \in Workers /\ (EndOfRow(t) \/ EndOfRound(t))
         \/ t \in Workers /\ \E p \in Peers :
              OnPeerConnected(t, p) \/ runPeriodicDeliveryAttempts(t, p)
  PROVE  ConnInv'
<1> USE DEF ConnInv, ConnTypeOK
<1>1. CASE SendMessageToPeer(t)
  <2>1. /\ UNCHANGED <<connections, peerConnections, known, stage, addrOf, up, conn, arrived>>
        /\ \/ /\ pc' = [pc EXCEPT ![t] = "connect"]
              /\ at' = [at EXCEPT ![t] = peerConnections[To[Carried(t)]]]
              /\ peerConnections[To[Carried(t)]] # NoAddr
           \/ /\ UNCHANGED at
              /\ \E s \in {"sent", "failed", "over"} : pc' = [pc EXCEPT ![t] = s]
    BY <1>1 DEF SendMessageToPeer, Answer, Connected, table
  <2>2. peerConnections[To[Carried(t)]] \in Addrs \cup {NoAddr}
    BY <1>1, LocalStoreAssumption
  <2>3. pc' \in [Threads -> Steps]
    BY <2>1 DEF Steps
  <2>4. at' \in [Threads -> Addrs \cup {NoAddr}]
    BY <2>1, <2>2
  <2> QED
    BY <2>1, <2>2, <2>3, <2>4, ConnFrame DEF table
<1>2. CASE SendMessage(t)
  <2>1. /\ UNCHANGED <<table, known, stage, addrOf, up, at, conn, arrived>>
        /\ \E s \in {"sent", "failed", "over"} : pc' = [pc EXCEPT ![t] = s]
    BY <1>2 DEF SendMessage, Answer
  <2>2. pc' \in [Threads -> Steps]
    BY <2>1 DEF Steps
  <2> QED
    BY <2>1, <2>2, ConnFrame
<1>3. ASSUME NEW p \in Peers, Ping(t, p) PROVE ConnInv'
  <2>1. /\ UNCHANGED <<table, known, stage, addrOf, up, conn, arrived>>
        /\ pc' = [pc EXCEPT ![t] = "connect"]
        /\ at' = [at EXCEPT ![t] = Listening[p]]
        /\ Listening[p] \in Addrs
    BY <1>3, PeerOfAddress DEF Ping
  <2>2. pc' \in [Threads -> Steps]
    BY <2>1 DEF Steps
  <2>3. at' \in [Threads -> Addrs \cup {NoAddr}]
    BY <2>1
  <2> QED
    BY <2>1, <2>2, <2>3, ConnFrame
<1>4. CASE t \in Workers /\ DeliverPendingMessages(t)
  <2>1. /\ UNCHANGED <<table, known, stage, addrOf, up, at, conn, arrived>>
        /\ pc' = pc \/ pc' = [pc EXCEPT ![t] = "send"]
    BY <1>4 DEF DeliverPendingMessages
  <2>2. pc' \in [Threads -> Steps]
    BY <2>1 DEF Steps
  <2> QED
    BY <2>1, <2>2, ConnFrame
<1>5. CASE t \in Workers /\ EndOfRow(t)
  <2>1. /\ UNCHANGED <<table, known, stage, addrOf, up, arrived>>
        /\ pc' = [pc EXCEPT ![t] = "next"]
        /\ at' = [at EXCEPT ![t] = NoAddr] /\ conn' = [conn EXCEPT ![t] = NoConn]
    BY <1>5 DEF EndOfRow
  <2>2. pc' \in [Threads -> Steps]
    BY <2>1 DEF Steps
  <2>3. at' \in [Threads -> Addrs \cup {NoAddr}] /\ conn' \in [Threads -> Conns \cup {NoConn}]
    BY <2>1
  <2> QED
    BY <2>1, <2>2, <2>3, ConnFrame
<1>6. CASE t \in Workers /\ EndOfRound(t)
  <2>1. /\ UNCHANGED <<table, known, stage, addrOf, up, at, conn, arrived>>
        /\ pc' = [pc EXCEPT ![t] = "idle"]
    BY <1>6 DEF EndOfRound
  <2>2. pc' \in [Threads -> Steps]
    BY <2>1 DEF Steps
  <2> QED
    BY <2>1, <2>2, ConnFrame
<1>7. ASSUME NEW p \in Peers, OnPeerConnected(t, p) \/ runPeriodicDeliveryAttempts(t, p)
      PROVE  ConnInv'
  <2>1. /\ UNCHANGED <<table, known, stage, addrOf, up, at, conn>> /\ arrived' \subseteq arrived
        /\ pc' = pc \/ pc' = [pc EXCEPT ![t] = "next"]
    BY <1>7 DEF OnPeerConnected, runPeriodicDeliveryAttempts, StartDelivery
  <2>2. pc' \in [Threads -> Steps]
    BY <2>1 DEF Steps
  <2> QED
    BY <2>1, <2>2, ConnFrame
<1> QED
  BY <1>1, <1>2, <1>3, <1>4, <1>5, <1>6, <1>7

-----------------------------------------------------------------------------
(* The store.                                                               *)

RowType == [m : Messages \cup {NoMessage},
            status : {"none", "pending", "delivered", "failed", "expired"},
            attempts : Nat]

Used(r) == row[r].status # "none"

(* The worker is between taking a row and the end of its delivery. *)
OnRow(w) == pc[w] \in {"send", "connect", "dial", "handshake", "write", "error", "sent", "failed"}

(* A row that is used stays the row of its message, so what a worker has read  *)
(* of it earlier still names the message and is not ahead of the row.          *)
StoreInv ==
  /\ public \subseteq Peers
  /\ row \in [Rows -> RowType]
  /\ usage \in Nat
  /\ todo \in [Workers -> SUBSET (Rows \X Nat)]
  /\ job \in [Workers -> (Rows \cup {0}) \X Nat]
  /\ reply \in [Messages -> {"none", "ok", "error"}]
  /\ written \subseteq Messages
  /\ faults \in 0 .. MaxFaults
  /\ \A r \in Rows : IF Used(r) THEN row[r].m \in Messages ELSE row[r] = NoRow
  /\ \A w \in Workers : \A x \in todo[w] : Used(x[1]) /\ x[2] <= row[x[1]].attempts
  /\ \A w \in Workers : \A x, y \in todo[w] : x[1] = y[1] => x = y
  /\ \A w \in Workers : OnRow(w) => job[w][1] \in Rows /\ Used(job[w][1])
  /\ \A t \in Threads \ Workers : pc[t] \notin {"next", "send", "sent", "failed"}

(* What every step does to the rows: none is freed, none changes its message,  *)
(* and attempts are only added.                                                *)
RowsGrow ==
  /\ row' \in [Rows -> RowType]
  /\ \A r \in Rows :
       /\ Used(r) => /\ Used(r)' /\ row'[r].m = row[r].m
                     /\ row[r].attempts <= row'[r].attempts
       /\ IF Used(r)' THEN row'[r].m \in Messages ELSE row'[r] = NoRow

(* The first state has no rows. *)
LEMMA StoreInitInv == Init => StoreInv
<1> SUFFICES ASSUME Init PROVE StoreInv
  OBVIOUS
<1> USE DEF Init, ConnInit
<1>1. NoRow \in RowType /\ NoRow.status = "none"
  BY DEF NoRow, RowType
<1>2. 0 \in 0 .. MaxFaults
  BY LocalStoreAssumption
<1>3. \A t \in Threads : pc[t] = "idle"
  OBVIOUS
<1>4. \A w \in Workers : w \in Threads
  BY LocalStoreAssumption
<1>5. \A r \in Rows : row[r] = NoRow
  OBVIOUS
<1>6. <<0, 0>> \in (Rows \cup {0}) \X Nat
  OBVIOUS
<1> QED
  BY <1>1, <1>2, <1>3, <1>4, <1>5, <1>6 DEF StoreInv, Used, OnRow

(* Rows that grow keep what a worker has read, if the worker goes on with what *)
(* it had or with a row of its list.                                           *)
LEMMA StoreFrame ==
  ASSUME StoreInv, RowsGrow,
         public' \subseteq public, usage' \in Nat,
         reply' \in [Messages -> {"none", "ok", "error"}], written' \subseteq Messages,
         faults' \in 0 .. MaxFaults,
         todo' \in [Workers -> SUBSET (Rows \X Nat)],
         job' \in [Workers -> (Rows \cup {0}) \X Nat],
         \A w \in Workers : todo'[w] \subseteq todo[w],
         \A w \in Workers : OnRow(w)' => \/ OnRow(w) /\ job'[w] = job[w]
                                         \/ job'[w] \in todo[w],
         \A t \in Threads \ Workers : pc'[t] \notin {"next", "send", "sent", "failed"}
  PROVE  StoreInv'
<1>1. \A w \in Workers : \A x \in todo'[w] : Used(x[1])' /\ x[2] <= row'[x[1]].attempts
  <2> SUFFICES ASSUME NEW w \in Workers, NEW x \in todo'[w]
               PROVE  Used(x[1])' /\ x[2] <= row'[x[1]].attempts
    OBVIOUS
  <2>1. x[1] \in Rows /\ x[2] \in Nat /\ Used(x[1]) /\ x[2] <= row[x[1]].attempts
    BY DEF StoreInv
  <2>2. Used(x[1])' /\ row[x[1]].attempts <= row'[x[1]].attempts
    BY <2>1 DEF RowsGrow
  <2>3. row[x[1]].attempts \in Nat /\ row'[x[1]].attempts \in Nat
    BY <2>1 DEF RowsGrow, StoreInv, RowType
  <2> QED
    BY <2>1, <2>2, <2>3
<1>2. \A w \in Workers : OnRow(w)' => (job[w][1] \in Rows /\ Used(job[w][1]))'
  <2> SUFFICES ASSUME NEW w \in Workers, OnRow(w)'
               PROVE  job'[w][1] \in Rows /\ row'[job'[w][1]].status # "none"
    BY DEF Used
  <2>1. job'[w][1] \in Rows /\ Used(job'[w][1])
    BY DEF StoreInv
  <2> QED
    BY <2>1 DEF RowsGrow, Used
<1>3. \A w \in Workers : \A x, y \in todo'[w] : x[1] = y[1] => x = y
  BY DEF StoreInv
<1> QED
  BY <1>1, <1>2, <1>3 DEF StoreInv, RowsGrow

(* An accepted message, if it was not written yet, has a row that is still     *)
(* there and that no worker is about to mark as delivered.                     *)
Kept == {"pending", "failed", "expired"}

Safe(m) == \E r \in Rows : /\ row[r].m = m /\ row[r].status \in Kept
                           /\ \A w \in Workers : pc[w] = "sent" => job[w][1] # r

KeepInv == \A m \in Messages : reply[m] = "ok" => m \in written \/ Safe(m)

(* A row leaves the kept ones only when its worker marks it after a delivery. *)
LEMMA KeepFrame ==
  ASSUME StoreInv, KeepInv, RowsGrow, written \subseteq written',
         \A m \in Messages : reply'[m] = "ok" => reply[m] = "ok",
         \A r \in Rows : row[r].status \in Kept /\ row'[r].status \notin Kept
                           => \E w \in Workers : pc[w] = "sent" /\ job[w][1] = r,
         \A w \in Workers : pc'[w] = "sent" => pc[w] = "sent" /\ job'[w] = job[w]
  PROVE  KeepInv'
<1> SUFFICES ASSUME NEW m \in Messages, reply'[m] = "ok", m \notin written'
             PROVE  Safe(m)'
  BY DEF KeepInv
<1>1. PICK r \in Rows : /\ row[r].m = m /\ row[r].status \in Kept
                        /\ \A w \in Workers : pc[w] = "sent" => job[w][1] # r
  BY DEF KeepInv, Safe
<1>2. row'[r].m = m
  BY <1>1 DEF RowsGrow, Used, Kept
<1>3. row'[r].status \in Kept
  BY <1>1
<1>4. \A w \in Workers : pc'[w] = "sent" => job'[w][1] # r
  BY <1>1
<1> QED
  BY <1>2, <1>3, <1>4 DEF Safe

(* A message that is stored takes a free row, the first one. *)
LEMMA StoreEffect ==
  ASSUME StoreInv, NEW m \in Messages, StorePendingMessage(m)
  PROVE  \E r \in Rows : /\ ~Used(r)
                         /\ row'[r].m = m /\ row'[r].status = "pending" /\ row'[r].attempts = 0
                         /\ \A s \in Rows : s # r => row'[s] = row[s]
                         /\ RowsGrow
<1>1. PICK r \in Rows :
        /\ row[r] = NoRow
        /\ row' = [row EXCEPT ![r] = [m |-> m, status |-> "pending", attempts |-> 0]]
  BY DEF StorePendingMessage
<1>2. [m |-> m, status |-> "pending", attempts |-> 0] \in RowType
  BY DEF RowType
<1>3. /\ row' \in [Rows -> RowType]
      /\ row'[r] = [m |-> m, status |-> "pending", attempts |-> 0]
      /\ \A s \in Rows : s # r => row'[s] = row[s]
  BY <1>1, <1>2 DEF StoreInv
<1>4. ~Used(r)
  BY <1>1 DEF Used, NoRow
<1>5. \A s \in Rows : row[s].attempts \in Nat
  BY DEF StoreInv, RowType
<1>6. RowsGrow
  BY <1>3, <1>4, <1>5 DEF RowsGrow, StoreInv, Used
<1> QED
  BY <1>3, <1>4, <1>6

(* A row is marked, unless it has expired. *)
LEMMA MarkEffect ==
  ASSUME StoreInv, NEW r \in Rows, Used(r), NEW s \in {"delivered", "failed"}, MarkMessage(r, s)
  PROVE  /\ RowsGrow
         /\ \A q \in Rows : q # r => row'[q] = row[q]
         /\ row'[r].status \in {s, "expired"} /\ row'[r].attempts = row[r].attempts
<1>1. row' = [row EXCEPT ![r].status = IF @ = "expired" THEN @ ELSE s]
  BY DEF MarkMessage
<1>2. /\ row' \in [Rows -> RowType]
      /\ \A q \in Rows : q # r => row'[q] = row[q]
      /\ row'[r].status \in {s, "expired"} /\ row'[r].attempts = row[r].attempts
      /\ row'[r].m = row[r].m
  BY <1>1 DEF StoreInv, RowType
<1>3. \A q \in Rows : row[q].attempts \in Nat
  BY DEF StoreInv, RowType
<1> QED
  BY <1>2, <1>3 DEF RowsGrow, StoreInv, Used

(* The rows stay as they are. *)
LEMMA SameRows ==
  ASSUME StoreInv, UNCHANGED row PROVE RowsGrow
<1>1. \A q \in Rows : row[q].attempts \in Nat
  BY DEF StoreInv, RowType
<1> QED
  BY <1>1 DEF RowsGrow, StoreInv, Used

(* Storage is counted in natural numbers. *)
LEMMA UsageType ==
  ASSUME usage \in Nat, DecrementStorageUsage PROVE usage' \in Nat /\ usage' <= usage
  BY DEF DecrementStorageUsage

(* Faults stay within their bound. *)
LEMMA FaultType ==
  ASSUME faults \in 0 .. MaxFaults, Fault PROVE faults' \in 0 .. MaxFaults
  BY LocalStoreAssumption DEF Fault

(* Sending: the message goes on to a connection, into a row, or is refused. A *)
(* delivery that stores its message again has a new row for it before its old *)
(* one is marked.                                                             *)
LEMMA SendStore ==
  ASSUME ConnInv, StoreInv, KeepInv, NEW t \in Messages \cup Workers, SendMessageToPeer(t)
  PROVE  Carried(t) \in Messages /\ StoreInv' /\ KeepInv'
<1>1. t \in Threads /\ (t \in Workers <=> t \notin Messages)
  BY LocalStoreAssumption
<1>2. Carried(t) \in Messages
  <2>1. CASE t \in Workers
    <3>1. pc[t] = "send"
      BY <2>1, <1>1 DEF SendMessageToPeer
    <3>2. job[t][1] \in Rows /\ Used(job[t][1])
      BY <2>1, <3>1 DEF StoreInv, OnRow
    <3> QED
      BY <2>1, <3>2 DEF Carried, StoreInv
  <2>2. CASE t \notin Workers
    BY <2>2 DEF Carried
  <2> QED
    BY <2>1, <2>2
<1>0. PICK m \in Messages : m = Carried(t)
  BY <1>2
<1>3. /\ UNCHANGED <<public, todo, job, written, faults>>
      /\ pc \in [Threads -> Steps]
      /\ t \in Workers => pc[t] = "send"
      /\ t \notin Workers => pc[t] = "idle"
  BY <1>1 DEF SendMessageToPeer, ConnInv
<1>4. CASE UNCHANGED <<row, usage, reply>> /\ pc' = [pc EXCEPT ![t] = "connect"]
  <2>1. RowsGrow
    BY <1>4, SameRows
  <2>2. \A u \in Threads : pc'[u] = pc[u] \/ (u = t /\ pc'[u] = "connect")
    BY <1>1, <1>3, <1>4
  <2>3. \A w \in Workers : /\ OnRow(w)' => OnRow(w)
                           /\ pc'[w] = "sent" => pc[w] = "sent"
    BY <1>1, <1>3, <2>2, LocalStoreAssumption DEF OnRow
  <2>4. \A u \in Threads \ Workers : pc'[u] \notin {"next", "send", "sent", "failed"}
    BY <2>2 DEF StoreInv
  <2>5. StoreInv'
    BY <1>3, <1>4, <2>1, <2>3, <2>4, StoreFrame DEF StoreInv
  <2>6. KeepInv'
    BY <1>3, <1>4, <2>1, <2>3, KeepFrame
  <2> QED
    BY <1>2, <2>5, <2>6
<1>5. ASSUME NEW ok \in BOOLEAN, Answer(t, ok) PROVE
        /\ reply' \in [Messages -> {"none", "ok", "error"}]
        /\ \A k \in Messages : reply'[k] = "ok" => reply[k] = "ok" \/ (k = t /\ ok)
        /\ \A u \in Threads : u # t => pc'[u] = pc[u]
        /\ t \in Workers => pc'[t] = IF ok THEN "sent" ELSE "failed"
        /\ t \notin Workers => pc'[t] = "over"
  BY <1>1, <1>3, <1>5 DEF Answer, StoreInv
<1>6. CASE StoreMessage(m) /\ Answer(t, TRUE)
  <2>1. PICK r \in Rows :
          /\ ~Used(r) /\ row'[r].m = m /\ row'[r].status = "pending"
          /\ \A s \in Rows : s # r => row'[s] = row[s]
          /\ RowsGrow
    BY <1>2, <1>6, StoreEffect DEF StoreMessage
  <2>2. usage' \in Nat
    BY <1>6 DEF StoreMessage, IncrementStorageUsage, StoreInv
  <2>3. \A w \in Workers : OnRow(w)' => OnRow(w)
    BY <1>1, <1>3, <1>5, <1>6, LocalStoreAssumption DEF OnRow
  <2>4. \A u \in Threads \ Workers : pc'[u] \notin {"next", "send", "sent", "failed"}
    BY <1>5, <1>6, LocalStoreAssumption DEF StoreInv
  <2>5. StoreInv'
    BY <1>3, <1>5, <1>6, <2>1, <2>2, <2>3, <2>4, StoreFrame DEF StoreInv
  <2>6. \A w \in Workers : pc'[w] = "sent" => OnRow(w) /\ Used(job[w][1])
    <3>1. \A w \in Workers : pc'[w] = "sent" => OnRow(w)
      BY <2>3 DEF OnRow
    <3> QED
      BY <3>1 DEF StoreInv
  <2>7. Safe(m)'
    <3>1. \A w \in Workers : pc'[w] = "sent" => job'[w][1] # r
      BY <1>3, <2>1, <2>6
    <3>2. row'[r].status \in Kept
      BY <2>1 DEF Kept
    <3> QED
      BY <2>1, <3>1, <3>2 DEF Safe
  <2>8. ASSUME NEW k \in Messages, k # m, reply'[k] = "ok", k \notin written'
        PROVE  Safe(k)'
    <3>1. reply[k] = "ok"
      <4>1. k # t \/ t \in Workers
        BY <1>0, <2>8 DEF Carried
      <4> QED
        BY <4>1, <1>1, <1>5, <1>6, <2>8
    <3>2. PICK s \in Rows : /\ row[s].m = k /\ row[s].status \in Kept
                            /\ \A w \in Workers : pc[w] = "sent" => job[w][1] # s
      BY <1>3, <2>8, <3>1 DEF KeepInv, Safe
    <3>3. s # r
      BY <2>1, <3>2 DEF Used, Kept
    <3>4. row'[s] = row[s]
      BY <2>1, <3>3
    <3>5. ASSUME NEW w \in Workers, pc'[w] = "sent" PROVE job'[w][1] # s
      <4>1. CASE pc[w] = "sent"
        BY <4>1, <3>2, <1>3
      <4>2. CASE pc[w] # "sent"
        <5>1. w = t
          BY <4>2, <3>5, <1>5, <1>6, LocalStoreAssumption
        <5>2. row[job[w][1]].m = m
          BY <1>0, <5>1 DEF Carried
        <5> QED
          BY <5>2, <3>2, <2>8, <1>3
      <4> QED
        BY <4>1, <4>2
    <3> QED
      BY <3>2, <3>4, <3>5 DEF Safe
  <2>9. KeepInv'
    BY <2>7, <2>8 DEF KeepInv
  <2> QED
    BY <1>2, <2>5, <2>9
<1>7. CASE Answer(t, FALSE) /\ UNCHANGED <<row, usage>>
  <2>1. RowsGrow
    BY <1>7, SameRows
  <2>2. \A w \in Workers : OnRow(w)' => OnRow(w)
    BY <1>1, <1>3, <1>5, <1>7, LocalStoreAssumption DEF OnRow
  <2>3. \A w \in Workers : pc'[w] = "sent" => pc[w] = "sent"
    BY <1>1, <1>5, <1>7, LocalStoreAssumption
  <2>4. \A u \in Threads \ Workers : pc'[u] \notin {"next", "send", "sent", "failed"}
    BY <1>5, <1>7, LocalStoreAssumption DEF StoreInv
  <2>5. StoreInv'
    BY <1>3, <1>5, <1>7, <2>1, <2>2, <2>4, StoreFrame DEF StoreInv
  <2>6. KeepInv'
    BY <1>3, <1>5, <1>7, <2>1, <2>3, KeepFrame
  <2> QED
    BY <1>2, <2>5, <2>6
<1> QED
  BY <1>0, <1>4, <1>6, <1>7 DEF SendMessageToPeer

(* A write on a connection, or its failure. *)
LEMMA WriteStore ==
  ASSUME ConnInv, StoreInv, KeepInv, NEW t \in Messages \cup Workers, SendMessage(t)
  PROVE  StoreInv' /\ KeepInv'
<1>1. t \in Threads /\ (t \in Workers <=> t \notin Messages)
  BY LocalStoreAssumption
<1>2. /\ UNCHANGED <<public, row, usage, todo, job, faults>>
      /\ pc \in [Threads -> Steps]
      /\ pc[t] \in {"write", "error"}
  BY DEF SendMessage, ConnInv
<1>3. \E ok \in BOOLEAN :
        /\ Answer(t, ok)
        /\ IF ok THEN written' = written \cup {Carried(t)} ELSE written' = written
  BY DEF SendMessage
<1>4. PICK ok \in BOOLEAN :
        /\ Answer(t, ok)
        /\ IF ok THEN written' = written \cup {Carried(t)} ELSE written' = written
  BY <1>3
<1>5. Carried(t) \in Messages
  <2>1. CASE t \in Workers
    <3>1. job[t][1] \in Rows /\ Used(job[t][1])
      BY <2>1, <1>2 DEF StoreInv, OnRow
    <3> QED
      BY <2>1, <3>1 DEF Carried, StoreInv
  <2>2. CASE t \notin Workers
    BY <2>2 DEF Carried
  <2> QED
    BY <2>1, <2>2
<1>6. /\ reply' \in [Messages -> {"none", "ok", "error"}]
      /\ \A k \in Messages : reply'[k] = "ok" => reply[k] = "ok" \/ (k = t /\ ok)
      /\ \A u \in Threads : u # t => pc'[u] = pc[u]
      /\ t \in Workers => pc'[t] = IF ok THEN "sent" ELSE "failed"
      /\ t \notin Workers => pc'[t] = "over"
  BY <1>1, <1>2, <1>4 DEF Answer, StoreInv
<1>7. RowsGrow
  BY <1>2, SameRows
<1>8. \A w \in Workers : OnRow(w)' => OnRow(w)
  BY <1>1, <1>2, <1>6, LocalStoreAssumption DEF OnRow
<1>9. \A u \in Threads \ Workers : pc'[u] \notin {"next", "send", "sent", "failed"}
  BY <1>6, LocalStoreAssumption DEF StoreInv
<1>10. StoreInv'
  BY <1>2, <1>4, <1>5, <1>6, <1>7, <1>8, <1>9, StoreFrame DEF StoreInv
<1>11. ASSUME NEW k \in Messages, reply'[k] = "ok", k \notin written'
       PROVE  Safe(k)'
  <2>1. k # Carried(t) \/ ~ok
    BY <1>4, <1>11
  <2>2. k \notin written
    BY <1>4, <1>11
  <2>3. reply[k] = "ok"
    BY <1>6, <1>11, <2>1, <1>1 DEF Carried
  <2>4. PICK s \in Rows : /\ row[s].m = k /\ row[s].status \in Kept
                          /\ \A w \in Workers : pc[w] = "sent" => job[w][1] # s
    BY <2>2, <2>3 DEF KeepInv, Safe
  <2>5. ASSUME NEW w \in Workers, pc'[w] = "sent" PROVE job'[w][1] # s
    <3>1. CASE w # t
      BY <3>1, <2>4, <2>5, <1>2, <1>6, LocalStoreAssumption
    <3>2. CASE w = t
      <4>1. ok /\ row[job[w][1]].m = Carried(t)
        BY <3>2, <2>5, <1>6 DEF Carried
      <4> QED
        BY <4>1, <2>1, <2>4, <1>2
    <3> QED
      BY <3>1, <3>2
  <2> QED
    BY <2>4, <2>5, <1>2 DEF Safe
<1> QED
  BY <1>10, <1>11 DEF KeepInv

(* A round begins with the rows of its peer, as they are. *)
LEMMA RoundStore ==
  ASSUME ConnInv, StoreInv, KeepInv, NEW w \in Workers, NEW p \in Peers,
         OnPeerConnected(w, p) \/ runPeriodicDeliveryAttempts(w, p)
  PROVE  StoreInv' /\ KeepInv'
<1>1. UNCHANGED <<public, row, usage, job, reply, written, faults>>
  BY DEF OnPeerConnected, runPeriodicDeliveryAttempts
<1>2. RowsGrow
  BY <1>1, SameRows
<1>3. CASE UNCHANGED <<todo, pc>>
  <2>1. StoreInv'
    BY <1>1, <1>2, <1>3, StoreFrame DEF StoreInv, OnRow
  <2>2. KeepInv'
    BY <1>1, <1>2, <1>3, KeepFrame
  <2> QED
    BY <2>1, <2>2
<1>4. CASE StartDelivery(w, p)
  <2> DEFINE new == {<<r, row[r].attempts>> : r \in Pending(p)}
  <2>1. /\ todo' = [todo EXCEPT ![w] = new]
        /\ pc' = [pc EXCEPT ![w] = "next"] /\ pc \in [Threads -> Steps]
    BY <1>4 DEF StartDelivery, ConnInv
  <2>2. \A r \in Pending(p) : r \in Rows /\ row[r].attempts \in Nat /\ Used(r)
    BY DEF Pending, Used, StoreInv, RowType
  <2>3. new \in SUBSET (Rows \X Nat)
    BY <2>2
  <2>4. todo' \in [Workers -> SUBSET (Rows \X Nat)]
    BY <2>1, <2>3 DEF StoreInv
  <2>5. \A x \in new : Used(x[1]) /\ x[2] <= row[x[1]].attempts
    BY <2>2
  <2>6. \A x, y \in new : x[1] = y[1] => x = y
    OBVIOUS
  <2>7. \A v \in Workers : todo'[v] = IF v = w THEN new ELSE todo[v]
    BY <2>1 DEF StoreInv
  <2> HIDE DEF new
  <2>8. w \in Threads /\ \A v \in Workers : v \in Threads
    BY LocalStoreAssumption
  <2>9. \A t \in Threads : pc'[t] = IF t = w THEN "next" ELSE pc[t]
    BY <2>1, <2>8
  <2>10. \A v \in Workers : \A x \in todo'[v] : Used(x[1]) /\ x[2] <= row[x[1]].attempts
    BY <2>5, <2>7 DEF StoreInv
  <2>11. \A v \in Workers : \A x, y \in todo'[v] : x[1] = y[1] => x = y
    BY <2>6, <2>7 DEF StoreInv
  <2>12. \A v \in Workers : OnRow(v)' => OnRow(v)
    BY <2>8, <2>9 DEF OnRow
  <2>13. \A t \in Threads \ Workers : pc'[t] = pc[t]
    BY <2>9
  <2>14. StoreInv'
    BY <1>1, <2>4, <2>10, <2>11, <2>12, <2>13 DEF StoreInv, Used
  <2>15. KeepInv'
    <3>1. \A v \in Workers : pc'[v] = "sent" => pc[v] = "sent" /\ job'[v] = job[v]
      BY <1>1, <2>8, <2>9
    <3> QED
      BY <1>1, <1>2, <3>1, KeepFrame
  <2> QED
    BY <2>14, <2>15
<1> QED
  BY <1>3, <1>4 DEF OnPeerConnected, runPeriodicDeliveryAttempts

(* A worker takes the next row, gives it up, or ends its round because the     *)
(* peer has gone.                                                              *)
LEMMA DeliverStore ==
  ASSUME ConnInv, StoreInv, KeepInv, NEW w \in Workers, DeliverPendingMessages(w)
  PROVE  StoreInv' /\ KeepInv'
<1>1. PICK x \in todo[w] :
        /\ pc[w] = "next"
        /\ IF x[2] >= MaxAttempts
             THEN /\ MarkMessage(x[1], "failed") /\ DecrementStorageUsage
                  /\ todo' = [todo EXCEPT ![w] = @ \ {x}]
                  /\ UNCHANGED <<pc, job>>
             ELSE /\ row' = [row EXCEPT ![x[1]].attempts = @ + 1]
                  /\ \/ /\ job' = [job EXCEPT ![w] = x]
                        /\ pc' = [pc EXCEPT ![w] = "send"]
                        /\ todo' = [todo EXCEPT ![w] = @ \ {x}]
                     \/ todo' = [todo EXCEPT ![w] = {}] /\ UNCHANGED <<pc, job>>
                  /\ UNCHANGED usage
        /\ UNCHANGED <<public, reply, written, faults>>
  BY DEF DeliverPendingMessages
<1> DEFINE r == x[1]
<1>2. x \in Rows \X Nat /\ r \in Rows /\ Used(r) /\ x \in (Rows \cup {0}) \X Nat
  BY DEF StoreInv
<1>3. w \in Threads /\ pc \in [Threads -> Steps] /\ \A v \in Workers : v \in Threads
  BY LocalStoreAssumption DEF ConnInv
<1>4. /\ todo' \in [Workers -> SUBSET (Rows \X Nat)]
      /\ \A v \in Workers : todo'[v] \subseteq todo[v]
  BY <1>1 DEF StoreInv
<1>5. /\ job' \in [Workers -> (Rows \cup {0}) \X Nat]
      /\ \A v \in Workers : \/ job'[v] = job[v] /\ pc'[v] = pc[v]
                            \/ v = w /\ job'[v] = x /\ pc'[v] = "send"
      /\ \A t \in Threads \ Workers : pc'[t] = pc[t]
  BY <1>1, <1>2, <1>3 DEF StoreInv
<1>6. \A v \in Workers : OnRow(v)' => \/ OnRow(v) /\ job'[v] = job[v]
                                      \/ job'[v] \in todo[v]
  BY <1>5 DEF OnRow
<1>7. \A v \in Workers : pc'[v] = "sent" => pc[v] = "sent" /\ job'[v] = job[v]
  BY <1>5
<1>8. CASE x[2] >= MaxAttempts
  <2>1. MarkMessage(r, "failed") /\ usage' \in Nat
    BY <1>1, <1>8, UsageType DEF StoreInv
  <2>2. /\ RowsGrow
        /\ \A q \in Rows : q # r => row'[q] = row[q]
        /\ row'[r].status \in {"failed", "expired"}
    BY <1>2, <2>1, MarkEffect
  <2>3. StoreInv'
    BY <1>1, <1>4, <1>5, <1>6, <2>1, <2>2, StoreFrame DEF StoreInv
  <2>4. \A q \in Rows : row[q].status \in Kept => row'[q].status \in Kept
    BY <2>2 DEF Kept
  <2>5. KeepInv'
    BY <1>1, <1>7, <2>2, <2>4, KeepFrame
  <2> QED
    BY <2>3, <2>5
<1>9. CASE ~(x[2] >= MaxAttempts)
  <2>1. row' = [row EXCEPT ![r].attempts = @ + 1] /\ UNCHANGED usage
    BY <1>1, <1>9
  <2>2. \A q \in Rows : row[q] \in RowType /\ row[q].attempts \in Nat
    BY DEF StoreInv, RowType
  <2>3. row' \in [Rows -> RowType]
    BY <1>2, <2>1, <2>2 DEF StoreInv, RowType
  <2>4. /\ \A q \in Rows : row'[q].m = row[q].m /\ row'[q].status = row[q].status
        /\ \A q \in Rows : q # r => row'[q] = row[q]
        /\ row'[r].attempts = row[r].attempts + 1
    BY <1>2, <2>1, <2>2 DEF StoreInv, RowType
  <2>5. RowsGrow
    BY <1>2, <2>2, <2>3, <2>4 DEF RowsGrow, Used, StoreInv
  <2>6. StoreInv'
    BY <1>1, <1>4, <1>5, <1>6, <2>1, <2>5, StoreFrame DEF StoreInv
  <2>7. KeepInv'
    BY <1>1, <1>7, <2>4, <2>5, KeepFrame
  <2> QED
    BY <2>6, <2>7
<1> QED
  BY <1>8, <1>9

(* The end of a delivery: only a row whose delivery went well is marked so. *)
LEMMA EndStore ==
  ASSUME ConnInv, StoreInv, KeepInv, NEW w \in Workers, EndOfRow(w) \/ EndOfRound(w)
  PROVE  StoreInv' /\ KeepInv'
<1>1. w \in Threads /\ pc \in [Threads -> Steps] /\ \A v \in Workers : v \in Threads
  BY LocalStoreAssumption DEF ConnInv
<1>2. CASE EndOfRound(w)
  <2>1. /\ UNCHANGED storeVars
        /\ \A t \in Threads : pc'[t] = IF t = w THEN "idle" ELSE pc[t]
    BY <1>1, <1>2 DEF EndOfRound
  <2>2. UNCHANGED <<public, row, usage, todo, job, reply, written, faults>> /\ RowsGrow
    BY <2>1, SameRows DEF storeVars
  <2>3. \A v \in Workers : /\ OnRow(v)' => OnRow(v)
                           /\ pc'[v] = "sent" => pc[v] = "sent"
    BY <1>1, <2>1 DEF OnRow
  <2>4. StoreInv'
    BY <2>1, <2>2, <2>3, StoreFrame DEF StoreInv
  <2>5. KeepInv'
    BY <2>2, <2>3, KeepFrame
  <2> QED
    BY <2>4, <2>5
<1>3. CASE EndOfRow(w)
  <2> DEFINE r == job[w][1]
  <2>1. /\ AfterDelivery(w)
        /\ pc' = [pc EXCEPT ![w] = "next"]
        /\ job' = [job EXCEPT ![w] = <<0, 0>>]
        /\ UNCHANGED <<public, todo, reply, written, faults>>
    BY <1>3 DEF EndOfRow
  <2>2. pc[w] \in {"sent", "failed"} /\ r \in Rows /\ Used(r)
    BY <2>1 DEF AfterDelivery, StoreInv, OnRow
  <2>3. /\ \A t \in Threads : pc'[t] = IF t = w THEN "next" ELSE pc[t]
        /\ \A v \in Workers : v # w => job'[v] = job[v]
        /\ job' \in [Workers -> (Rows \cup {0}) \X Nat]
    BY <1>1, <2>1 DEF StoreInv
  <2>4. \A v \in Workers : /\ OnRow(v)' => OnRow(v) /\ job'[v] = job[v]
                           /\ pc'[v] = "sent" => pc[v] = "sent" /\ job'[v] = job[v]
    BY <1>1, <2>3 DEF OnRow
  <2>5. \/ UNCHANGED <<row, usage>>
        \/ \E s \in {"delivered", "failed"} :
             /\ MarkMessage(r, s) /\ DecrementStorageUsage
             /\ s = "delivered" => pc[w] = "sent"
    BY <2>1 DEF AfterDelivery
  <2>6. /\ RowsGrow /\ usage' \in Nat
        /\ \A q \in Rows : row[q].status \in Kept /\ row'[q].status \notin Kept
                             => q = r /\ pc[w] = "sent"
    <3>1. CASE UNCHANGED <<row, usage>>
      BY <3>1, SameRows DEF StoreInv
    <3>2. ASSUME NEW s \in {"delivered", "failed"}, MarkMessage(r, s), DecrementStorageUsage,
                 s = "delivered" => pc[w] = "sent"
          PROVE  <2>6!:
      <4>1. /\ RowsGrow
            /\ \A q \in Rows : q # r => row'[q] = row[q]
            /\ row'[r].status \in {s, "expired"}
        BY <2>2, <3>2, MarkEffect
      <4>2. usage' \in Nat
        BY <3>2, UsageType DEF StoreInv
      <4> QED
        BY <3>2, <4>1, <4>2 DEF Kept
    <3> QED
      BY <2>5, <3>1, <3>2
  <2>7. StoreInv'
    BY <2>1, <2>3, <2>4, <2>6, StoreFrame DEF StoreInv
  <2>8. KeepInv'
    BY <2>1, <2>4, <2>6, KeepFrame
  <2> QED
    BY <2>7, <2>8
<1> QED
  BY <1>2, <1>3

(* Steps of connections and of goroutines that connect leave the store alone: *)
(* a worker that connects stays on its row.                                   *)
LEMMA ConnStore ==
  ASSUME ConnInv, StoreInv, KeepInv, UNCHANGED storeVars,
         \/ UNCHANGED pc
         \/ \E t \in Threads : Step(t)
         \/ \E t \in Pingers, p \in Peers : Ping(t, p)
  PROVE  StoreInv' /\ KeepInv'
<1>1. UNCHANGED <<public, row, usage, todo, job, reply, written, faults>> /\ RowsGrow
  BY SameRows DEF storeVars
<1>2. \/ UNCHANGED pc
      \/ \E t \in Threads, s \in {"connect", "dial", "write", "handshake", "error"} :
           /\ pc' = [pc EXCEPT ![t] = s]
           /\ pc[t] \in {"connect", "dial", "handshake"} \/ t \notin Workers
  <2>1. ASSUME NEW t \in Threads, Step(t)
        PROVE  /\ \E s \in {"connect", "dial", "write", "handshake", "error"} :
                    pc' = [pc EXCEPT ![t] = s]
               /\ pc[t] \in {"connect", "dial", "handshake"}
    BY <2>1 DEF Step, ConnectToPeer, Dial, PerformHandshake
  <2>2. ASSUME NEW t \in Pingers, NEW p \in Peers, Ping(t, p)
        PROVE  t \in Threads /\ pc' = [pc EXCEPT ![t] = "connect"] /\ t \notin Workers
    BY <2>2, LocalStoreAssumption DEF Ping
  <2> QED
    BY <2>1, <2>2
<1>3. /\ \A w \in Workers : /\ OnRow(w)' => OnRow(w)
                            /\ pc'[w] = "sent" => pc[w] = "sent"
      /\ \A t \in Threads \ Workers : pc'[t] \notin {"next", "send", "sent", "failed"}
  <2>1. CASE UNCHANGED pc
    BY <2>1 DEF OnRow, StoreInv
  <2>2. ASSUME NEW t \in Threads, NEW s \in {"connect", "dial", "write", "handshake", "error"},
               pc' = [pc EXCEPT ![t] = s],
               pc[t] \in {"connect", "dial", "handshake"} \/ t \notin Workers
        PROVE  /\ \A w \in Workers : /\ OnRow(w)' => OnRow(w)
                                     /\ pc'[w] = "sent" => pc[w] = "sent"
               /\ \A u \in Threads \ Workers : pc'[u] \notin {"next", "send", "sent", "failed"}
    <3>1. \A u \in Threads : pc'[u] = IF u = t THEN s ELSE pc[u]
      BY <2>2 DEF ConnInv
    <3>2. \A w \in Workers : w \in Threads
      BY LocalStoreAssumption
    <3> QED
      BY <2>2, <3>1, <3>2 DEF OnRow, StoreInv
  <2> QED
    BY <1>2, <2>1, <2>2
<1>4. StoreInv'
  BY <1>1, <1>3, StoreFrame DEF StoreInv
<1>5. KeepInv'
  BY <1>1, <1>3, KeepFrame
<1> QED
  BY <1>4, <1>5

(* Faults: connections end, a peer moves behind NAT, a row expires, the        *)
(* process is started again with nothing but its rows.                         *)
LEMMA FaultStore ==
  ASSUME ConnInv, StoreInv, KeepInv,
         \/ ConnectionEnds \/ Restart
         \/ \E p \in Peers : TypeChanges(p)
         \/ \E r \in Rows : DeleteExpiredMessages(r)
  PROVE  StoreInv' /\ KeepInv'
<1>1. CASE ConnectionEnds
  <2>1. /\ UNCHANGED <<public, row, usage, todo, job, reply, written, pc>>
        /\ RowsGrow /\ faults' \in 0 .. MaxFaults
    BY <1>1, SameRows, FaultType
       DEF ConnectionEnds, Closes, DisconnectFromPeer, callVars, StoreInv
  <2>2. StoreInv'
    BY <2>1, StoreFrame DEF StoreInv, OnRow
  <2>3. KeepInv'
    BY <2>1, KeepFrame
  <2> QED
    BY <2>2, <2>3
<1>2. ASSUME NEW p \in Peers, TypeChanges(p) PROVE StoreInv' /\ KeepInv'
  <2>1. /\ UNCHANGED <<row, usage, todo, job, reply, written, pc>> /\ public' \subseteq public
        /\ RowsGrow /\ faults' \in 0 .. MaxFaults
    BY <1>2, SameRows, FaultType DEF TypeChanges, connVars, callVars, StoreInv
  <2>2. StoreInv'
    BY <2>1, StoreFrame DEF StoreInv, OnRow
  <2>3. KeepInv'
    BY <2>1, KeepFrame
  <2> QED
    BY <2>2, <2>3
<1>3. ASSUME NEW r \in Rows, DeleteExpiredMessages(r) PROVE StoreInv' /\ KeepInv'
  <2>1. /\ UNCHANGED <<public, usage, todo, job, reply, written, pc>>
        /\ row[r].status \in {"pending", "failed"}
        /\ row' = [row EXCEPT ![r].status = "expired"]
        /\ faults' \in 0 .. MaxFaults
    BY <1>3, FaultType DEF DeleteExpiredMessages, connVars, callVars, StoreInv
  <2>2. /\ row' \in [Rows -> RowType]
        /\ \A q \in Rows : q # r => row'[q] = row[q]
        /\ row'[r].status = "expired" /\ row'[r].attempts = row[r].attempts
        /\ row'[r].m = row[r].m
    BY <2>1 DEF StoreInv, RowType
  <2>3. \A q \in Rows : row[q].attempts \in Nat
    BY DEF StoreInv, RowType
  <2>4. RowsGrow
    BY <2>1, <2>2, <2>3 DEF RowsGrow, StoreInv, Used
  <2>5. \A q \in Rows : row[q].status \in Kept => row'[q].status \in Kept
    BY <2>2 DEF Kept
  <2>6. StoreInv'
    BY <2>1, <2>4, StoreFrame DEF StoreInv, OnRow
  <2>7. KeepInv'
    BY <2>1, <2>4, <2>5, KeepFrame
  <2> QED
    BY <2>6, <2>7
<1>4. CASE Restart
  <2>1. /\ UNCHANGED <<public, row, usage, reply, written>>
        /\ pc' = [t \in Threads |-> IF t \in Workers THEN "idle" ELSE "over"]
        /\ todo' = [w \in Workers |-> {}] /\ job' = [w \in Workers |-> <<0, 0>>]
        /\ RowsGrow /\ faults' \in 0 .. MaxFaults
    BY <1>4, SameRows, FaultType DEF Restart, StoreInv
  <2>2. /\ \A w \in Workers : pc'[w] = "idle"
        /\ \A t \in Threads \ Workers : pc'[t] = "over"
    BY <2>1, LocalStoreAssumption
  <2>3. /\ todo' \in [Workers -> SUBSET (Rows \X Nat)]
        /\ job' \in [Workers -> (Rows \cup {0}) \X Nat]
        /\ \A w \in Workers : todo'[w] \subseteq todo[w]
    BY <2>1
  <2>4. \A w \in Workers : ~OnRow(w)'
    BY <2>2 DEF OnRow
  <2>5. StoreInv'
    BY <2>1, <2>2, <2>3, <2>4, StoreFrame DEF StoreInv
  <2>6. KeepInv'
    BY <2>1, <2>2, KeepFrame
  <2> QED
    BY <2>5, <2>6
<1> QED
  BY <1>1, <1>2, <1>3, <1>4

-----------------------------------------------------------------------------
(* The specification.                                                       *)

Inv == ConnInv /\ StoreInv /\ KeepInv

(* Every step keeps the tables in agreement and accepted messages in a row. *)
LEMMA InvNext ==
  ASSUME Inv, [Next]_vars PROVE Inv'
<1> USE DEF Inv
<1>1. ASSUME NEW t \in Messages \cup Workers, SendMessageToPeer(t) PROVE Inv'
  <2>1. t \in Threads
    BY LocalStoreAssumption
  <2> QED
    BY <1>1, <2>1, SendStore, StoreConn
<1>2. ASSUME NEW t \in Messages \cup Workers, SendMessage(t) PROVE Inv'
  <2>1. t \in Threads /\ (SendMessageToPeer(t) => Carried(t) \in Messages)
    BY LocalStoreAssumption, SendStore
  <2> QED
    BY <1>2, <2>1, WriteStore, StoreConn
<1>3. ASSUME NEW t \in Threads, Step(t), UNCHANGED storeVars PROVE Inv'
  <2>1. ConnInv'
    BY <1>3, StepConn DEF Step
  <2>2. StoreInv' /\ KeepInv'
    BY <1>3, ConnStore
  <2> QED
    BY <2>1, <2>2
<1>4. ASSUME NEW t \in Pingers, NEW p \in Peers, Ping(t, p) PROVE Inv'
  <2>1. t \in Threads /\ UNCHANGED storeVars /\ ~SendMessageToPeer(t)
    BY <1>4, LocalStoreAssumption DEF Ping, SendMessageToPeer
  <2>2. StoreInv' /\ KeepInv'
    BY <1>4, <2>1, ConnStore
  <2>3. ConnInv'
    BY <1>4, <2>1, StoreConn
  <2> QED
    BY <2>2, <2>3
<1>5. ASSUME NEW w \in Workers, DeliverPendingMessages(w) PROVE Inv'
  <2>1. w \in Threads /\ (SendMessageToPeer(w) => Carried(w) \in Messages)
    BY LocalStoreAssumption, SendStore
  <2> QED
    BY <1>5, <2>1, DeliverStore, StoreConn
<1>6. ASSUME NEW w \in Workers, EndOfRow(w) \/ EndOfRound(w) PROVE Inv'
  <2>1. w \in Threads /\ (SendMessageToPeer(w) => Carried(w) \in Messages)
    BY LocalStoreAssumption, SendStore
  <2> QED
    BY <1>6, <2>1, EndStore, StoreConn
<1>7. ASSUME NEW w \in Workers, NEW p \in Peers,
             OnPeerConnected(w, p) \/ runPeriodicDeliveryAttempts(w, p)
      PROVE  Inv'
  <2>1. w \in Threads /\ (SendMessageToPeer(w) => Carried(w) \in Messages)
    BY LocalStoreAssumption, SendStore
  <2> QED
    BY <1>7, <2>1, RoundStore, StoreConn
<1>8. ASSUME NEW c \in Conns, Serve(c) PROVE Inv'
  <2>1. ConnInv' /\ UNCHANGED <<storeVars, pc>>
    BY <1>8, ServeConn
       DEF Serve, handleConnection, enterIncoming, monitorConnection, callVars
  <2> QED
    BY <2>1, ConnStore
<1>9. ASSUME NEW c \in Conns, NEW a \in Incoming, acceptConnections(c, a), UNCHANGED storeVars
      PROVE  Inv'
  <2>1. ConnInv' /\ UNCHANGED pc
    BY <1>9, AcceptConn DEF acceptConnections, callVars
  <2> QED
    BY <1>9, <2>1, ConnStore
<1>10. ASSUME NEW p \in Peers, storeReceivedPeers(p), UNCHANGED storeVars PROVE Inv'
  <2>1. /\ UNCHANGED <<connections, peerConnections, stage, addrOf, up, pc, at, conn, arrived>>
        /\ known' = known \cup {p}
    BY <1>10 DEF storeReceivedPeers, table, callVars
  <2>2. AddressBookIsSound'
    BY <2>1 DEF ConnInv, AddressBookIsSound, Connected
  <2>3. ConnInv'
    BY <2>1, <2>2 DEF ConnInv, ConnTypeOK
  <2> QED
    BY <1>10, <2>1, <2>3, ConnStore
<1>11. ASSUME NEW p \in Peers, TypeChanges(p) PROVE Inv'
  <2>1. UNCHANGED connVars
    BY <1>11 DEF TypeChanges
  <2>2. ConnInv'
    BY <2>1, ConnFrame DEF connVars, callVars, ConnInv, ConnTypeOK
  <2> QED
    BY <1>11, <2>2, FaultStore
<1>12. ASSUME NEW r \in Rows, DeleteExpiredMessages(r) PROVE Inv'
  <2>1. UNCHANGED connVars
    BY <1>12 DEF DeleteExpiredMessages
  <2>2. ConnInv'
    BY <2>1, ConnFrame DEF connVars, callVars, ConnInv, ConnTypeOK
  <2> QED
    BY <1>12, <2>2, FaultStore
<1>13. CASE ConnectionEnds
  BY <1>13, FaultStore, EndConn
<1>14. CASE Restart
  BY <1>14, FaultStore, RestartConn
<1>15. CASE UNCHANGED vars
  <2>1. UNCHANGED storeVars /\ UNCHANGED connVars
    BY <1>15 DEF vars
  <2>2. ConnInv'
    BY <2>1, ConnFrame DEF connVars, callVars, ConnInv, ConnTypeOK
  <2> QED
    BY <2>1, <2>2, ConnStore DEF connVars, callVars
<1>16. \A t \in Messages \cup Pingers \cup Workers : t \in Threads
  BY LocalStoreAssumption
<1> QED
  BY <1>1, <1>2, <1>3, <1>4, <1>5, <1>6, <1>7, <1>8, <1>9, <1>10, <1>11, <1>12, <1>13, <1>14,
     <1>15, <1>16 DEF Next, Work

(* The inductive invariant of connections and store. *)
THEOREM Invariant == Spec => []Inv
<1>1. Init => Inv
  <2>1. Init => KeepInv
    BY DEF Init, KeepInv
  <2> QED
    BY <2>1, ConnInitInv, StoreInitInv DEF Inv
<1>2. Inv /\ [Next]_vars => Inv'
  BY InvNext
<1> QED
  BY <1>1, <1>2, PTL DEF Spec

(* The address a peer is found at is in the table, under that peer, with any   *)
(* number of peers and connections, however dials, handshakes, clean-ups by    *)
(* address, disconnections and restarts interleave (quic.go).                  *)
THEOREM AddressesAreSound == Spec => []AddressBookIsSound
<1>1. Inv => AddressBookIsSound
  BY DEF Inv, ConnInv
<1> QED
  BY <1>1, Invariant, PTL

(* A message that SendMessageToPeer has accepted was written to a connection   *)
(* or still has a row that is pending or was given up, with any number of      *)
(* rounds at once, deliveries that store it again, expiry and restarts         *)
(* (quic.go, local_store_forward.go).                                          *)
THEOREM MessagesAreKept == Spec => []AcceptedIsKept
<1>1. Inv => AcceptedIsKept
  BY DEF Inv, KeepInv, Safe, Kept, AcceptedIsKept
<1> QED
  BY <1>1, Invariant, PTL

-----------------------------------------------------------------------------
(* Counting rows and attempts.                                              *)

UsedRows == {r \in Rows : Used(r)}

(* Workers that still hold a row as they have read it, with attempts left. *)
Behind(r) == {w \in Workers : \E x \in todo[w] : x[1] = r /\ x[2] < MaxAttempts}

(* The usage counts no row that is not there.  The attempts of a row pass      *)
(* their limit only by workers that have read the row before it was reached,   *)
(* each of them once.                                                          *)
CountInv ==
  /\ usage <= Cardinality(UsedRows)
  /\ \A r \in Rows :
       \/ row[r].attempts < MaxAttempts
       \/ row[r].attempts + Cardinality(Behind(r)) <= MaxAttempts + Cardinality(Workers)

(* The sets that are counted are finite. *)
LEMMA Counted ==
  /\ IsFiniteSet(UsedRows) /\ Cardinality(UsedRows) \in Nat
  /\ Cardinality(UsedRows) <= Cardinality(Rows) /\ Cardinality(Rows) \in Nat
  /\ Cardinality(Workers) \in Nat /\ MaxAttempts \in Nat
  /\ \A r : /\ IsFiniteSet(Behind(r)) /\ Cardinality(Behind(r)) \in Nat
            /\ Cardinality(Behind(r)) <= Cardinality(Workers)
<1>1. UsedRows \subseteq Rows /\ \A r : Behind(r) \subseteq Workers
  BY DEF UsedRows, Behind
<1> QED
  BY <1>1, LocalStoreAssumption, FS_Subset, FS_CardinalityType

(* A step that stores nothing and counts no attempt. *)
LEMMA CountFrame ==
  ASSUME StoreInv, CountInv, RowsGrow, usage' \in Nat, usage' <= usage,
         \A r \in Rows : row'[r].attempts = row[r].attempts,
         \A r \in Rows : row[r].attempts < MaxAttempts \/ Behind(r)' \subseteq Behind(r)
  PROVE  CountInv'
<1>1. UsedRows \subseteq UsedRows' /\ UsedRows' \subseteq Rows
  BY DEF UsedRows, RowsGrow
<1>2. Cardinality(UsedRows) <= Cardinality(UsedRows') /\ Cardinality(UsedRows') \in Nat
  BY <1>1, LocalStoreAssumption, FS_Subset, FS_CardinalityType
<1>3. usage' <= Cardinality(UsedRows')
  BY <1>2, Counted DEF CountInv, StoreInv
<1>4. ASSUME NEW r \in Rows, ~(row[r].attempts < MaxAttempts)
      PROVE  row[r].attempts + Cardinality(Behind(r)') <= MaxAttempts + Cardinality(Workers)
  <2>1. Behind(r)' \subseteq Behind(r)
    BY <1>4
  <2>2. /\ Cardinality(Behind(r)') <= Cardinality(Behind(r))
        /\ Cardinality(Behind(r)') \in Nat /\ Cardinality(Behind(r)) \in Nat
    BY <2>1, Counted, FS_Subset, FS_CardinalityType
  <2>3. row[r].attempts \in Nat
    BY DEF StoreInv, RowType
  <2> QED
    BY <1>4, <2>2, <2>3, Counted DEF CountInv
<1> QED
  BY <1>3, <1>4 DEF CountInv

(* Every step counts right. *)
LEMMA CountNext ==
  ASSUME Inv, CountInv, [Next]_vars PROVE CountInv'
<1> USE DEF Inv
<1>0. StoreInv'
  BY InvNext
<1>1. CASE UNCHANGED <<row, usage, todo>>
  <2>1. RowsGrow
    BY <1>1, SameRows
  <2>2. \A r \in Rows : Behind(r)' = Behind(r)
    BY <1>1 DEF Behind
  <2>3. usage \in Nat
    BY DEF StoreInv
  <2> QED
    BY <1>1, <2>1, <2>2, <2>3, CountFrame
<1>2. ASSUME NEW t \in Messages \cup Workers, SendMessageToPeer(t),
             StoreMessage(Carried(t)), UNCHANGED todo
      PROVE  CountInv'
  <2>1. Carried(t) \in Messages
    BY <1>2, SendStore
  <2>2. PICK r \in Rows : /\ ~Used(r) /\ row'[r].status = "pending" /\ row'[r].attempts = 0
                          /\ \A s \in Rows : s # r => row'[s] = row[s]
    BY <1>2, <2>1, StoreEffect DEF StoreMessage
  <2>3. usage' = usage + 1 /\ usage \in Nat
    BY <1>2 DEF StoreMessage, IncrementStorageUsage, StoreInv
  <2>4. UsedRows' = UsedRows \cup {r} /\ r \notin UsedRows
    BY <2>2 DEF UsedRows, Used
  <2>5. Cardinality(UsedRows') = Cardinality(UsedRows) + 1
    BY <2>4, Counted, FS_AddElement
  <2>6. usage' <= Cardinality(UsedRows')
    BY <2>3, <2>5, Counted DEF CountInv
  <2>7. \A s \in Rows : row'[s].attempts = row[s].attempts
    BY <2>2 DEF StoreInv, NoRow
  <2>8. \A s \in Rows : Behind(s)' = Behind(s)
    BY <1>2 DEF Behind
  <2> QED
    BY <2>6, <2>7, <2>8 DEF CountInv
<1>3. ASSUME NEW w \in Workers, NEW p \in Peers, StartDelivery(w, p), UNCHANGED <<row, usage>>
      PROVE  CountInv'
  <2>1. todo' = [todo EXCEPT ![w] = {<<r, row[r].attempts>> : r \in Pending(p)}]
    BY <1>3 DEF StartDelivery
  <2>2. ASSUME NEW r \in Rows, ~(row[r].attempts < MaxAttempts)
        PROVE  Behind(r)' \subseteq Behind(r)
    <3> SUFFICES ASSUME NEW v \in Workers, NEW x \in todo'[v], x[1] = r, x[2] < MaxAttempts
                 PROVE  x \in todo[v]
      BY DEF Behind
    <3>1. v # w
      BY <2>1, <2>2 DEF StoreInv
    <3> QED
      BY <2>1, <3>1 DEF StoreInv
  <2>3. RowsGrow /\ usage \in Nat
    BY <1>3, SameRows DEF StoreInv
  <2> QED
    BY <1>3, <2>2, <2>3, CountFrame
<1>4. ASSUME NEW w \in Workers, DeliverPendingMessages(w) PROVE CountInv'
  <2>1. PICK x \in todo[w] :
          IF x[2] >= MaxAttempts
          THEN /\ MarkMessage(x[1], "failed") /\ DecrementStorageUsage
               /\ todo' = [todo EXCEPT ![w] = @ \ {x}]
          ELSE /\ row' = [row EXCEPT ![x[1]].attempts = @ + 1]
               /\ \/ todo' = [todo EXCEPT ![w] = @ \ {x}]
                  \/ todo' = [todo EXCEPT ![w] = {}]
               /\ UNCHANGED usage
    BY <1>4 DEF DeliverPendingMessages
  <2> DEFINE r == x[1]
  <2>2. x \in Rows \X Nat /\ r \in Rows /\ x[2] \in Nat /\ Used(r)
    BY DEF StoreInv
  <2>3. /\ \A v \in Workers : todo'[v] \subseteq todo[v]
        /\ x \notin todo'[w]
    BY <2>1 DEF StoreInv
  <2>4. \A q \in Rows : Behind(q)' \subseteq Behind(q)
    BY <2>3 DEF Behind
  <2>5. CASE x[2] >= MaxAttempts
    <3>1. MarkMessage(r, "failed") /\ usage' \in Nat /\ usage' <= usage
      BY <2>1, <2>5, UsageType DEF StoreInv
    <3>2. RowsGrow /\ \A q \in Rows : row'[q].attempts = row[q].attempts
      BY <2>2, <3>1, MarkEffect
    <3> QED
      BY <2>4, <3>1, <3>2, CountFrame
  <2>6. CASE ~(x[2] >= MaxAttempts)
    <3>1. row' = [row EXCEPT ![r].attempts = @ + 1] /\ UNCHANGED usage
      BY <2>1, <2>6
    <3>2. \A q \in Rows : row[q] \in RowType /\ row[q].attempts \in Nat
      BY DEF StoreInv, RowType
    <3>3. /\ \A q \in Rows : row'[q].status = row[q].status
          /\ \A q \in Rows : q # r => row'[q].attempts = row[q].attempts
          /\ row'[r].attempts = row[r].attempts + 1
      BY <2>2, <3>1, <3>2 DEF StoreInv, RowType
    <3>4. UsedRows' = UsedRows
      BY <3>3 DEF UsedRows, Used
    <3>5. w \in Behind(r) /\ w \notin Behind(r)'
      <4>1. x[2] < MaxAttempts
        BY <2>2, <2>6, Counted
      <4>2. \A y \in todo'[w] : y[1] # r
        BY <2>3 DEF StoreInv
      <4> QED
        BY <4>1, <4>2 DEF Behind
    <3>6. /\ IsFiniteSet(Behind(r)') /\ Cardinality(Behind(r)') \in Nat
          /\ Cardinality(Behind(r)') + 1 <= Cardinality(Behind(r))
      <4>1. Behind(r)' \cup {w} \subseteq Behind(r)
        BY <2>2, <2>4, <3>5
      <4>2. IsFiniteSet(Behind(r)') /\ Cardinality(Behind(r)') \in Nat
        BY <2>2, <2>4, Counted, FS_Subset, FS_CardinalityType
      <4>3. Cardinality(Behind(r)' \cup {w}) = Cardinality(Behind(r)') + 1
        BY <3>5, <4>2, FS_AddElement
      <4>4. Cardinality(Behind(r)' \cup {w}) <= Cardinality(Behind(r))
        BY <4>1, Counted, FS_Subset
      <4> QED
        BY <4>2, <4>3, <4>4
    <3>7. \/ row'[r].attempts < MaxAttempts
          \/ row'[r].attempts + Cardinality(Behind(r)') <= MaxAttempts + Cardinality(Workers)
      BY <2>2, <3>2, <3>3, <3>6, Counted DEF CountInv
    <3>8. ASSUME NEW q \in Rows, q # r, ~(row'[q].attempts < MaxAttempts)
          PROVE  row'[q].attempts + Cardinality(Behind(q)') <= MaxAttempts + Cardinality(Workers)
      <4>1. /\ Cardinality(Behind(q)') <= Cardinality(Behind(q))
            /\ Cardinality(Behind(q)') \in Nat
        BY <2>4, Counted, FS_Subset, FS_CardinalityType
      <4>2. row[q].attempts + Cardinality(Behind(q)) <= MaxAttempts + Cardinality(Workers)
        BY <3>3, <3>8 DEF CountInv
      <4> QED
        BY <3>2, <3>3, <3>8, <4>1, <4>2, Counted
    <3> QED
      BY <3>1, <3>4, <3>7, <3>8 DEF CountInv
  <2> QED
    BY <2>5, <2>6
<1>5. ASSUME NEW w \in Workers, EndOfRow(w) PROVE CountInv'
  <2>1. job[w][1] \in Rows /\ Used(job[w][1])
    BY <1>5 DEF EndOfRow, AfterDelivery, StoreInv, OnRow
  <2>2. /\ UNCHANGED todo
        /\ \/ UNCHANGED <<row, usage>>
           \/ \E s \in {"delivered", "failed"} :
                MarkMessage(job[w][1], s) /\ DecrementStorageUsage
    BY <1>5 DEF EndOfRow, AfterDelivery
  <2>3. RowsGrow /\ \A q \in Rows : row'[q].attempts = row[q].attempts
    BY <2>1, <2>2, MarkEffect, SameRows
  <2>4. usage' \in Nat /\ usage' <= usage
    BY <2>2, UsageType DEF StoreInv
  <2>5. \A q \in Rows : Behind(q)' = Behind(q)
    BY <2>2 DEF Behind
  <2> QED
    BY <2>3, <2>4, <2>5, CountFrame
<1>6. ASSUME NEW r \in Rows, DeleteExpiredMessages(r) PROVE CountInv'
  <2>1. /\ UNCHANGED <<usage, todo>> /\ row' = [row EXCEPT ![r].status = "expired"]
        /\ row[r].status \in {"pending", "failed"}
    BY <1>6 DEF DeleteExpiredMessages
  <2>2. \A q \in Rows : /\ row'[q].attempts = row[q].attempts
                        /\ row'[q].m = row[q].m
                        /\ Used(q) => Used(q)'
                        /\ q # r => row'[q] = row[q]
    BY <2>1 DEF StoreInv, RowType, Used
  <2>3. RowsGrow
    <3>1. row' \in [Rows -> RowType]
      BY <1>0 DEF StoreInv
    <3>2. \A q \in Rows : row[q].attempts \in Nat
      BY DEF StoreInv, RowType
    <3>3. \A q \in Rows : IF Used(q)' THEN row'[q].m \in Messages ELSE row'[q] = NoRow
      BY <1>0 DEF StoreInv
    <3> QED
      BY <2>2, <3>1, <3>2, <3>3 DEF RowsGrow
  <2>4. \A q \in Rows : Behind(q)' = Behind(q)
    BY <2>1 DEF Behind
  <2>5. usage \in Nat
    BY DEF StoreInv
  <2> QED
    BY <2>1, <2>2, <2>3, <2>4, <2>5, CountFrame
<1>7. CASE Restart
  <2>1. UNCHANGED <<row, usage>> /\ todo' = [w \in Workers |-> {}]
    BY <1>7 DEF Restart
  <2>2. \A q \in Rows : Behind(q)' = {}
    BY <2>1 DEF Behind
  <2>3. RowsGrow /\ usage \in Nat
    BY <2>1, SameRows DEF StoreInv
  <2> QED
    BY <2>1, <2>2, <2>3, CountFrame
<1>8. ASSUME NEW t \in Messages \cup Workers, SendMessageToPeer(t) PROVE CountInv'
  BY <1>1, <1>2, <1>8 DEF SendMessageToPeer
<1>9. ASSUME NEW w \in Workers, NEW p \in Peers,
             OnPeerConnected(w, p) \/ runPeriodicDeliveryAttempts(w, p)
      PROVE  CountInv'
  BY <1>1, <1>3, <1>9 DEF OnPeerConnected, runPeriodicDeliveryAttempts
<1>10. ASSUME NEW t \in Messages \cup Workers, SendMessage(t) PROVE CountInv'
  BY <1>1, <1>10 DEF SendMessage
<1>11. ASSUME NEW w \in Workers, EndOfRound(w) PROVE CountInv'
  BY <1>1, <1>11 DEF EndOfRound, storeVars
<1>12. ASSUME NEW t \in Pingers, NEW p \in Peers, Ping(t, p) PROVE CountInv'
  BY <1>1, <1>12 DEF Ping, storeVars
<1>13. CASE UNCHANGED storeVars
  BY <1>1, <1>13 DEF storeVars
<1>14. CASE ConnectionEnds \/ \E p \in Peers : TypeChanges(p)
  BY <1>1, <1>14 DEF ConnectionEnds, TypeChanges
<1>15. CASE UNCHANGED vars
  BY <1>13, <1>15 DEF vars
<1> QED
  BY <1>4, <1>5, <1>6, <1>7, <1>8, <1>9, <1>10, <1>11, <1>12, <1>13, <1>14, <1>15
     DEF Next, Work, Serve

(* The tables, the goroutines and the rows have their types; the usage stays   *)
(* within the number of rows and the attempts within their limit, but for one  *)
(* late attempt of each worker (local_store.go).                               *)
THEOREM TypeCorrect == Spec => []TypeOK
<1>1. Init => CountInv
  <2> SUFFICES ASSUME Init PROVE CountInv
    OBVIOUS
  <2>1. \A r \in Rows : Behind(r) = {}
    BY DEF Init, Behind
  <2>2. \A r \in Rows : row[r].attempts = 0
    BY DEF Init, NoRow
  <2>3. usage = 0
    BY DEF Init
  <2>4. Cardinality({}) = 0
    BY FS_EmptySet
  <2> QED
    BY <2>1, <2>2, <2>3, <2>4, Counted DEF CountInv
<1>2. Inv /\ CountInv /\ [Next]_vars => CountInv'
  BY CountNext
<1>3. Inv /\ CountInv => TypeOK
  <2> SUFFICES ASSUME Inv, CountInv PROVE TypeOK
    OBVIOUS
  <2>1. ASSUME NEW r \in Rows PROVE row[r].attempts \in 0 .. MaxAttempts + Cardinality(Workers)
    <3>1. row[r].attempts \in Nat
      BY DEF Inv, StoreInv, RowType
    <3> QED
      BY <3>1, Counted DEF CountInv
  <2>2. usage \in 0 .. Cardinality(Rows)
    BY Counted DEF Inv, StoreInv, CountInv
  <2>3. \A r \in Rows : /\ row[r].m \in Messages \cup {NoMessage}
                        /\ row[r].status \in {"none", "pending", "delivered", "failed", "expired"}
    BY DEF Inv, StoreInv, RowType
  <2>4. \A w \in Workers : /\ job[w][1] \in Rows \cup {0}
                           /\ \A x \in todo[w] : x[1] \in Rows /\ x[2] <= row[x[1]].attempts
    BY DEF Inv, StoreInv
  <2> QED
    BY <2>1, <2>2, <2>3, <2>4 DEF Inv, ConnInv, StoreInv, TypeOK
<1> QED
  BY <1>1, <1>2, <1>3, Invariant, PTL DEF Spec

=============================================================================
