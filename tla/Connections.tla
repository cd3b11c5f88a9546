---------------------------- MODULE Connections ----------------------------
(***************************************************************************)
(* The connections of a node (internal/p2p/quic.go) and the handshake that *)
(* gives each its peer (internal/p2p/identity_exchange.go).                *)
(*                                                                         *)
(* The table of connections is keyed by remote address, a second one finds *)
(* the address by peer.  Every connection has goroutines that clean both   *)
(* up, by address, when it ends.  A peer is dialled at its listening       *)
(* address; a connection it opens has an address of its own, because every *)
(* dial binds a new port.                                                  *)
(***************************************************************************)
EXTENDS Naturals, FiniteSets

CONSTANTS Peers,
          Listening,  \* Listening[p], the address a peer is dialled at
          Incoming,   \* addresses of connections that peers open
          Owner,      \* Owner[a], the peer of an incoming address
          Conns,      \* connections; bounds how many there are
          Threads,    \* goroutines that connect
          NoPeer, NoAddr, NoConn

Addrs == {Listening[p] : p \in Peers} \cup Incoming

PeerAt(a) == IF a \in Incoming THEN Owner[a] ELSE CHOOSE p \in Peers : Listening[p] = a

ASSUME ConnectionsAssumption ==
  /\ \A p, q \in Peers : Listening[p] = Listening[q] => p = q
  /\ \A p \in Peers : Listening[p] \notin Incoming
  /\ \A a \in Incoming : Owner[a] \in Peers
  /\ NoPeer \notin Peers /\ NoAddr \notin Addrs /\ NoConn \notin Conns

VARIABLES
  connections,     \* connections: the connection and the peer of an address
  peerConnections, \* peerConnections: the address of a peer
  known,           \* knownPeers
  stage,           \* what the goroutine of a connection is doing
  addrOf,          \* its address
  up,              \* connections whose context is not done
  pc, at, conn,    \* a connecting goroutine: its step, address and connection
  arrived          \* peers whose OnPeerConnected has yet to start

table     == <<connections, peerConnections>>
callVars  == <<pc, at, conn>>
connVars  == <<table, known, stage, addrOf, up, callVars, arrived>>

NoEntry     == [conn |-> NoConn, peer |-> NoPeer]
Entry(c, p) == [conn |-> c, peer |-> p]

\* Connections are numbered in the order they are opened.
NextConn(c) == stage[c] = "none" /\ \A d \in Conns : stage[d] = "none" => c <= d

ConnInit ==
  /\ connections = [a \in Addrs |-> NoEntry]
  /\ peerConnections = [p \in Peers |-> NoAddr]
  /\ known \in SUBSET Peers      \* from discovery
  /\ stage = [c \in Conns |-> "none"]
  /\ addrOf = [c \in Conns |-> NoAddr]
  /\ up = {}
  /\ pc = [t \in Threads |-> "idle"]
  /\ at = [t \in Threads |-> NoAddr]
  /\ conn = [t \in Threads |-> NoConn]
  /\ arrived = {}

\* GetAddressByPeerID
Connected(p) == peerConnections[p] # NoAddr

\* Both entries of an address, without a look at the connection they are for.
Remove(a) ==
  /\ connections' = [connections EXCEPT ![a] = NoEntry]
  /\ peerConnections' = [p \in Peers |->
       IF connections[a].peer = p THEN NoAddr ELSE peerConnections[p]]

-----------------------------------------------------------------------------
(* Connections that peers open.                                             *)

acceptConnections(c, a) ==
  /\ NextConn(c) /\ a \in Incoming /\ \A d \in Conns : addrOf[d] # a
  /\ stage' = [stage EXCEPT ![c] = "handshake"]
  /\ addrOf' = [addrOf EXCEPT ![c] = a]
  /\ up' = up \cup {c}
  /\ connections' = [connections EXCEPT ![a] = Entry(c, NoPeer)]
  /\ UNCHANGED <<peerConnections, known, callVars, arrived>>

\* Mutant: the peer is entered although its connection has left the table.
EnterAlways(a, p) ==
  /\ connections' = [connections EXCEPT ![a].peer = IF connections[a] = NoEntry THEN NoPeer ELSE p]
  /\ peerConnections' = [peerConnections EXCEPT ![p] = a]

EnterPeer(a, p) ==
  IF connections[a] = NoEntry THEN UNCHANGED table
  ELSE /\ connections' = [connections EXCEPT ![a].peer = p]
       /\ peerConnections' = [peerConnections EXCEPT ![p] = a]

\* PerformHandshake, then the peer is entered if the address is still in the table.  The
\* handshake succeeds only on a connection that is up, which may end before the entry.
handleConnection(c) ==
  LET a == addrOf[c] IN
  /\ stage[c] = "handshake" /\ a \in Incoming
  /\ \/ /\ c \in up
        /\ stage' = [stage EXCEPT ![c] = "entering"]
        /\ known' = known \cup {PeerAt(a)}
        /\ UNCHANGED <<table, up>>
     \/ /\ stage' = [stage EXCEPT ![c] = "over"]      \* it failed: the deferred clean-up
        /\ up' = up \ {c}
        /\ Remove(a)
        /\ UNCHANGED known
  /\ UNCHANGED <<addrOf, callVars, arrived>>

enterIncoming(c) ==
  /\ stage[c] = "entering"
  /\ EnterPeer(addrOf[c], PeerAt(addrOf[c]))
  /\ arrived' = arrived \cup {PeerAt(addrOf[c])}
  /\ stage' = [stage EXCEPT ![c] = "ready"]
  /\ UNCHANGED <<known, addrOf, up, callVars>>

\* The context is done: monitorConnection, or the deferred part of handleConnection.
monitorConnection(c) ==
  /\ stage[c] = "ready" /\ c \notin up
  /\ Remove(addrOf[c])
  /\ stage' = [stage EXCEPT ![c] = "over"]
  /\ UNCHANGED <<known, addrOf, up, callVars, arrived>>

-----------------------------------------------------------------------------
(* Connections that the node dials.                                         *)

\* A live connection of the address is used; a dead one is disconnected first.
ConnectToPeer(t) ==
  LET a == at[t]
      e == connections[a]
  IN
  /\ pc[t] = "connect"
  /\ IF e # NoEntry /\ e.conn \in up
       THEN /\ conn' = [conn EXCEPT ![t] = e.conn]
            /\ pc' = [pc EXCEPT ![t] = "write"]
            /\ UNCHANGED table
       ELSE /\ pc' = [pc EXCEPT ![t] = "dial"]
            /\ IF e # NoEntry THEN Remove(a) ELSE UNCHANGED table
            /\ UNCHANGED conn
  /\ UNCHANGED <<known, stage, addrOf, up, at, arrived>>

\* DialAddr without the lock: two goroutines may dial one address.  Nobody answers at the
\* address of an incoming connection.
Dial(t) ==
  /\ pc[t] = "dial"
  /\ \/ \E c \in Conns :
          /\ NextConn(c) /\ at[t] \notin Incoming
          /\ stage' = [stage EXCEPT ![c] = "dialled"]
          /\ addrOf' = [addrOf EXCEPT ![c] = at[t]]
          /\ up' = up \cup {c}
          /\ conn' = [conn EXCEPT ![t] = c]
          /\ pc' = [pc EXCEPT ![t] = "handshake"]
     \/ /\ pc' = [pc EXCEPT ![t] = "error"]
        /\ UNCHANGED <<stage, addrOf, up, conn>>
  /\ UNCHANGED <<table, known, at, arrived>>

\* The handshake, and the entry of the connection under its address, over another one that
\* may be there.
PerformHandshake(t) ==
  LET c == conn[t]
      a == at[t]
      p == PeerAt(a)
  IN
  /\ pc[t] = "handshake"
  /\ \/ /\ c \in up
        /\ connections' = [connections EXCEPT ![a] = Entry(c, p)]
        /\ peerConnections' = [peerConnections EXCEPT ![p] = a]
        /\ known' = known \cup {p}
        /\ arrived' = arrived \cup {p}
        /\ stage' = [stage EXCEPT ![c] = "ready"]
        /\ pc' = [pc EXCEPT ![t] = "write"]
        /\ UNCHANGED up
     \/ /\ up' = up \ {c}
        /\ stage' = [stage EXCEPT ![c] = "over"]
        /\ pc' = [pc EXCEPT ![t] = "error"]
        /\ UNCHANGED <<table, known, arrived>>
  /\ UNCHANGED <<addrOf, at, conn>>

-----------------------------------------------------------------------------
(* Ends.                                                                    *)

\* The peer, the network or the idle timeout of the transport.
Closes(c) ==
  /\ c \in up
  /\ up' = up \ {c}
  /\ UNCHANGED <<table, known, stage, addrOf, callVars, arrived>>

\* Also performCleanup of a connection that no stream was opened on for a while: the number
\* of streams it looks at is never counted.
DisconnectFromPeer(a) ==
  /\ connections[a] # NoEntry
  /\ up' = up \ {connections[a].conn}
  /\ Remove(a)
  /\ UNCHANGED <<known, stage, addrOf, callVars, arrived>>

\* The peers that the handshake of any other peer tells of.
storeReceivedPeers(p) ==
  /\ p \notin known
  /\ known' = known \cup {p}
  /\ UNCHANGED <<table, stage, addrOf, up, callVars, arrived>>

ConnTypeOK ==
  /\ connections \in [Addrs -> [conn : Conns \cup {NoConn}, peer : Peers \cup {NoPeer}]]
  /\ peerConnections \in [Peers -> Addrs \cup {NoAddr}]
  /\ known \subseteq Peers /\ arrived \subseteq known
  /\ stage \in [Conns -> {"none", "handshake", "entering", "dialled", "ready", "over"}]
  /\ addrOf \in [Conns -> Addrs \cup {NoAddr}]
  /\ up \subseteq {c \in Conns : stage[c] # "none"}
  /\ at \in [Threads -> Addrs \cup {NoAddr}]
  /\ conn \in [Threads -> Conns \cup {NoConn}]

\* The address a peer is found at is in the table, under that peer: messages for a peer go
\* to no other and no address is left behind, however dials, handshakes, clean-ups by address
\* and disconnections interleave.
AddressBookIsSound ==
  \A p \in Peers : Connected(p) => connections[peerConnections[p]].peer = p
=============================================================================
