\* A message for a client that connects twice, a store with one place, two rows of the
\* table, one fault; or two requests and one fault; or a search with one other peer.
CONSTANTS
  s1 = s1
  s2 = s2
  t1 = t1
  t2 = t2
  m1 = m1
  r1 = r1
  r2 = r2
  f1 = f1
  d1 = d1
  reqA = reqA
  reqB = reqB
  peer1 = peer1
  peer2 = peer2
  NoSession = NoSession
  NoMessage = NoMessage
  NoRow = NoRow
  Sessions <- TwoSessions
  Forwarders <- OneForwarder
  Deliverers <- OneDeliverer
  MaxConnections = 2
  MaxRetries = 1
  Threads <- OneThread
  Messages <- OneMessage
  Rows <- TwoRows
  MaxStored = 1
  QueryLimit = 1
  MaxKeepers = 1
  MaxFaults = 1
  Requests <- TwoRequests
  AskedFor <- TwoAskedFor
  MaxRequestFaults = 1
  NoCopy = NoCopy
  NoAnswer = NoAnswer
  SearchPeers <- OnePeer
  Me = Me
  NoName = NoName
  NoFilter = NoFilter
  Filters <- FiltersOfOne
  MaxRelayQueries = 1
  MaxSearchFaults = 1
SPECIFICATION TrafficSpec
INVARIANTS TrafficTypeOK ConfirmedIsKept OrdersAreSound
PROPERTIES StoredIsDelivered RequestsEnd
CHECK_DEADLOCK FALSE
