\* Two goroutines of the relay manager, two sessions, one fault, no messages from others;
\* or a search among two peers, of which one is looked up if the request names none, with
\* one fault.
CONSTANTS
  s1 = s1
  s2 = s2
  t1 = t1
  t2 = t2
  m1 = m1
  r1 = r1
  r2 = r2
  f1 = f1
  d1 = d1
  reqA = reqA
  reqB = reqB
  peer1 = peer1
  peer2 = peer2
  NoSession = NoSession
  NoMessage = NoMessage
  NoRow = NoRow
  Sessions <- TwoSessions
  Forwarders <- OneForwarder
  Deliverers <- OneDeliverer
  MaxConnections = 2
  MaxRetries = 1
  Threads <- TwoThreads
  Messages <- NoMessages
  Rows <- NoRows
  MaxStored = 1
  QueryLimit = 1
  MaxKeepers = 2
  MaxFaults = 1
  Requests <- NoRequests
  AskedFor <- NoneAskedFor
  MaxRequestFaults = 1
  NoCopy = NoCopy
  NoAnswer = NoAnswer
  SearchPeers <- TwoPeers
  Me = Me
  NoName = NoName
  NoFilter = NoFilter
  Filters <- FiltersOfTwo
  MaxRelayQueries = 1
  MaxSearchFaults = 1
SPECIFICATION TrafficSpec
INVARIANTS SearchIsSound
PROPERTIES LossIsHandled
CHECK_DEADLOCK FALSE
