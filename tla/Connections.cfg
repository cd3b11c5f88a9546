\* One peer, a message, two rounds of delivery at a time, a goroutine that only connects.
CONSTANTS
  peer1 = peer1
  listen = listen
  in1 = in1
  m1 = m1
  w1 = w1
  w2 = w2
  ping = ping
  NoPeer = NoPeer
  NoAddr = NoAddr
  NoConn = 0
  NoMessage = NoMessage
  Peers <- OnePeer
  Listening <- ListenAt
  Incoming <- OneIncoming
  Owner <- OwnerOfOne
  Conns = {1, 2, 3}
  Messages <- OneMessage
  To <- ToPeer
  Workers <- TwoWorkers
  Pingers <- OnePinger
  Threads <- FewThreads
  Rows = {1, 2}
  MaxUsage = 2
  MaxAttempts = 2
  GiveUpAfter = 1
  MaxFaults = 1
SPECIFICATION FairSpec
INVARIANTS TypeOK AddressBookIsSound AcceptedIsKept
PROPERTIES StoredReachesTheConnected
CHECK_DEADLOCK FALSE
