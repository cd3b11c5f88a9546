\* Two messages one way and one the other, an exchange tried twice, two faults; or a group
\* of three with one message of each, one fault.
CONSTANTS
  x1 = x1
  x2 = x2
  y1 = y1
  mem1 = mem1
  mem2 = mem2
  mem3 = mem3
  NoMessage = NoMessage
  Messages <- ThreeMessages
  SenderOf <- Writers
  Starter = 1
  MaxAttempts = 2
  MaxKeys = 6
  MaxFaults = 2
  Members <- ThreeMembers
  Creator = mem1
  MaxSent = 1
  MaxGroupFaults = 1
SPECIFICATION Spec
INVARIANTS TypeOK   KeysAreNotAhead
CHECK_DEADLOCK FALSE
