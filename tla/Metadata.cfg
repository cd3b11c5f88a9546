\* One store and one bootstrap node, two changes and one move of the address, one fault;
\* two callers of QueryMetadata.
CONSTANTS
  c1 = c1
  c2 = c2
  Stores <- OneStore
  Boots <- OneBoot
  Enough = 5
  Goroutines <- OneGoroutine
  Callers <- TwoCallers
  MaxRetries = 3
  MaxChanges = 2
  MaxMoves = 1
  MaxFaults = 1
SPECIFICATION FairSpec
INVARIANT TypeOK
PROPERTIES PublishedIsTrue LookupsEnd
CHECK_DEADLOCK FALSE
