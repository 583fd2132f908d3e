SPECIFICATION Spec
CONSTANTS
  p1 = p1
  p2 = p2
  p3 = p3
  Paths = {p1, p2, p3}
  RootPaths = {p1}
  Contents = {1, 2}
  Instances <- MCInstances
  MaxWrites = 2
  MaxGeneration = 2
  Encoded <- MCEncoded
  PathHash <- MCPathHash
  Corrupt = Corrupt
  NotAvailable = NotAvailable
INVARIANTS
  IncludesExact
  PhysicalExact
  CheckpointRoundTrip
  ValidatedIsConsistent
PROPERTY
  SourceIdsStable
CHECK_DEADLOCK FALSE
