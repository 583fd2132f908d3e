SPECIFICATION Spec
CONSTANTS
  u1 = u1
  u2 = u2
  a = a
  b = b
  Tombstone = Tombstone
  Updates <- MCUpdates
  Strings <- MCStrings
  MaxSlots = 3
  MaxEpoch = 4
SYMMETRY Symmetry
INVARIANTS
  LookupExact
  IssuedIdsStable
  StaleNeverPrepared
PROPERTY
  SlotsNeverReused
CHECK_DEADLOCK FALSE
