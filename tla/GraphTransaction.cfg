CONSTANTS
  NumSources = 2
  MaxRevision = 3
SPECIFICATION Spec
INVARIANTS
  ProvenanceSound
  ValidIsWhole
PROPERTIES
  AllOrNothing
  PublishesAtomically
