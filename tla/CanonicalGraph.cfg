SPECIFICATION Spec
CONSTANTS
  Sources = {1, 2}
  Names = {1, 2}
  Flavours = {"f", "g"}
  Usages <- MCUsages
  MaxFacts = 2
  MaxHandles = 5
INVARIANTS
  ContributionsExact
  TablesSound
  StableIdsUnique
  DependencyIndexExact
  CompiledRoundTrip
PROPERTY
  StableIdsPersist
