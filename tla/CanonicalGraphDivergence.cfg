SPECIFICATION Spec
CONSTANTS
  Sources = {1, 2}
  Names = {1, 2}
  Flavours = {"f", "g"}
  Usages <- NamedUsage
  MaxFacts = 2
  MaxHandles = 3
INVARIANT
  DefinitionsFaithful
