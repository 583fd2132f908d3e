SPECIFICATION Spec
CONSTANTS
  Sources = {1, 2}
  Names = {1, 2}
  Flavours = {"f", "g"}
  Usages <- AnonymousUsage
  MaxFacts = 2
  MaxHandles = 5
INVARIANT AnonymousTypesLive
