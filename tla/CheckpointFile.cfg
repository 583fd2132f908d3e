SPECIFICATION Spec
CONSTANTS
  p1 = p1
  p2 = p2
  t1 = t1
  t2 = t2
  Savers = {p1, p2}
  Names = {t1, t2}
  Kinds = {"source", "compiled"}
  MaxSaves = 3
SYMMETRY Symmetry
INVARIANTS
  TargetWhole
  SuccessDurable
  ViewWhole
  TemporariesOwned
