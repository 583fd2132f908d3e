SPECIFICATION Spec
CONSTANTS
  Width = 2
  Menus <- MCMenus
INVARIANTS
  NamesAsIncluded
  ValuesExact
  FactsExact
CHECK_DEADLOCK FALSE
