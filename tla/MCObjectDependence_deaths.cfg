SPECIFICATION Spec
CONSTANTS
  Objects = {o1, o2, o3}
  Types = {target, builder}
  NoObject = NoObject
  NoType = NoType
SYMMETRY Symmetry
INVARIANTS
  ListsLeadToObjects
  PointersAreValid
  ListsAgree
PROPERTIES
  WalkedListsStay
CHECK_DEADLOCK FALSE
