CONSTANTS
  Trees <- MCTrees
  Damaged <- MCDamaged
SPECIFICATION Spec
INVARIANTS
  ReadAsMeant
  NothingIgnored
CHECK_DEADLOCK FALSE
