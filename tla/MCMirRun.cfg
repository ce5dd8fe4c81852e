SPECIFICATION Spec
CONSTANTS
  Input = Input
  NameOf <- MCNameOf
  Programs <- AllPrograms
INVARIANTS
  ReadsAgree
  FlowsAgree
  PhiStoresCommute
CHECK_DEADLOCK FALSE
