SPECIFICATION Spec
CONSTANTS
  Input = Input
  NameOf <- MCNameOf
  Programs <- LirPrograms
  Levels = {"debug", "balanced", "performance"}
INVARIANTS
  ReadsKept
  FlowKept
  AnalysesFresh
  SsaForm
CHECK_DEADLOCK FALSE
