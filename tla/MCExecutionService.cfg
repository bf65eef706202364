\* Two invocations compete for one slot, with the code's two retries.
SPECIFICATION FairSpec
CONSTANTS
  Inv = {i1, i2}
  MaxConcurrent = 1
  MaxRetries = 2
INVARIANTS
  TypeOK
  SlotConservation
  RowTellsTruth
  OnlyExcusedRowsStranded
  RegistryMatchesTasks
  FinalEventTruthful
  CancelStopsAttempts
  ShutdownDrains
PROPERTIES
  RetriesOnlyTransient
  TerminalRowsStay
  ImplementsLifecycle
  EveryTaskEnds
