SPECIFICATION FairSpec
CONSTANTS
  LRP = {"i"}
  Task = {"t"}
  Work <- MCWork
  RepConfig <- MCRepConfig
  RootFS <- MCRootFS
  SupportedProviders <- MCProviders
  Half = 16
  MaxCalls = 3
  MaxFaults = 1
CHECK_DEADLOCK FALSE
INVARIANTS
  TypeOK
  ClientReachesCell
  AnswersAreTrue
  StateNamesPlacedWork
  ProvidersAreProvided
  RunsAsPlaced
  EvacuatingTakesNoWork
PROPERTIES
  AcceptedCancelDeletes
