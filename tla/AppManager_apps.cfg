SPECIFICATION FairSpec
CONSTANTS
  App = {system, face}
  System = system
  Internal = {system}
  NoApp = NoApp
  ManagerQueue = 2
  AppQueue = 2
  MaxRequests <- Requests
  Envs <- AllEnvs
INVARIANT TypeOK
INVARIANT CleanStart
INVARIANT ManagerSurvives
PROPERTY LastRequestWins
PROPERTY ClosesEvenIfHung
CHECK_DEADLOCK FALSE
