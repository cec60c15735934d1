SPECIFICATION FairSpec
CONSTANTS
  Attempts = 2
  ArmTries = 2
  HibernationMin = 1
  DeployAttempts = 10
  MaxFaults = 2
  MaxResets = 1
INVARIANTS Released CutOffWhenIdle
PROPERTY RoutinesEnd
