SPECIFICATION FairSpec
CONSTANTS
  Fields <- MCFields
  Attempts = 3
  SlaveTimeout = 2
  MaxFaults = 4
INVARIANTS StampIsTrue StampIsChecked
PROPERTY FreshAgain
