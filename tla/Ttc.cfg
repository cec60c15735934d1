SPECIFICATION FairSpec
CONSTANTS
  MaxPackets = 2
  MaxFaults = 1
INVARIANTS StampIsWhole NoGhostCommand
PROPERTIES AllTaken FreshAgain
