SPECIFICATION Spec
CONSTANTS
  MaxPackets = 1
  MaxFaults = 0
INVARIANTS ReceivedIsRun
