SPECIFICATION FlashSpec
CONSTANTS
  Size = 8
  PageSize = 2
  UnitSize <- MCUnitSize
  Calls <- MCCalls
  NoCall = NoCall
  NoJob = NoJob
  Failures = {"timeout", "fault"}
INVARIANTS CommandFindsReady ReportedIsStored SendsEveryByte
PROPERTY ImplementsNor
