SPECIFICATION FairSpec
CONSTANTS
  read_ttc = read_ttc
  process_tc = process_tc
  time_control = time_control
  ttc1 = ttc1
  fram = fram
  Tasks <- MCTasks
  Chips <- MCChips
  ChipOf <- MCChipOf
  Prio <- MCPrio
  MaxLen <- MCMaxLen
  NoByte = NoByte
INVARIANTS OwnAnswers WaitsForBuffer
PROPERTY TransfersEnd
CHECK_DEADLOCK FALSE
