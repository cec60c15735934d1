------------------------------ MODULE MCSpiBus ------------------------------
(* The instance of SpiBus for TLC: the telecommand task (priority 4) and   *)
(* two tasks of priority 3, on two chips of the port; one of the two makes *)
(* transfers of several bytes.                                             *)
EXTENDS SpiBus

CONSTANTS read_ttc, process_tc, time_control, ttc1, fram

MCTasks == {read_ttc, process_tc, time_control}
MCChips == {ttc1, fram}
MCChipOf == [t \in MCTasks |-> IF t = time_control THEN fram ELSE ttc1]
MCPrio == [t \in MCTasks |-> IF t = process_tc THEN 4 ELSE 3]
MCMaxLen == [t \in MCTasks |-> IF t = read_ttc THEN 2 ELSE 1]
=============================================================================
