------------------------------ MODULE MCMt25q ------------------------------
(* The instance of Mt25q for TLC: a memory of two sectors, four sub-       *)
(* sectors and pages of two bytes.                                         *)
EXTENDS Mt25q

MCUnitSize == [die |-> 8, sector |-> 4, sub_sector |-> 2]

Writes(A, L) ==
  {[op |-> "write", adr |-> a, len |-> n, zeros |-> 0 .. (n - 1)] : a \in A, n \in L}
Reads(A) == {[op |-> "read", adr |-> a, len |-> 2] : a \in A}
Erases(u, N) == {[op |-> "erase", unit |-> u, n |-> k] : k \in N}

\* Writes inside a page, over up to three and at the end of the memory,
\* units that exist or not.
MCCalls ==
  Writes({1, 2, 3, 8}, {1, 2}) \cup Writes({1}, {4}) \cup Reads({0, 3})
    \cup Erases("die", {0, 1}) \cup Erases("sector", {0, 2}) \cup Erases("sub_sector", {1, 4})
=============================================================================
