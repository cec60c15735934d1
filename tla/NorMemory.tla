----------------------------- MODULE NorMemory -----------------------------
(***************************************************************************)
(* What the NOR flash driver promises: a call that returns 0 has taken     *)
(* effect, a call that returns -1 has changed nothing, and the memory      *)
(* changes only by the call in progress.                                   *)
(*                                                                         *)
(* A byte is one bit, erased or cleared; the memory is the set of cleared  *)
(* bytes.  A call is a record: op is "write", "read" or "erase", and cells *)
(* the addresses it clears, reads or erases.                               *)
(***************************************************************************)
EXTENDS Integers

CONSTANTS Requests, \* the calls
          NoRequest

VARIABLES cleared, \* the memory
          request, \* the call in progress
          done,    \* it has taken effect
          ret,     \* what the last call returned
          got      \* the cleared bytes the last read found

vars == <<cleared, request, done, ret, got>>

Init ==
  /\ cleared = {} /\ request = NoRequest /\ done = FALSE
  /\ ret = 0 /\ got = {}

Call(r) ==
  /\ request = NoRequest
  /\ request' = r /\ done' = FALSE /\ got' = {}
  /\ UNCHANGED <<cleared, ret>>

Apply ==
  /\ request # NoRequest /\ ~done
  /\ done' = TRUE
  /\ cleared' = IF request.op = "write" THEN cleared \cup request.cells
                ELSE IF request.op = "erase" THEN cleared \ request.cells
                ELSE cleared
  /\ got' = IF request.op = "read" THEN cleared \cap request.cells ELSE got
  /\ UNCHANGED <<request, ret>>

Return ==
  /\ request # NoRequest
  /\ request' = NoRequest /\ done' = FALSE
  /\ ret' = IF done THEN 0 ELSE -1
  /\ UNCHANGED <<cleared, got>>

Next == (\E r \in Requests : Call(r)) \/ Apply \/ Return

Spec == Init /\ [][Next]_vars
=============================================================================
