-------------------------------- MODULE Fifo --------------------------------
(***************************************************************************)
(* What the receive path of a UART port promises: bytes come out in the    *)
(* order they came in, none twice and none invented, except that           *)
(*   - a byte that arrives when Capacity bytes are held is dropped,        *)
(*   - reading with nothing held yields DEFAULT_BYTE, and                  *)
(*   - a byte that arrives while the buffer is being cleared spoils it:    *)
(*     any byte may be read, until it is cleared again.                    *)
(***************************************************************************)
EXTENDS Integers, Sequences

CONSTANTS Byte, DEFAULT_BYTE, Capacity

VARIABLES contents, \* the bytes held, oldest first
          popped,   \* what the last read returned
          mode      \* "sound", "clearing" or "spoiled"

Init == contents = <<>> /\ popped = DEFAULT_BYTE /\ mode = "sound"

Push(b) ==
  /\ mode = "sound" /\ Len(contents) < Capacity
  /\ contents' = Append(contents, b)
  /\ UNCHANGED <<popped, mode>>

Pop ==
  /\ mode = "sound"
  /\ IF contents = <<>>
     THEN popped' = DEFAULT_BYTE /\ UNCHANGED contents
     ELSE popped' = Head(contents) /\ contents' = Tail(contents)
  /\ UNCHANGED mode

Clear == contents' = <<>> /\ mode' = "clearing" /\ UNCHANGED popped

Cleared == mode = "clearing" /\ mode' = "sound" /\ UNCHANGED <<contents, popped>>

Spoil == mode = "clearing" /\ mode' = "spoiled" /\ UNCHANGED <<contents, popped>>

PopSpoiled == mode = "spoiled" /\ popped' \in Byte /\ UNCHANGED <<contents, mode>>

Next == (\E b \in Byte : Push(b)) \/ Pop \/ Clear \/ Cleared \/ Spoil \/ PopSpoiled

Spec == Init /\ [][Next]_<<contents, popped, mode>>
=============================================================================
