---------------------------- MODULE PttDelivery ----------------------------
(***************************************************************************)
(* What the EDC reading task promises: every packet the payload decodes is *)
(* delivered once, in the order of decoding, and leaves the payload's      *)
(* buffer only by being delivered.                                         *)
(***************************************************************************)
EXTENDS Sequences

CONSTANT Packets

VARIABLES waiting, delivered

Init == waiting = <<>> /\ delivered = <<>>

Decode(p) == waiting' = Append(waiting, p) /\ UNCHANGED delivered

Deliver ==
  /\ waiting # <<>>
  /\ delivered' = Append(delivered, Head(waiting))
  /\ waiting' = Tail(waiting)

Next == (\E p \in Packets : Decode(p)) \/ Deliver

Spec == Init /\ [][Next]_<<waiting, delivered>>
=============================================================================
