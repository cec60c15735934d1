------------------------------- MODULE MCEps -------------------------------
(* The instance of Eps for TLC: two registers tell a frame of the register *)
(* read before from the one asked for.                                     *)
EXTENDS Eps

MCFields == <<"r1", "r2">>
=============================================================================
