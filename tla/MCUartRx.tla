------------------------------ MODULE MCUartRx ------------------------------
EXTENDS UartRx, TLC

CONSTANTS b1, b2 \* two bytes other than the default one

MCByte == {DEFAULT_BYTE, b1, b2}

\* The properties these runs check do not tell b1 from b2.
Symmetry == Permutations({b1, b2})
=============================================================================
