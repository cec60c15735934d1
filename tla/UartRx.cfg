SPECIFICATION Spec
CONSTANTS
  DEFAULT_BYTE = dflt
  b1 = b1
  b2 = b2
  Byte <- MCByte
  LENGTH = 4
  ReadLengths = {1, 3, 6}
SYMMETRY Symmetry
INVARIANTS HeadInBounds SizeDrift
PROPERTY ImplementsFifo
