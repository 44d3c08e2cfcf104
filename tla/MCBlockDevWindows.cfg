SPECIFICATION Spec
SYMMETRY MCSymmetry
CONSTANTS
  d1 = d1
  d2 = d2
  stick = stick
  m1 = m1
  m2 = m2
  Platforms = {"windows"}
  Places  <- MCPlaces
  Devices <- MCDevices
  KindOf  <- MCKindOf
  Readers <- MCReaders
  Letters <- MCLetters
  Names   <- MCNames
  Parts   <- MCParts
  Points  <- MCPoints
  Nobody = Nobody
  NoPath = NoPath
  WriteRetries = 1
  MaxEvents = 2
INVARIANTS NeverGuesses
\* A job that has ended stays ended.
CHECK_DEADLOCK FALSE
