\* FlashAndBoot, with a plug that takes up to its timeout.
SPECIFICATION Spec
CONSTANTS
  MinOffs    <- MCMinOffs
  DefaultMin = 2
  Callers    = {"flash"}
  Timeout    = 2
  MaxStrays  = 0
  MaxPresses = 0
  MaxTime    = 7
PROPERTY FlashTopsUp
\* Time is up.
CHECK_DEADLOCK FALSE
