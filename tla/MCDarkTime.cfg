\* All callers, with a plug that takes up to its timeout, an abandoned request
\* of either kind and a press of the button.
SPECIFICATION Spec
CONSTANTS
  MinOffs    <- MCMinOffs
  DefaultMin = 2
  Callers    = {"cycle", "flash", "on", "off"}
  Timeout    = 2
  MaxStrays  = 1
  MaxPresses = 1
  MaxTime    = 8
INVARIANTS TypeOK NilMeansSwitched
PROPERTY DarkLongEnough
\* Time is up.
CHECK_DEADLOCK FALSE
