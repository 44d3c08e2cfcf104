\* Two SDWire3s of one serial and another device.
SPECIFICATION Spec
CONSTANTS
  d1 = d1
  d2 = d2
  s1 = s1
  bench1 = bench1
  SDWires = {d1, d2}
  SDWire3s = {d1, d2}
  Others = {o1}
  Places <- MCPlaces
  Nowhere = Nowhere
  Serials = {s1}
  Unknown = Unknown
  Serial <- MCSameSerial
  Flags <- MCFlags
  NoFlag = NoFlag
  Defaults = {NoFlag, bench1}
  ConfigDevices <- MCConfigDevices
  MaxSightings = 2
  MaxEvents = 2
INVARIANTS TypeOK UsesTheNamed LiveBeforeRemembered ListedOnce
PROPERTIES StateLooksOnly SearchEnds
SYMMETRY MCSymmetry
