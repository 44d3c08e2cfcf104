\* A serial is asked for whose remembered port another reader has taken.
SPECIFICATION Spec
CONSTANTS
  c1 = c1
  c2 = c2
  r1 = r1
  r2 = r2
  q1 = q1
  q2 = q2
  s1 = s1
  s2 = s2
  w1 = w1
  w2 = w2
  Commands = {c1}
  Readers = {r1, r2}
  Others = {}
  Serials = {s1, s2}
  Unknown = Unknown
  Serial <- MCOwnSerial
  Ports = {q1, q2}
  Path <- MCPaths
  Hubs = {h1}
  Anyone = Anyone
  Nowhere = Nowhere
  Selections = {s1}
  MaxSightings = 1
  HandsOff = TRUE
  MaxEvents = 2
INVARIANT RightReader
