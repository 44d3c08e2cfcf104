\* Two commands at once, one reader, two ports and a hub that may be swapped.
SPECIFICATION Spec
CONSTANTS
  c1 = c1
  c2 = c2
  r1 = r1
  r2 = r2
  q1 = q1
  q2 = q2
  s1 = s1
  s2 = s2
  w1 = w1
  w2 = w2
  Commands = {c1, c2}
  Readers = {r1}
  Others = {}
  Serials = {s1}
  Unknown = Unknown
  Serial <- MCOneReader
  Ports = {q1, q2}
  Path <- MCPaths
  Hubs = {h1, h2}
  Anyone = Anyone
  Nowhere = Nowhere
  Selections = {Anyone}
  MaxSightings = 2
  HandsOff = FALSE
  MaxEvents = 1
INVARIANTS TypeOK OnePerPort EntriesSighted
PROPERTY FallbackEnds
SYMMETRY MCSymmetry
