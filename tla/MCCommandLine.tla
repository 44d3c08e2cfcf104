--------------------------- MODULE MCCommandLine ---------------------------
(***************************************************************************)
(* CommandLine on a bench of two hub ports on one bus and one on another,  *)
(* chosen so that a path with its bus reads like another's path.           *)
(***************************************************************************)
EXTENDS CommandLine, TLC

CONSTANTS d1, d2, s1, bench1

MCSameSerial == d1 :> s1 @@ d2 :> s1

Bus1Port2  == [bus |-> 1, path |-> <<2>>]
Bus2Port2  == [bus |-> 2, path |-> <<2>>]
Bus2Port12 == [bus |-> 2, path |-> <<1, 2>>]

MCPlaces == {Bus1Port2, Bus2Port2, Bus2Port12}

MCFlags == {NoFlag, bench1, BySerial(s1), ByIdentity(s1, <<1, 2>>)}

\* A config device with both keys.
MCConfigDevices ==
  bench1 :> [location |-> AtLocation(Bus1Port2), serial |-> BySerial(s1)]

MCSymmetry == Permutations(SDWires)
=============================================================================
