----------------------------- MODULE MCBlockDev -----------------------------
(***************************************************************************)
(* Two SDWires of one kind and a stick; two ports of the same path on two  *)
(* buses; and disk names of which one is the other's with a digit more.    *)
(***************************************************************************)
EXTENDS BlockDev, TLC

CONSTANTS d1, d2, stick, m1, m2

MCDevices == {d1, d2, stick}
MCKindOf  == [d \in MCDevices |-> IF d = stick THEN "stick" ELSE "sdwire3"]
MCReaders == {"sdwire3"}
MCPlaces  == {[bus |-> 1, path |-> <<1, 3>>], [bus |-> 2, path |-> <<1, 3>>]}
MCLetters == {"mmcblk", "sdb"}
MCNames   == {<<"mmcblk", "1">>, <<"mmcblk", "1", "0">>, <<"sdb">>}
MCParts   == {"", "1"}
MCPoints  == {m1, m2}

MCSymmetry == Permutations({d1, d2}) \union Permutations(MCPoints)
=============================================================================
