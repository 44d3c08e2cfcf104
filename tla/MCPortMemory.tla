---------------------------- MODULE MCPortMemory ----------------------------
(***************************************************************************)
(* PortMemory on a bench of two ports.                                      *)
(***************************************************************************)
EXTENDS PortMemory, TLC

CONSTANTS c1, c2, r1, r2, q1, q2, s1, s2, w1, w2

\* Two readers of one serial, as they ship, or of two.
MCSameSerial == r1 :> s1 @@ r2 :> s1
MCOwnSerial  == r1 :> s1 @@ r2 :> s2
MCOneReader  == r1 :> s1

\* Two ports of one bus.
MCPaths     == q1 :> w1 @@ q2 :> w2

MCSymmetry == Permutations(Commands) \union Permutations(Hubs)
=============================================================================
