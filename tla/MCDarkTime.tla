----------------------------- MODULE MCDarkTime -----------------------------
(***************************************************************************)
(* DarkTime over eight ticks: minima of none, less and more than the       *)
(* default and the timeout, with room for a second call after a failed one.*)
(***************************************************************************)
EXTENDS DarkTime

MCMinOffs == {0, 1, 3}
=============================================================================
