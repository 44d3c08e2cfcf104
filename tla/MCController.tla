---------------------------- MODULE MCController ----------------------------
(***************************************************************************)
(* Controller on every platform the program is built for.                  *)
(***************************************************************************)
EXTENDS Controller

MCPlatforms == {"darwin", "linux", "hub", "ftdi"}
=============================================================================
