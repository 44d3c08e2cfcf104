------------------------------ MODULE MCFlash ------------------------------
(***************************************************************************)
(* Flash on a small card: sectors of two bytes, chunks of two sectors, and *)
(* images that are empty, end inside a sector, on a sector, on a chunk, or *)
(* are too long for the device.                                            *)
(***************************************************************************)
EXTENDS Flash

MCImageSizes  == {0, 3, 4, 7}
MCDeviceSizes == {2, 4, 6}

AllRigs == [buffered : BOOLEAN, lateMount : BOOLEAN, canRevive : BOOLEAN]

\* A reader whose resumed writes may have been cached only (an SDWire3 on Linux) ...
MCCachedRigs == {r \in AllRigs : r.buffered /\ r.canRevive /\ ~r.lateMount}

\* ... and all others: on macOS, or SDWireCs, whatever is mounted when.
MCDurableRigs == {r \in AllRigs : ~(r.buffered /\ r.canRevive)}
=============================================================================
