-------------------------- MODULE MCDeviceQueries --------------------------
(* Instance of DeviceQueries for TLC.  Clock indices and the other answers *)
(* overlap, as the bytes of the protocol do; versions are small numbers,   *)
(* with V13 the 13 of the protocol.                                        *)
EXTENDS DeviceQueries

MCClocks == {0, 1}
MCConfigLens == {64}

(* A v1.3 board with stereo and FM-OPL, and a board without either, which  *)
(* runs at a rate that CLOCK_TABLE does not list.                          *)
Stereo == [clock |-> 1, num |-> 2, fmopl |-> 1, pcb |-> 2]
Mono == [clock |-> 2, num |-> 1, fmopl |-> 0, pcb |-> 1]

OneBoard == {Stereo}
TwoBoards == {Stereo, Mono}
=============================================================================
