---------------------------- MODULE MCApnAdapter ----------------------------
(***************************************************************************)
(* ApnAdapter for TLC: one goroutine drives both devices and a second one  *)
(* drives the second device too, so that one device has one driver and the *)
(* other has two.                                                          *)
(***************************************************************************)
EXTENDS ApnAdapter

CONSTANTS d1, d2, g1, g2

MCDevices == {d1, d2}
MCCallers == {g1, g2}
MCDrives  == [c \in MCCallers |-> IF c = g1 THEN {d1, d2} ELSE {d2}]
=============================================================================
