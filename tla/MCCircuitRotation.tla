------------------------- MODULE MCCircuitRotation -------------------------
(***************************************************************************)
(* Two devices and three servers. The addresses have every form; server a  *)
(* announces its key and later one that does not decode, and server c      *)
(* announces no key.                                                       *)
(***************************************************************************)
EXTENDS CircuitRotation

CONSTANTS a, b, c, ka, kb, bad, none

MCAddressOf ==
  [s \in Servers |-> CASE s = a -> "ip:port" [] s = b -> "ip" [] s = c -> ""]

\* The form that the configuration example and the record's comment give.
DocumentedAddressOf == [s \in Servers |-> "ip:port"]

MCHopSets ==
  LET A  == [server |-> a, key |-> ka]
      A2 == [server |-> a, key |-> bad]
      B  == [server |-> b, key |-> kb]
      C  == [server |-> c, key |-> none]
  IN  {{A, B}, {A2, C}}
=============================================================================
