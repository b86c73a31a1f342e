----------------------------- MODULE WireGuard -----------------------------
(***************************************************************************)
(* camo-wireguard: the peers of the node's WireGuard interface and the     *)
(* commands that change them. The commands are operators that the module   *)
(* of the client, CircuitRotation, takes as part of its own steps: a       *)
(* command is one request over the daemon's socket, and is served at once  *)
(* or, when the daemon is down, fails at once.                             *)
(*                                                                         *)
(* The interface is set up outside the daemon, which does not create it,   *)
(* and outlives it. An address is abstracted to its form: it is all that   *)
(* the two parsers in addPeer look at. Announced keys decode to different  *)
(* peers.                                                                  *)
(***************************************************************************)
CONSTANTS
  WGKeys,      \* the public keys that nodes announce
  InvalidKeys, \* those that are not base64
  ShortKeys,   \* base64 with fewer than eight characters, like the empty one
  Configured   \* peers the operator configured on the interface

VARIABLES
  wgPeers,     \* the peers of the interface
  wgRunning    \* the daemon is up

wgVars == <<wgPeers, wgRunning>>

AddressForm   == {"", "ip", "ip:port"}
AllowedIPForm == {"", "/32", "ip/32", "ip:port/32"}

\* net.ResolveUDPAddr and net.ParseCIDR: which forms they accept.
ResolveUDPAddr(endpoint) == endpoint = "ip:port"
ParseCIDR(allowedIP)     == allowedIP = "ip/32"

WGInit ==
  /\ wgPeers = Configured
  /\ wgRunning = TRUE

\* The arguments addPeer does not return an error for.
ValidPeer(key, endpoint, allowedIP) ==
  /\ key \notin InvalidKeys
  /\ endpoint # "" => ResolveUDPAddr(endpoint)
  /\ allowedIP # "" => ParseCIDR(allowedIP)

\* add_peer. After a success the daemon logs the first eight characters of the
\* key, and a shorter key makes it panic.
AddPeer(key, endpoint, allowedIP) ==
  LET added == wgRunning /\ ValidPeer(key, endpoint, allowedIP)
  IN  /\ wgPeers'   = IF added THEN wgPeers \cup {key} ELSE wgPeers
      /\ wgRunning' = (wgRunning /\ ~(added /\ key \in ShortKeys))

\* remove_peer; to remove a peer that is not there is no error.
RemovePeer(key) ==
  LET removed == wgRunning /\ key \notin InvalidKeys
  IN  /\ wgPeers'   = IF removed THEN wgPeers \ {key} ELSE wgPeers
      /\ wgRunning' = (wgRunning /\ ~(removed /\ key \in ShortKeys))

\* The container is started (again).
WGStart ==
  /\ ~wgRunning
  /\ wgRunning' = TRUE
  /\ UNCHANGED wgPeers
=============================================================================
