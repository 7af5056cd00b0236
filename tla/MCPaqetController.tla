------------------------- MODULE MCPaqetController -------------------------
(***************************************************************************)
(* Small instances of PaqetController for TLC: symmetric configuration     *)
(* ids, a few ports and a choice of proxy modes.                           *)
(***************************************************************************)
EXTENDS PaqetController, TLC

Perms == Permutations(Configs)
SocksModes == {"none", "system"}
TunModes == {"none", "tun"}
TwoPorts == {1284, 2000}
OnePort == {1284}
=============================================================================
