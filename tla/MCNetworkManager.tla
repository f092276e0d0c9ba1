-------------------------- MODULE MCNetworkManager --------------------------
(* Instances of NetworkManager for TLC. *)
EXTENDS NetworkManager
CONSTANTS home, office
=============================================================================
