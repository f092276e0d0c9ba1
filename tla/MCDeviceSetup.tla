--------------------------- MODULE MCDeviceSetup ---------------------------
(* Instances of DeviceSetup for TLC. *)
EXTENDS DeviceSetup
=============================================================================
