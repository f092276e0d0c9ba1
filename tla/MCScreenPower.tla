--------------------------- MODULE MCScreenPower ---------------------------
(* Instances of ScreenPower for TLC. *)
EXTENDS ScreenPower
=============================================================================
