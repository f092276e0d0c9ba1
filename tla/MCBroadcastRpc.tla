--------------------------- MODULE MCBroadcastRpc ---------------------------
(* Instances of BroadcastRpc for TLC. *)
EXTENDS BroadcastRpc
CONSTANTS content, setup

\* One program calls twice, so that an answer may come a whole call late.
\* The other one only listens.
MCMaxCalls == [c \in {content, setup} |-> IF c = content THEN 2 ELSE 0]
=============================================================================
