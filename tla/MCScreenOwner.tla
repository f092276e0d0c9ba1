--------------------------- MODULE MCScreenOwner ---------------------------
(* Instances of ScreenOwner for TLC. *)
EXTENDS ScreenOwner

CONSTANTS main, bar, STATUS, TABLE, INFO_BAR, listener, worker

MCSlots == {main, bar}
MCSlotOrder == <<main, bar>>

\* Two threads of the main content want components of one place.  The other
\* place is acquired by a client that dies while it connects.
MCClients == {listener, worker}
MCComponents == {STATUS, TABLE, INFO_BAR}
MCSlotOf == [k \in MCComponents |-> IF k = INFO_BAR THEN bar ELSE main]
MCMortal == {listener}
MCUses == [c \in MCClients |-> IF c = listener THEN {STATUS} ELSE {TABLE}]
MCKeepsWidget == {INFO_BAR}
MCResetsLabels == {TABLE}
============================================================================
