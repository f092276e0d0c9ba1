--------------------------- MODULE MCMainContent ---------------------------
(* Instances of MainContent for TLC. *)
EXTENDS MainContent

\* Bound: where two threads have crossed and a call failed or a component was
\* lost as well, the record may be anything; no step is taken from there.
OneDisturbance == ~(crossed /\ (lapsed \/ kept \/ ~Up))
=============================================================================
