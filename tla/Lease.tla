------------------------------- MODULE Lease -------------------------------
(***************************************************************************)
(* What the screen owner promises about each place on the screen: it is    *)
(* lent to one component at a time, and a loan ends only by being returned *)
(* or by a tick that found at most one unit of its credit left.  A tick    *)
(* looks, and counts later: what a renewal gives in between may be lost,   *)
(* and it may end a loan that was renewed, or even granted, in between.    *)
(* ScreenOwner implements this specification.                              *)
(***************************************************************************)
EXTENDS Naturals

CONSTANTS
  Slot,       \* the places on the screen
  Component,  \* the components that can be shown
  Nobody,     \* what holds a place that is free
  MaxAlive    \* ticks a loan survives without renewal

VARIABLES
  lease,   \* the component a place is lent to
  credit,  \* ticks the loan has left
  tick,    \* what the tick that is under way will leave, or NoTick
  asked    \* the places whose return is being served

NoTick == MaxAlive

\* With the credit that the place has: a tick that is late may have counted it.
Grant(s) ==
  /\ lease[s] = Nobody
  /\ \E k \in Component : lease' = [lease EXCEPT ![s] = k]
  /\ UNCHANGED <<credit, tick, asked>>

\* By the component that holds the place, or for the next one.
Renew(s) ==
  /\ credit' = [credit EXCEPT ![s] = MaxAlive]
  /\ UNCHANGED <<lease, tick, asked>>

\* The component returns the place: it asks, and is served.
Ask ==
  /\ asked' \in SUBSET Slot
  /\ UNCHANGED <<lease, credit, tick>>

Return(s) ==
  /\ s \in asked
  /\ lease' = [lease EXCEPT ![s] = Nobody]
  /\ UNCHANGED <<credit, tick, asked>>

Look(s) ==
  /\ tick[s] = NoTick
  /\ tick' = [tick EXCEPT ![s] = IF credit[s] > 0 THEN credit[s] - 1 ELSE 0]
  /\ UNCHANGED <<lease, credit, asked>>

Count(s) ==
  /\ tick[s] # NoTick
  /\ credit' = [credit EXCEPT ![s] = tick[s]]
  /\ UNCHANGED <<lease, tick, asked>>

\* The tick found at most one unit: the component was silent for too long.
Expire(s) ==
  /\ tick[s] = 0
  /\ lease' = [lease EXCEPT ![s] = Nobody]
  /\ tick' \in {tick, [tick EXCEPT ![s] = NoTick]}
  /\ UNCHANGED <<credit, asked>>

Pass(s) ==
  /\ tick' = [tick EXCEPT ![s] = NoTick]
  /\ UNCHANGED <<lease, credit, asked>>

Init ==
  /\ lease = [s \in Slot |-> Nobody]
  /\ credit = [s \in Slot |-> MaxAlive]
  /\ tick = [s \in Slot |-> NoTick]
  /\ asked = {}

Next ==
  \/ Ask
  \/ \E s \in Slot :
       Grant(s) \/ Renew(s) \/ Return(s) \/ Look(s) \/ Count(s) \/ Expire(s) \/ Pass(s)

Spec == Init /\ [][Next]_<<lease, credit, tick, asked>>
============================================================================
