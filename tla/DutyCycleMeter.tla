---------------------------- MODULE DutyCycleMeter ----------------------------
(***************************************************************************)
(* What a duty-cycle limit promises, apart from how it is enforced: a      *)
(* meter that every emission fills by its time on air, that leaks at the   *)
(* permitted rate, and that never rises above the permitted capacity.      *)
(* Over any span of n ticks the airtime is then at most Capacity + n*Rate. *)
(***************************************************************************)
EXTENDS Naturals

CONSTANTS
    Capacity,  \* airtime that may be spent at once
    Rate       \* airtime that is given back per tick

VARIABLE level

Init == level = 0

\* A frame of the given airtime goes out, if it fits.
Emit(airtime) ==
    /\ level + airtime <= Capacity
    /\ level' = level + airtime

\* One tick of time.
Leak == level' = IF level > Rate THEN level - Rate ELSE 0

Next ==
    \/ \E airtime \in 1..Capacity : Emit(airtime)
    \/ Leak

Spec == Init /\ [][Next]_level

=============================================================================
