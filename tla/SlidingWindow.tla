----------------------------- MODULE SlidingWindow -----------------------------
(***************************************************************************)
(* What a rate limiter promises a client: of Max + 1 admissions in a row   *)
(* the last comes more than Span after the first, as long as the limiter's *)
(* memory lasts.  Refusing is always allowed.                              *)
(***************************************************************************)
EXTENDS Naturals, Sequences

CONSTANTS Max, Span

VARIABLES
    clock,
    admitted,  \* the time of every admission since the memory was last lost
    losses     \* how often it was lost: a restart, an eviction

Admit ==
    /\ Len(admitted) < Max \/ admitted[Len(admitted) + 1 - Max] + Span < clock
    /\ admitted' = Append(admitted, clock)
    /\ UNCHANGED <<clock, losses>>

Tick == clock' = clock + 1 /\ UNCHANGED <<admitted, losses>>

Forget == admitted' = <<>> /\ losses' = losses + 1 /\ UNCHANGED clock

Init == clock = 0 /\ admitted = <<>> /\ losses = 0
Next == Admit \/ Tick \/ Forget
Spec == Init /\ [][Next]_<<clock, admitted, losses>>
=============================================================================
