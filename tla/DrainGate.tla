----------------------------- MODULE DrainGate -----------------------------
(***************************************************************************)
(* What the workers of the program promise of a graceful stop, whatever    *)
(* they are made of (a mutex, a closed flag, a WaitGroup, semaphores).     *)
(* Work enters while the gate is open, the gate closes for good, and the   *)
(* stop is reported once everyone who entered has left.                    *)
(***************************************************************************)
CONSTANT Workers

VARIABLES open,      \* work is accepted
          inside,    \* the workers that were accepted and have not finished
          drained    \* somebody was told that the stop is complete

gate == <<open, inside, drained>>

Init == open = TRUE /\ inside = {} /\ drained = FALSE

Enter(w) ==
    /\ open /\ w \notin inside
    /\ inside' = inside \cup {w}
    /\ UNCHANGED <<open, drained>>

Leave(w) ==
    /\ w \in inside
    /\ inside' = inside \ {w}
    /\ UNCHANGED <<open, drained>>

Close ==
    /\ open' = FALSE
    /\ UNCHANGED <<inside, drained>>

Report ==
    /\ ~open /\ inside = {}
    /\ drained' = TRUE
    /\ UNCHANGED <<open, inside>>

Next == Close \/ Report \/ \E w \in Workers : Enter(w) \/ Leave(w)

Spec == Init /\ [][Next]_gate
============================================================================
