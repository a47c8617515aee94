----------------------------- MODULE ReadyQueue -----------------------------
(***************************************************************************)
(* What the functions of lwp.h's struct scheduler promise together, seen   *)
(* from outside: threads get their turns in the order in which they were   *)
(* admitted, a turn at a time, and none disappears but by remove.          *)
(***************************************************************************)
EXTENDS FifoScheduler

CONSTANT Thread
VARIABLE turns          \* the ready threads, the next one first

Admitted(t) ==
    /\ t \notin Range(turns)
    /\ turns' = fifo_admit(turns, t)

TurnGiven == turns' = fifo_advance(turns)

Removed(t) ==
    /\ t \in Range(turns)
    /\ turns' = fifo_remove(turns, t)

Init == turns = fifo_init
Next == TurnGiven \/ \E t \in Thread : Admitted(t) \/ Removed(t)
Spec == Init /\ [][Next]_turns
=============================================================================
