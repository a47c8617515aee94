------------------------------ MODULE RunQueues ------------------------------
(***************************************************************************)
(* What the kernel's scheduling promises: one queue of ready processes for *)
(* each priority.  A process joins at the end of a queue and keeps its     *)
(* place until it leaves; only a process that does not run can be moved,   *)
(* one at a time, to the end of a queue.  Whoever is chosen to run is the  *)
(* first of the first queue that is not empty.                             *)
(***************************************************************************)
EXTENDS Integers, SequencesExt

CONSTANTS Proc, IDLE, Priority

VARIABLES queue, running

vars == <<queue, running>>

Ready(Q) == UNION {ToSet(Q[i]) : i \in Priority}

First(Q) ==
    LET busy == {i \in Priority : Q[i] # << >>}
    IN  IF busy = {} THEN IDLE ELSE Head(Q[Min(busy)])

Init ==
    /\ \A i \in Priority : queue[i] \in Seq(Proc)
    /\ running = IDLE

Next ==
    /\ \E out \in SUBSET Ready(queue) :
        /\ \A i \in Priority : IsPrefix(SelectSeq(queue[i], LAMBDA p : p \notin out), queue'[i])
        /\ \E moved \in Proc : out \cap Ready(queue') \subseteq {moved} \ {running}
    /\ running' \in {running, First(queue')}

Spec == Init /\ [][Next]_vars
=============================================================================
