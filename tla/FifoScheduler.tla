---------------------------- MODULE FifoScheduler ----------------------------
(***************************************************************************)
(* What lwp.h asks of a scheduler, as a queue: "add a thread to the pool", *)
(* "remove a thread from the pool", "select a thread to schedule", "number *)
(* of ready threads".  lwp.c takes any scheduler of this interface.        *)
(***************************************************************************)
EXTENDS Sequences, SequencesExt

fifo_init == <<>>
fifo_admit(q, new) == Append(q, new)
fifo_remove(q, victim) == RemoveFirst(q, victim)
fifo_next(q, none) == IF q = <<>> THEN none ELSE Head(q)
fifo_advance(q) == IF q = <<>> THEN q ELSE Append(Tail(q), Head(q))
fifo_qlen(q) == Len(q)
fifo_turns(q) == q
=============================================================================
