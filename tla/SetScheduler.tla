---------------------------- MODULE SetScheduler ----------------------------
(***************************************************************************)
(* lwp_set_scheduler of src/asn2/lwp.c: changing the scheduler while       *)
(* threads are ready.  There are two schedulers, the repository's          *)
(* RoundRobin and one supplied by a program ("user", a queue: module       *)
(* FifoScheduler); the argument may also be NULL, which asks for           *)
(* RoundRobin.  Between two changes the current scheduler admits threads,  *)
(* gives turns and removes threads, as the rest of lwp.c makes it do: at   *)
(* any moment, so RoundRobin may cut threads off (see CutOff) that its     *)
(* callers still take for admitted.                                        *)
(*                                                                         *)
(* Two variables are history: admitted is what the callers of the          *)
(* scheduler know, and strayed ends the model when one of them removes a   *)
(* thread that is no longer on the ring, after which the links need not    *)
(* lead back to the head (rr_qlen's loop need not end).                    *)
(***************************************************************************)
EXTENDS RoundRobin, FifoScheduler

CONSTANTS
    Arguments       \* what the program passes: a subset of {"rr", "user", "NULL"}

ASSUME SetSchedulerAssumption == Arguments \subseteq {"rr", "user", "NULL"}

VARIABLES
    which,          \* current_scheduler: "NULL", "rr" or "user"
    ring,           \* the state of RoundRobin
    queue,          \* the state of the program's scheduler
    current_thread, \* the last one to be given a turn
    admitted,       \* history: the threads admitted and not yet removed
    strayed         \* history: a thread was removed that is not on the ring

changeVars == <<which, ring, queue, current_thread, admitted, strayed>>

\* The threads of the current scheduler, in the order of their turns.
ReadyNow ==
    CASE which = "rr"   -> rr_turns(ring)
      [] which = "user" -> queue
      [] which = "NULL" -> <<>>

ChangeInit ==
    /\ which = "NULL"
    /\ ring = rr_init
    /\ queue = fifo_init
    /\ current_thread = NULL
    /\ admitted = {}
    /\ strayed = FALSE

\* lwp_create, lwp_start, and lwp_exit for a waiter; RoundRobin by default.
admit(t) ==
    /\ t \notin admitted
    /\ admitted' = admitted \cup {t}
    /\ UNCHANGED <<current_thread, strayed>>
    /\ IF which = "user"
       THEN /\ queue' = fifo_admit(queue, t)
            /\ UNCHANGED <<which, ring>>
       ELSE /\ ring' = rr_admit(ring, t)
            /\ which' = "rr"
            /\ UNCHANGED queue

next ==
    /\ ReadyNow # <<>>
    /\ current_thread' = Head(ReadyNow)
    /\ ring' = IF which = "rr" THEN rr_advance(ring) ELSE ring
    /\ queue' = IF which = "user" THEN fifo_advance(queue) ELSE queue
    /\ UNCHANGED <<which, admitted, strayed>>

\* lwp_exit and lwp_wait: it is the running thread that is removed, whether or
\* not the scheduler still has it.
remove ==
    /\ current_thread \in admitted
    /\ admitted' = admitted \ {current_thread}
    /\ current_thread' = NULL
    /\ ring' = IF which = "rr" THEN rr_remove(ring, current_thread) ELSE ring
    /\ queue' = IF which = "user" THEN fifo_remove(queue, current_thread) ELSE queue
    /\ strayed' = /\ which = "rr" /\ ring.head # NULL
                  /\ current_thread \notin Range(ReadyNow)
    /\ UNCHANGED which

\* Mutant: the loop removes the thread after the one it moves.
MoveOneSkipping(old, s) ==
    IF old = "rr"
    THEN IF rr_next(s.ring) = NULL THEN s
         ELSE [ring |-> rr_remove(s.ring, rr_next(rr_advance(s.ring))),
               queue |-> fifo_admit(s.queue, rr_next(s.ring))]
    ELSE IF s.queue = <<>> THEN s
         ELSE [ring |-> rr_admit(s.ring, Head(s.queue)),
               queue |-> fifo_remove(fifo_advance(s.queue), Head(s.queue))]

\* One round of the loop that moves the threads: next, remove, admit.
MoveOne(old, s) ==
    IF old = "rr"
    THEN IF rr_next(s.ring) = NULL THEN s
         ELSE [ring |-> rr_remove(rr_advance(s.ring), rr_next(s.ring)),
               queue |-> fifo_admit(s.queue, rr_next(s.ring))]
    ELSE IF s.queue = <<>> THEN s
         ELSE [ring |-> rr_admit(s.ring, Head(s.queue)),
               queue |-> fifo_remove(fifo_advance(s.queue), Head(s.queue))]

\* The loop ends when the old scheduler's next returns NULL: after as many
\* rounds as it has threads.
MoveAll(old, s) ==
    LET after[n \in 0 .. Cardinality(Thread)] ==
            IF n = 0 THEN s ELSE MoveOne(old, after[n - 1])
    IN  after[Cardinality(Thread)]

Emptied(r) == [r EXCEPT !.head = NULL, !.tail = NULL]

lwp_set_scheduler(fun) ==
    LET new == IF fun = "NULL" THEN "rr" ELSE fun
        start == [ring  |-> IF new = "rr" THEN Emptied(ring) ELSE ring,
                  queue |-> IF new = "user" THEN fifo_init ELSE queue]
        moved == IF which = "NULL" THEN start ELSE MoveAll(which, start)
    IN  /\ fun # which
        /\ UNCHANGED <<current_thread, admitted, strayed>>
        /\ which' = new
        /\ ring' = IF which = "rr" THEN Emptied(moved.ring) ELSE moved.ring
        /\ queue' = IF which = "user" THEN fifo_init ELSE moved.queue

Stopped == strayed /\ UNCHANGED changeVars

ChangeNext ==
    \/ /\ ~strayed
       /\ \/ \E t \in Thread : admit(t)
          \/ next \/ remove
          \/ \E fun \in Arguments : lwp_set_scheduler(fun)
    \/ Stopped

ChangeSpec == ChangeInit /\ [][ChangeNext]_changeVars

-----------------------------------------------------------------------------
(* Properties.  A scheduler promises one queue (module ReadyQueue).  This  *)
(* is what lwp.c and scheduler.c keep of the promise.                      *)

Promise == INSTANCE ReadyQueue WITH turns <- ReadyNow

\* rr_admit links the new thread behind the tail, which rr_next has left
\* behind: the threads between the tail and the head drop out.
CutOff(t) ==
    /\ which = "rr" /\ t \notin Range(ReadyNow)
    /\ \E i \in DOMAIN ReadyNow :
        /\ ReadyNow[i] = ring.tail
        /\ ReadyNow' = Append(SubSeq(ReadyNow, 1, i), t)

\* lwp_set_scheduler(NULL) initialises the RoundRobin that is in use.
Forgotten == which = "rr" /\ lwp_set_scheduler("NULL") /\ ReadyNow' = <<>>

\* Whatever scheduler is in use, and whenever it is changed ("move threads to
\* new scheduler"), turns are given in the order of admission and threads are
\* lost in two ways only: a late admission cuts off just those between the
\* tail and the head, and NULL passed for the RoundRobin in use loses all.
\* Nothing is claimed once a thread that was cut off has itself been removed.
OneQueue ==
    /\ Promise!Init
    /\ [][\/ strayed'
          \/ [Promise!Next]_ReadyNow
          \/ \E t \in Thread : CutOff(t)
          \/ Forgotten]_changeVars

\* Until a thread that was cut off is removed, each link of a ready thread has
\* its counterpart, the tail is on the ring, and nobody who was removed gets
\* another turn.
Linked ==
    ~strayed => /\ which = "rr" => WellLinked(ring)
                /\ Range(ReadyNow) \subseteq admitted
=============================================================================
