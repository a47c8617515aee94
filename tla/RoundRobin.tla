----------------------------- MODULE RoundRobin -----------------------------
(***************************************************************************)
(* src/asn2/scheduler.c: the ready threads of the LWP library on a         *)
(* circular list through the sched_one (previous) and sched_two (next)     *)
(* fields of the threads, with a head and a tail.  A ring is a record of   *)
(* the two static pointers and the two fields of every thread; an          *)
(* operation of the scheduler is an operator from rings to rings.          *)
(***************************************************************************)
EXTENDS Threads, Naturals, FiniteSets

ASSUME RoundRobinAssumption == IsFiniteSet(Thread) /\ NULL \notin Thread

\* No thread has been admitted yet: head and tail as rr_init sets them.
rr_init == [head |-> NULL, tail |-> NULL,
            one |-> [t \in Thread |-> NULL], two |-> [t \in Thread |-> NULL]]

rr_admit(r, new) ==
    IF r.head = NULL
    THEN [head |-> new, tail |-> new,
          one |-> [r.one EXCEPT ![new] = new],
          two |-> [r.two EXCEPT ![new] = new]]
    ELSE [head |-> r.head, tail |-> new,
          one |-> [r.one EXCEPT ![new] = r.tail, ![r.head] = new],
          two |-> [r.two EXCEPT ![new] = r.head, ![r.tail] = new]]

\* Mutant: the tail may stay on the thread that leaves.
rr_removeKeepsTail(r, victim) ==
    LET prev == r.one[victim]
        next == r.two[victim]
    IN  IF r.head = NULL THEN r
        ELSE IF victim = r.head /\ victim = r.tail
        THEN [r EXCEPT !.head = NULL, !.tail = NULL]
        ELSE [head |-> IF victim = r.head THEN next ELSE r.head,
              tail |-> r.tail,
              one |-> [r.one EXCEPT ![next] = prev],
              two |-> [r.two EXCEPT ![prev] = next]]

rr_remove(r, victim) ==
    LET prev == r.one[victim]
        next == r.two[victim]
    IN  IF r.head = NULL THEN r
        ELSE IF victim = r.head /\ victim = r.tail
        THEN [r EXCEPT !.head = NULL, !.tail = NULL]
        ELSE [head |-> IF victim = r.head THEN next ELSE r.head,
              tail |-> IF victim = r.tail THEN prev ELSE r.tail,
              one |-> [r.one EXCEPT ![next] = prev],
              two |-> [r.two EXCEPT ![prev] = next]]

\* rr_next gives the head and moves on; the tail stays where it is.
rr_next(r) == r.head

rr_advance(r) == IF r.head = NULL THEN r ELSE [r EXCEPT !.head = r.two[r.head]]

\* The threads met from the head along sched_two, in order.
Walk(r) ==
    LET at[i \in 0 .. Cardinality(Thread)] == IF i = 0 THEN r.head ELSE r.two[at[i - 1]]
    IN  [i \in 1 .. Cardinality(Thread) |-> at[i - 1]]

\* The loop of rr_qlen stops when it meets the head again.
Stops(r, n) == r.two[Walk(r)[n]] = r.head
rr_qlen(r) ==
    IF r.head = NULL THEN 0
    ELSE CHOOSE n \in 1 .. Cardinality(Thread) :
            Stops(r, n) /\ \A m \in 1 .. n - 1 : ~Stops(r, m)

\* The ready threads in the order rr_next will give them.
rr_turns(r) == [i \in 1 .. rr_qlen(r) |-> Walk(r)[i]]

\* Every link of the ring has its counterpart, and the tail is on the ring.
WellLinked(r) ==
    r.head # NULL =>
        LET ready == {rr_turns(r)[i] : i \in 1 .. rr_qlen(r)}
        IN  /\ r.tail \in ready
            /\ \A t \in ready : r.one[r.two[t]] = t /\ r.two[r.one[t]] = t
=============================================================================
