-------------------------------- MODULE Dine --------------------------------
(***************************************************************************)
(* The dining philosophers of src/asn3/dine.c: one POSIX thread for each   *)
(* philosopher, one semaphore for each fork, and a status display (the     *)
(* left_fork, right_fork and state fields of struct philosopher) that      *)
(* every thread rewrites under update_phil_lock.                           *)
(*                                                                         *)
(* Both branches of dine() have one shape: take one fork, take the other,  *)
(* eat, give the forks back in the order they were taken.  What differs is *)
(* which fork comes first (First) and what the display is told (Shown).    *)
(* dawdle() only lets time pass, so it is part of the step it follows.     *)
(***************************************************************************)
EXTENDS Naturals

CONSTANTS
    N,              \* NUM_PHILOSOPHERS
    Cycles,         \* eat-think cycles, the program's argument
    MayInterrupt    \* the threads whose sem_wait may return -1

ASSUME DineAssumption ==
    /\ N \in Nat \ {0}
    /\ Cycles \in Nat
    /\ MayInterrupt \subseteq 0 .. N - 1

Phil == 0 .. N - 1

VARIABLES
    forks,          \* value of the semaphore of every fork
    updateLock,     \* value of the semaphore update_phil_lock
    phase,          \* how far a thread is inside update_philosopher
    pc,             \* the statement of dine() a thread is about to run
    cycle,          \* the loop counter i of dine()
    state,          \* philosophers[p]->state
    leftFork,       \* philosophers[p]->left_fork
    rightFork       \* philosophers[p]->right_fork

display == <<state, leftFork, rightFork>>
vars == <<forks, updateLock, phase, pc, cycle, display>>

-----------------------------------------------------------------------------
(* The table: fork p lies to the left of philosopher p.                    *)

Left(p)  == p
Right(p) == (p + 1) % N
LeftNeighbour(p)  == (p + N - 1) % N
RightNeighbour(p) == (p + 1) % N

\* Mutant: every philosopher takes the same side first.
EvenAll(p) == TRUE

Even(p) == p % 2 = 0

First(p)  == IF Even(p) THEN Right(p) ELSE Left(p)
Second(p) == IF Even(p) THEN Left(p) ELSE Right(p)

-----------------------------------------------------------------------------
(* The calls of update_philosopher in one cycle, in program order, and     *)
(* what follows each of them.                                              *)

Updates == {"decide", "showOne", "showBoth", "eat", "putDown", "showDrop",
            "showNone", "think"}

\* What a call hands over: the state and the two fork flags.
Shown(p, u) ==
    CASE u = "decide"   -> [state |-> "Change", left |-> 0, right |-> 0]
      [] u = "showOne"  -> [state |-> "Change",
                            left  |-> IF Even(p) THEN 0 ELSE 1,
                            right |-> IF Even(p) THEN 1 ELSE 0]
      [] u = "showBoth" -> [state |-> "Change", left |-> 1, right |-> 1]
      [] u = "eat"      -> [state |-> "Eat",    left |-> 1, right |-> 1]
      [] u = "putDown"  -> [state |-> "Change", left |-> 1, right |-> 1]
      [] u = "showDrop" -> [state |-> "Change", left |-> 0, right |-> 1]
      [] u = "showNone" -> [state |-> "Change", left |-> 0, right |-> 0]
      [] u = "think"    -> [state |-> "Think",  left |-> 0, right |-> 0]

\* Mutant: the forks go back while the display still says "Eat".
AfterEatPosts(u) ==
    CASE u = "decide"   -> "waitFirst"
      [] u = "showOne"  -> "waitSecond"
      [] u = "showBoth" -> "eat"
      [] u = "eat"      -> "postFirst"
      [] u = "putDown"  -> "postFirst"
      [] u = "showDrop" -> "postSecond"
      [] u = "showNone" -> "think"
      [] u = "think"    -> "loop"

After(u) ==
    CASE u = "decide"   -> "waitFirst"
      [] u = "showOne"  -> "waitSecond"
      [] u = "showBoth" -> "eat"
      [] u = "eat"      -> "putDown"
      [] u = "putDown"  -> "postFirst"
      [] u = "showDrop" -> "postSecond"
      [] u = "showNone" -> "think"
      [] u = "think"    -> "loop"

Init ==
    /\ forks = [f \in Phil |-> 1]
    /\ updateLock = 1
    /\ phase = [p \in Phil |-> "out"]
    /\ pc = [p \in Phil |-> "loop"]
    /\ cycle = [p \in Phil |-> 0]
    /\ state = [p \in Phil |-> "Change"]
    /\ leftFork = [p \in Phil |-> 0]
    /\ rightFork = [p \in Phil |-> 0]

\* for (i = 0; i < cycles; i++); return NULL.
Loop(p) ==
    /\ pc[p] = "loop"
    /\ IF cycle[p] < Cycles
       THEN /\ pc' = [pc EXCEPT ![p] = "decide"]
            /\ cycle' = [cycle EXCEPT ![p] = @ + 1]
       ELSE /\ pc' = [pc EXCEPT ![p] = "returned"]
            /\ UNCHANGED cycle
    /\ UNCHANGED <<forks, updateLock, phase, display>>

\* update_philosopher: enter, put the neighbours' flags and states back,
\* write one's own, print the line and leave.  Only these three steps touch
\* the display, so print_status adds nothing to the last of them.
LockUpdate(p) ==
    /\ pc[p] \in Updates
    /\ phase[p] = "out"
    /\ updateLock > 0
    /\ updateLock' = updateLock - 1
    /\ phase' = [phase EXCEPT ![p] = "clear"]
    /\ UNCHANGED <<forks, pc, cycle, display>>

\* Mutant: the right flag of the left neighbour is left as it is.
ClearRightOnly(p) ==
    LET cleared == {q \in Phil : Shown(p, pc[p]).right = 1 /\ q = RightNeighbour(p)}
    IN  /\ phase[p] = "clear"
        /\ state' = [q \in Phil |-> IF q \in cleared THEN "Change" ELSE state[q]]
        /\ leftFork' = [q \in Phil |-> IF q \in cleared THEN 0 ELSE leftFork[q]]
        /\ phase' = [phase EXCEPT ![p] = "own"]
        /\ UNCHANGED <<forks, updateLock, pc, cycle, rightFork>>

ClearNeighbours(p) ==
    LET raisesLeft  == Shown(p, pc[p]).left = 1
        raisesRight == Shown(p, pc[p]).right = 1
        cleared == {q \in Phil : \/ raisesLeft /\ q = LeftNeighbour(p)
                                 \/ raisesRight /\ q = RightNeighbour(p)}
    IN  /\ phase[p] = "clear"
        /\ state' = [q \in Phil |-> IF q \in cleared THEN "Change" ELSE state[q]]
        /\ rightFork' = IF raisesLeft
                        THEN [rightFork EXCEPT ![LeftNeighbour(p)] = 0]
                        ELSE rightFork
        /\ leftFork' = IF raisesRight
                       THEN [leftFork EXCEPT ![RightNeighbour(p)] = 0]
                       ELSE leftFork
        /\ phase' = [phase EXCEPT ![p] = "own"]
        /\ UNCHANGED <<forks, updateLock, pc, cycle>>

ShowOwn(p) ==
    LET shown == Shown(p, pc[p])
    IN  /\ phase[p] = "own"
        /\ state' = [state EXCEPT ![p] = shown.state]
        /\ leftFork' = [leftFork EXCEPT ![p] = shown.left]
        /\ rightFork' = [rightFork EXCEPT ![p] = shown.right]
        /\ updateLock' = updateLock + 1
        /\ phase' = [phase EXCEPT ![p] = "out"]
        /\ pc' = [pc EXCEPT ![p] = After(@)]
        /\ UNCHANGED <<forks, cycle>>

\* Mutant: a fork is taken without looking whether it is there.
TakeBlindly(p, at, fork, then) ==
    /\ pc[p] = at
    /\ forks' = [forks EXCEPT ![fork] = @ - 1]
    /\ pc' = [pc EXCEPT ![p] = then]
    /\ UNCHANGED <<updateLock, phase, cycle, display>>

\* sem_wait returns 0 only when the semaphore is positive.
Take(p, at, fork, then) ==
    /\ pc[p] = at
    /\ forks[fork] > 0
    /\ forks' = [forks EXCEPT ![fork] = @ - 1]
    /\ pc' = [pc EXCEPT ![p] = then]
    /\ UNCHANGED <<updateLock, phase, cycle, display>>

TakeFirst(p)  == Take(p, "waitFirst", First(p), "showOne")
TakeSecond(p) == Take(p, "waitSecond", Second(p), "showBoth")

\* sem_wait on a fork returns -1: the thread returns, with what it holds.
WaitFails(p) ==
    /\ p \in MayInterrupt
    /\ \/ /\ pc[p] = "waitFirst"
          /\ pc' = [pc EXCEPT ![p] = "returned"]
       \/ /\ pc[p] = "waitSecond"
          /\ pc' = [pc EXCEPT ![p] = "returnedHolding"]
    /\ UNCHANGED <<forks, updateLock, phase, cycle, display>>

\* sem_wait on update_phil_lock returns -1: nobody looks at the result.
LockFails(p) ==
    /\ p \in MayInterrupt
    /\ pc[p] \in Updates
    /\ phase[p] = "out"
    /\ phase' = [phase EXCEPT ![p] = "clear"]
    /\ UNCHANGED <<forks, updateLock, pc, cycle, display>>

Give(p, at, fork, then) ==
    /\ pc[p] = at
    /\ forks' = [forks EXCEPT ![fork] = @ + 1]
    /\ pc' = [pc EXCEPT ![p] = then]
    /\ UNCHANGED <<updateLock, phase, cycle, display>>

GiveFirst(p)  == Give(p, "postFirst", First(p), "showDrop")
GiveSecond(p) == Give(p, "postSecond", Second(p), "showNone")

Step(p) ==
    \/ Loop(p)
    \/ LockUpdate(p) \/ ClearNeighbours(p) \/ ShowOwn(p)
    \/ TakeFirst(p) \/ TakeSecond(p)
    \/ GiveFirst(p) \/ GiveSecond(p)

Returned(p) == pc[p] \in {"returned", "returnedHolding"}

\* main() joins every thread and the process ends.
AllJoined ==
    /\ \A p \in Phil : Returned(p)
    /\ UNCHANGED vars

Next == (\E p \in Phil : Step(p) \/ WaitFails(p) \/ LockFails(p)) \/ AllJoined

\* A thread that can run is eventually run; a semaphore hands a fork to any
\* one of the threads waiting for it, so nothing stronger is assumed.
Fairness == \A p \in Phil : WF_vars(Step(p))

Spec == Init /\ [][Next]_vars
FairSpec == Spec /\ Fairness

-----------------------------------------------------------------------------
(* Properties.                                                             *)

Statements == Updates \cup {"loop", "waitFirst", "waitSecond", "postFirst",
                            "postSecond", "returned", "returnedHolding"}

TypeOK ==
    /\ forks \in [Phil -> Nat]
    /\ updateLock \in Nat
    /\ phase \in [Phil -> {"out", "clear", "own"}]
    /\ pc \in [Phil -> Statements]
    /\ cycle \in [Phil -> 0 .. Cycles]
    /\ state \in [Phil -> {"Change", "Eat", "Think"}]
    /\ leftFork \in [Phil -> {0, 1}]
    /\ rightFork \in [Phil -> {0, 1}]

\* The forks a thread has taken and not given back.
HoldsBoth(p) == pc[p] \in {"showBoth", "eat", "putDown", "postFirst"}
HoldsFirst(p) == HoldsBoth(p) \/ pc[p] \in {"showOne", "waitSecond", "returnedHolding"}
HoldsSecond(p) == HoldsBoth(p) \/ pc[p] \in {"showDrop", "postSecond"}
Holds(p, f) == (HoldsFirst(p) /\ f = First(p)) \/ (HoldsSecond(p) /\ f = Second(p))

\* No fork is in two hands, and a fork that is in a hand is not on the table:
\* whatever the order of sem_wait and sem_post, and when waits fail too.
ForkExclusion ==
    /\ \A p, q \in Phil, f \in Phil : Holds(p, f) /\ Holds(q, f) => p = q
    /\ \A f \in Phil : forks[f] + (IF \E p \in Phil : Holds(p, f) THEN 1 ELSE 0) = 1

\* Two neighbours are never between their second sem_wait and their first
\* sem_post together.
NeighboursDontEat ==
    \A p \in Phil : p # Right(p) => ~(HoldsBoth(p) /\ HoldsBoth(Right(p)))

\* The next statement of a thread, its loop head included, does not block.
CanGoOn(p) ==
    \/ pc[p] \in {"loop", "postFirst", "postSecond"}
    \/ pc[p] \in Updates /\ (phase[p] # "out" \/ updateLock > 0)
    \/ pc[p] = "waitFirst" /\ forks[First(p)] > 0
    \/ pc[p] = "waitSecond" /\ forks[Second(p)] > 0

\* No thread has returned with a fork in its hand.
NoneLeftHolding == \A p \in Phil : pc[p] # "returnedHolding"

\* The asymmetry of the even and the odd branch: until a thread takes a fork
\* with it, some thread can go on until all have returned.
SomeoneCanStep ==
    NoneLeftHolding => \/ \A p \in Phil : Returned(p)
                       \/ \E p \in Phil : CanGoOn(p)

\* A philosopher that a printed line calls eating holds both its forks, though
\* the line is printed by another thread at another time.
EatShownHoldsForks == \A p \in Phil : state[p] = "Eat" => HoldsBoth(p)

\* update_phil_lock is intact: one thread inside at most, and the semaphore
\* tells whether there is one.  After one failed wait this never holds again.
Inside(p) == phase[p] # "out"
LockHeldOnce ==
    \/ updateLock = 1 /\ \A p \in Phil : ~Inside(p)
    \/ updateLock = 0 /\ \E p \in Phil : \A q \in Phil : Inside(q) <=> q = p

\* No printed line shows one fork at two philosophers: what the clearing of
\* the neighbours' flags under update_phil_lock is for.
ShownOnce ==
    LockHeldOnce =>
        \A p \in Phil : p # Right(p) => ~(rightFork[p] = 1 /\ leftFork[Right(p)] = 1)

\* Unless a thread takes a fork with it, every thread returns, main's joins
\* with them, and all forks are back on the table.
Termination ==
    <>(\/ ~NoneLeftHolding
       \/ /\ \A p \in Phil : pc[p] = "returned"
          /\ \A f \in Phil : forks[f] = 1)
=============================================================================
