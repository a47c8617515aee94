------------------------------ MODULE DineProofs ------------------------------
(***************************************************************************)
(* What Dine's runs show at small tables, proved for every table size and  *)
(* every number of cycles.                                                 *)
(***************************************************************************)
EXTENDS Dine, TLAPS

\* The seats of the table, without the remainder operator.
LEMMA Seats ==
    ASSUME NEW p \in Phil
    PROVE  /\ Right(p) = IF p = N - 1 THEN 0 ELSE p + 1
           /\ Right(p) \in Phil
           /\ LeftNeighbour(p) = IF p = 0 THEN N - 1 ELSE p - 1
           /\ LeftNeighbour(p) \in Phil
           /\ RightNeighbour(p) = Right(p)
<1>1. p \in Nat /\ p < N /\ N \in Nat \ {0}
  BY DineAssumption DEF Phil
<1>2. (p + 1) % N = IF p = N - 1 THEN 0 ELSE p + 1
  BY <1>1, SMTT(30)
<1>3. (p + N - 1) % N = IF p = 0 THEN N - 1 ELSE p - 1
  BY <1>1, SMTT(30)
<1> QED
  BY <1>1, <1>2, <1>3 DEF Phil, Right, LeftNeighbour, RightNeighbour

LEMMA Opposite ==
    ASSUME NEW p \in Phil, NEW q \in Phil, Right(q) = p
    PROVE  LeftNeighbour(p) = q
<1>1. Right(q) = IF q = N - 1 THEN 0 ELSE q + 1
  BY Seats
<1>2. LeftNeighbour(p) = IF p = 0 THEN N - 1 ELSE p - 1
  BY Seats
<1> QED
  BY <1>1, <1>2, DineAssumption DEF Phil

LEMMA Forks == \A p \in Phil : First(p) \in Phil /\ Second(p) \in Phil
BY Seats DEF First, Second, Left

-----------------------------------------------------------------------------
(* Types, and where inside update_philosopher a thread can be.             *)

Typed ==
    /\ TypeOK
    /\ \A p \in Phil : phase[p] # "out" => pc[p] \in Updates

\* An action of one philosopher, whatever else it may be.
LEMMA StepCases ==
    ASSUME [Next]_vars
    PROVE  \/ UNCHANGED vars
           \/ \E p \in Phil : Step(p) \/ WaitFails(p) \/ LockFails(p)
BY DEF Next, AllJoined

LEMMA TypedInvariant == Spec => []Typed
<1>1. Init => Typed
  BY DineAssumption DEF Init, Typed, TypeOK, Statements
<1>2. Typed /\ [Next]_vars => Typed'
  <2> SUFFICES ASSUME Typed, [Next]_vars PROVE Typed'
    OBVIOUS
  <2> USE DEF Typed, TypeOK
  <2>1. CASE UNCHANGED vars
    BY <2>1 DEF vars, display
  <2>2. ASSUME NEW p \in Phil, Loop(p) PROVE Typed'
    BY <2>2, DineAssumption DEF Loop, display, Statements, Updates
  <2>3. ASSUME NEW p \in Phil, LockUpdate(p) PROVE Typed'
    BY <2>3 DEF LockUpdate, display
  <2>4. ASSUME NEW p \in Phil, ClearNeighbours(p) PROVE Typed'
    BY <2>4 DEF ClearNeighbours
  <2>5. ASSUME NEW p \in Phil, ShowOwn(p) PROVE Typed'
    <3>1. pc[p] \in Updates
      BY <2>5 DEF ShowOwn
    <3>2. After(pc[p]) \in Statements
      BY <3>1 DEF After, Statements, Updates
    <3>3. /\ Shown(p, pc[p]).state \in {"Change", "Eat", "Think"}
          /\ Shown(p, pc[p]).left \in {0, 1}
          /\ Shown(p, pc[p]).right \in {0, 1}
      BY <3>1 DEF Shown, Updates
    <3> QED
      BY <2>5, <3>2, <3>3 DEF ShowOwn
  <2>6. ASSUME NEW p \in Phil, TakeFirst(p) \/ TakeSecond(p) PROVE Typed'
    BY <2>6, Forks DEF TakeFirst, TakeSecond, Take, display, Statements, Updates
  <2>7. ASSUME NEW p \in Phil, GiveFirst(p) \/ GiveSecond(p) PROVE Typed'
    BY <2>7, Forks DEF GiveFirst, GiveSecond, Give, display, Statements, Updates
  <2>8. ASSUME NEW p \in Phil, WaitFails(p) PROVE Typed'
    BY <2>8 DEF WaitFails, display, Statements, Updates
  <2>9. ASSUME NEW p \in Phil, LockFails(p) PROVE Typed'
    BY <2>9 DEF LockFails, display
  <2> QED
    BY StepCases, <2>1, <2>2, <2>3, <2>4, <2>5, <2>6, <2>7, <2>8, <2>9 DEF Step
<1> QED
  BY <1>1, <1>2, PTL DEF Spec

\* TypeOK of Dine holds at every table size: every variable keeps its type
\* under every statement of dine() and update_philosopher().
THEOREM TypeCorrect == Spec => []TypeOK
BY TypedInvariant, PTL DEF Typed

-----------------------------------------------------------------------------
(* Fork exclusion.  ForkExclusion counts with an existential; the prover   *)
(* works with its three plain consequences, which are inductive: a taken   *)
(* fork's semaphore is 0, so the next sem_wait on it cannot return.        *)

Exclusive ==
    /\ \A p, q \in Phil, f \in Phil : Holds(p, f) /\ Holds(q, f) => p = q
    /\ \A p \in Phil, f \in Phil : Holds(p, f) => forks[f] = 0
    /\ \A f \in Phil : forks[f] = 1 \/ (forks[f] = 0 /\ \E p \in Phil : Holds(p, f))

\* A thread at a table of one, where both forks are the same, never gets past
\* its second sem_wait.
TwoForks == \A p \in Phil : HoldsSecond(p) => First(p) # Second(p)

\* A step that leaves the forks alone and every thread's holdings with it.
LEMMA NothingMoves ==
    ASSUME Exclusive, TwoForks, UNCHANGED forks,
           \A p \in Phil : /\ HoldsFirst(p)' = HoldsFirst(p)
                           /\ HoldsSecond(p)' = HoldsSecond(p)
    PROVE  (Exclusive /\ TwoForks)'
<1>1. \A p, f \in Phil : Holds(p, f)' = Holds(p, f)
  BY DEF Holds, First, Second, Left, Right
<1> QED
  BY <1>1 DEF Exclusive, TwoForks, First, Second, Left, Right

LEMMA Exclusion == Spec => [](Exclusive /\ TwoForks)
<1>1. Init => Exclusive /\ TwoForks
  BY DEF Init, Exclusive, TwoForks, Holds, HoldsFirst, HoldsSecond, HoldsBoth
<1>2. Typed /\ Exclusive /\ TwoForks /\ [Next]_vars => (Exclusive /\ TwoForks)'
  <2> SUFFICES ASSUME Typed, Exclusive, TwoForks, [Next]_vars
               PROVE  (Exclusive /\ TwoForks)'
    OBVIOUS
  <2> USE DEF HoldsBoth, HoldsFirst, HoldsSecond, Typed, TypeOK
  <2>1. CASE UNCHANGED vars
    BY <2>1, NothingMoves DEF vars
  <2>2. ASSUME NEW p \in Phil, Loop(p) PROVE (Exclusive /\ TwoForks)'
    <3>1. /\ UNCHANGED forks
          /\ \A q \in Phil : q # p => pc'[q] = pc[q]
          /\ pc[p] = "loop"
          /\ pc'[p] \in {"decide", "returned"}
      BY <2>2 DEF Loop
    <3> QED
      BY <3>1, NothingMoves
  <2>3. ASSUME NEW p \in Phil, LockUpdate(p) \/ ClearNeighbours(p) \/ LockFails(p)
        PROVE  (Exclusive /\ TwoForks)'
    <3>1. UNCHANGED <<forks, pc>>
      BY <2>3 DEF LockUpdate, ClearNeighbours, LockFails
    <3> QED
      BY <3>1, NothingMoves
  <2>4. ASSUME NEW p \in Phil, ShowOwn(p) PROVE (Exclusive /\ TwoForks)'
    <3>1. /\ UNCHANGED forks
          /\ pc[p] \in Updates
          /\ pc' = [pc EXCEPT ![p] = After(pc[p])]
      BY <2>4 DEF ShowOwn
    <3>2. \A q \in Phil : HoldsFirst(q)' = HoldsFirst(q) /\ HoldsSecond(q)' = HoldsSecond(q)
      BY <3>1 DEF After, Updates
    <3> QED
      BY <3>1, <3>2, NothingMoves
  <2>5. ASSUME NEW p \in Phil, TakeFirst(p) PROVE (Exclusive /\ TwoForks)'
    <3>1. /\ pc[p] = "waitFirst"
          /\ forks[First(p)] > 0
          /\ forks' = [forks EXCEPT ![First(p)] = forks[First(p)] - 1]
          /\ pc' = [pc EXCEPT ![p] = "showOne"]
      BY <2>5 DEF TakeFirst, Take
    <3>2. \A q, f \in Phil : Holds(q, f)' <=> Holds(q, f) \/ (q = p /\ f = First(p))
      BY <3>1 DEF Holds, First, Second, Left, Right
    <3>3. forks[First(p)] = 1 /\ \A q \in Phil : ~Holds(q, First(p))
      BY <3>1, Forks DEF Exclusive
    <3>4. TwoForks'
      BY <3>1 DEF TwoForks, First, Second, Left, Right
    <3> QED
      BY <3>1, <3>2, <3>3, <3>4, Forks DEF Exclusive
  <2>6. ASSUME NEW p \in Phil, TakeSecond(p) PROVE (Exclusive /\ TwoForks)'
    <3>1. /\ pc[p] = "waitSecond"
          /\ forks[Second(p)] > 0
          /\ forks' = [forks EXCEPT ![Second(p)] = forks[Second(p)] - 1]
          /\ pc' = [pc EXCEPT ![p] = "showBoth"]
      BY <2>6 DEF TakeSecond, Take
    <3>2. \A q, f \in Phil : Holds(q, f)' <=> Holds(q, f) \/ (q = p /\ f = Second(p))
      BY <3>1 DEF Holds, First, Second, Left, Right
    <3>3. forks[Second(p)] = 1 /\ \A q \in Phil : ~Holds(q, Second(p))
      BY <3>1, Forks DEF Exclusive
    <3>4. First(p) # Second(p)
      BY <3>1, <3>3 DEF Holds
    <3>5. TwoForks'
      BY <3>1, <3>4 DEF TwoForks, First, Second, Left, Right
    <3> QED
      BY <3>1, <3>2, <3>3, <3>5, Forks DEF Exclusive
  <2>7. ASSUME NEW p \in Phil, GiveFirst(p) PROVE (Exclusive /\ TwoForks)'
    <3>1. /\ pc[p] = "postFirst"
          /\ forks' = [forks EXCEPT ![First(p)] = forks[First(p)] + 1]
          /\ pc' = [pc EXCEPT ![p] = "showDrop"]
      BY <2>7 DEF GiveFirst, Give
    <3>2. First(p) # Second(p)
      BY <3>1 DEF TwoForks
    <3>3. \A q, f \in Phil : Holds(q, f)' <=> Holds(q, f) /\ ~(q = p /\ f = First(p))
      BY <3>1, <3>2 DEF Holds, First, Second, Left, Right
    <3>4. Holds(p, First(p)) /\ forks[First(p)] = 0
      BY <3>1, Forks DEF Holds, Exclusive
    <3>5. TwoForks'
      BY <3>1 DEF TwoForks, First, Second, Left, Right
    <3> QED
      BY <3>1, <3>3, <3>4, <3>5, Forks DEF Exclusive
  <2>8. ASSUME NEW p \in Phil, GiveSecond(p) PROVE (Exclusive /\ TwoForks)'
    <3>1. /\ pc[p] = "postSecond"
          /\ forks' = [forks EXCEPT ![Second(p)] = forks[Second(p)] + 1]
          /\ pc' = [pc EXCEPT ![p] = "showNone"]
      BY <2>8 DEF GiveSecond, Give
    <3>2. \A q, f \in Phil : Holds(q, f)' <=> Holds(q, f) /\ ~(q = p /\ f = Second(p))
      BY <3>1 DEF Holds, First, Second, Left, Right
    <3>3. Holds(p, Second(p)) /\ forks[Second(p)] = 0
      BY <3>1, Forks DEF Holds, Exclusive
    <3>4. TwoForks'
      BY <3>1 DEF TwoForks, First, Second, Left, Right
    <3> QED
      BY <3>1, <3>2, <3>3, <3>4, Forks DEF Exclusive
  <2>9. ASSUME NEW p \in Phil, WaitFails(p) PROVE (Exclusive /\ TwoForks)'
    <3>1. /\ UNCHANGED forks
          /\ \A q \in Phil : HoldsFirst(q)' = HoldsFirst(q) /\ HoldsSecond(q)' = HoldsSecond(q)
      BY <2>9 DEF WaitFails
    <3> QED
      BY <3>1, NothingMoves
  <2> QED
    BY StepCases, <2>1, <2>2, <2>3, <2>4, <2>5, <2>6, <2>7, <2>8, <2>9 DEF Step
<1> QED
  BY <1>1, <1>2, TypedInvariant, PTL DEF Spec

\* dine() gives no fork to two threads, at any table, in any order of waits
\* and posts, with failing waits too; and no fork is lost while nobody holds it.
THEOREM ForksExclusive == Spec => []ForkExclusion
<1>1. Typed /\ Exclusive => ForkExclusion
  BY DEF Typed, TypeOK, Exclusive, ForkExclusion
<1> QED
  BY <1>1, TypedInvariant, Exclusion, PTL

\* Eating is exclusive between neighbours at every table.
THEOREM NeighboursExclusive == Spec => []NeighboursDontEat
<1>1. Exclusive => NeighboursDontEat
  <2> SUFFICES ASSUME Exclusive, NEW p \in Phil, p # Right(p),
                      HoldsBoth(p), HoldsBoth(Right(p))
               PROVE  FALSE
    BY DEF NeighboursDontEat
  <2>1. Right(p) \in Phil
    BY Seats
  <2>2. Holds(p, Right(p)) /\ Holds(Right(p), Right(p))
    BY <2>1 DEF Holds, HoldsFirst, HoldsSecond, First, Second, Left
  <2> QED
    BY <2>1, <2>2 DEF Exclusive
<1> QED
  BY <1>1, Exclusion, PTL

-----------------------------------------------------------------------------
(* The display.                                                            *)

\* "Eat" is shown from the moment the update with "Eat" is made to the next
\* update of the same philosopher, whoever else writes in between.
EatShownWhere == \A p \in Phil : state[p] = "Eat" => pc[p] = "putDown"

\* No line the program prints calls a philosopher eating that lacks a fork,
\* at any table, even when update_phil_lock is entered without being taken.
THEOREM EatShownIsTrue == Spec => []EatShownHoldsForks
<1>1. Init => EatShownWhere
  BY DEF Init, EatShownWhere
<1>2. Typed /\ EatShownWhere /\ [Next]_vars => EatShownWhere'
  <2> SUFFICES ASSUME Typed, EatShownWhere, [Next]_vars PROVE EatShownWhere'
    OBVIOUS
  <2> USE DEF EatShownWhere, Typed, TypeOK
  <2>1. CASE UNCHANGED vars
    BY <2>1 DEF vars, display
  <2>2. ASSUME NEW p \in Phil, ShowOwn(p) PROVE EatShownWhere'
    <3>1. pc[p] \in Updates
      BY <2>2 DEF ShowOwn
    <3>2. Shown(p, pc[p]).state = "Eat" => After(pc[p]) = "putDown"
      BY <3>1 DEF Shown, After, Updates
    <3> QED
      BY <2>2, <3>2 DEF ShowOwn
  <2>3. ASSUME NEW p \in Phil, ClearNeighbours(p) PROVE EatShownWhere'
    BY <2>3 DEF ClearNeighbours
  <2>4. ASSUME NEW p \in Phil, LockUpdate(p) \/ LockFails(p) PROVE EatShownWhere'
    BY <2>4 DEF LockUpdate, LockFails, display
  <2>5. ASSUME NEW p \in Phil,
               \/ Loop(p) \/ WaitFails(p)
               \/ TakeFirst(p) \/ TakeSecond(p) \/ GiveFirst(p) \/ GiveSecond(p)
        PROVE  EatShownWhere'
    <3>1. /\ UNCHANGED state
          /\ pc[p] # "putDown"
          /\ \A q \in Phil : q # p => pc'[q] = pc[q]
      BY <2>5 DEF Loop, WaitFails, TakeFirst, TakeSecond, Take,
                  GiveFirst, GiveSecond, Give, display
    <3> QED
      BY <3>1
  <2> QED
    BY StepCases, <2>1, <2>2, <2>3, <2>4, <2>5 DEF Step
<1>3. EatShownWhere => EatShownHoldsForks
  BY DEF EatShownWhere, EatShownHoldsForks, HoldsBoth
<1> QED
  BY <1>1, <1>2, <1>3, TypedInvariant, PTL DEF Spec

\* While no sem_wait fails, update_phil_lock stays intact.
LEMMA LockInvariant ==
    ASSUME MayInterrupt = {}
    PROVE  Spec => []LockHeldOnce
<1>1. Init => LockHeldOnce
  BY DEF Init, LockHeldOnce, Inside
<1>2. Typed /\ LockHeldOnce /\ [Next]_vars => LockHeldOnce'
  <2> SUFFICES ASSUME Typed, LockHeldOnce, [Next]_vars PROVE LockHeldOnce'
    OBVIOUS
  <2> USE DEF LockHeldOnce, Inside, Typed, TypeOK
  <2>1. ASSUME NEW p \in Phil, LockUpdate(p) PROVE LockHeldOnce'
    BY <2>1 DEF LockUpdate
  <2>2. ASSUME NEW p \in Phil, ClearNeighbours(p) PROVE LockHeldOnce'
    BY <2>2 DEF ClearNeighbours
  <2>3. ASSUME NEW p \in Phil, ShowOwn(p) PROVE LockHeldOnce'
    BY <2>3 DEF ShowOwn
  <2>4. CASE UNCHANGED <<updateLock, phase>>
    BY <2>4
  <2>5. ASSUME NEW p \in Phil,
               \/ Loop(p) \/ TakeFirst(p) \/ TakeSecond(p) \/ GiveFirst(p) \/ GiveSecond(p)
        PROVE  UNCHANGED <<updateLock, phase>>
    BY <2>5 DEF Loop, TakeFirst, TakeSecond, Take, GiveFirst, GiveSecond, Give
  <2> QED
    BY StepCases, <2>1, <2>2, <2>3, <2>4, <2>5
    DEF Step, WaitFails, LockFails, vars
<1> QED
  BY <1>1, <1>2, TypedInvariant, PTL DEF Spec

\* A thread that has cleared its neighbours and not yet written its own flags
\* is the only one inside, so what it cleared is still clear.
ClearedStay ==
    \A p \in Phil : phase[p] = "own" =>
        /\ Shown(p, pc[p]).left = 1 => rightFork[LeftNeighbour(p)] = 0
        /\ Shown(p, pc[p]).right = 1 => leftFork[RightNeighbour(p)] = 0

\* No printed line shows a fork twice, at any table, while no sem_wait fails.
THEOREM ForkShownOnce ==
    ASSUME MayInterrupt = {}
    PROVE  Spec => []ShownOnce
<1> DEFINE Inv == ShownOnce /\ ClearedStay
<1>1. Init => Inv
  BY DEF Init, ShownOnce, ClearedStay
<1>2. Typed /\ LockHeldOnce /\ Inv /\ [Next]_vars => Inv'
  <2> SUFFICES ASSUME Typed, LockHeldOnce, Inv, [Next]_vars PROVE Inv'
    OBVIOUS
  <2> USE DEF Typed, TypeOK
  <2>1. CASE UNCHANGED vars
    BY <2>1 DEF vars, display, ShownOnce, ClearedStay, Right, LeftNeighbour, RightNeighbour, Shown
  <2>2. ASSUME NEW p \in Phil,
               \/ Loop(p) \/ LockUpdate(p) \/ TakeFirst(p) \/ TakeSecond(p)
               \/ GiveFirst(p) \/ GiveSecond(p)
        PROVE  Inv'
    <3>1. /\ UNCHANGED display
          /\ \A q \in Phil : phase'[q] = "own" => phase[q] = "own" /\ pc'[q] = pc[q]
      BY <2>2 DEF Loop, LockUpdate, TakeFirst, TakeSecond, Take,
                  GiveFirst, GiveSecond, Give, Updates
    <3> QED
      BY <3>1 DEF display, ShownOnce, ClearedStay
  <2>3. ASSUME NEW p \in Phil, ClearNeighbours(p) PROVE Inv'
    <3>1. \A q \in Phil : phase[q] = "own" => FALSE
      BY <2>3 DEF ClearNeighbours, LockHeldOnce, Inside
    <3>2. ShownOnce'
      BY <2>3 DEF ClearNeighbours, ShownOnce
    <3>3. ClearedStay'
      BY <2>3, <3>1, Seats DEF ClearNeighbours, ClearedStay
    <3> QED
      BY <3>2, <3>3
  <2>4. ASSUME NEW p \in Phil, ShowOwn(p) PROVE Inv'
    <3>1. \A q \in Phil : phase'[q] = "out"
      BY <2>4 DEF ShowOwn, LockHeldOnce, Inside
    <3>2. /\ leftFork' = [leftFork EXCEPT ![p] = Shown(p, pc[p]).left]
          /\ rightFork' = [rightFork EXCEPT ![p] = Shown(p, pc[p]).right]
          /\ phase[p] = "own"
      BY <2>4 DEF ShowOwn
    <3>3. \A q \in Phil : Right(q) = p => LeftNeighbour(p) = q
      BY Opposite
    <3>4. ShownOnce'
      BY <3>2, <3>3, Seats DEF ShownOnce, ClearedStay
    <3> QED
      BY <3>1, <3>4 DEF ClearedStay
  <2> QED
    BY StepCases, <2>1, <2>2, <2>3, <2>4 DEF Step, WaitFails, LockFails
<1> QED
  BY <1>1, <1>2, TypedInvariant, LockInvariant, PTL DEF Spec

-----------------------------------------------------------------------------
(* Deadlock.  A thread that waits for its second fork waits for one that   *)
(* its holder has taken as its own second fork, unless two even threads    *)
(* sit next to each other: at seats N-1 and 0 of an odd table, where the   *)
(* argument goes one seat further.  So a chain of waits has at most three  *)
(* threads, and its last one can go on.                                    *)

\* While no sem_wait fails, no thread takes a fork with it.
LEMMA NoneLeftHoldingInvariant ==
    ASSUME MayInterrupt = {}
    PROVE  Spec => []NoneLeftHolding
<1>1. Init => NoneLeftHolding
  BY DEF Init, NoneLeftHolding
<1>2. Typed /\ NoneLeftHolding /\ [Next]_vars => NoneLeftHolding'
  BY StepCases DEF Typed, TypeOK, NoneLeftHolding, Step, Loop, LockUpdate,
     ClearNeighbours, ShowOwn, After, Updates, TakeFirst, TakeSecond, Take,
     GiveFirst, GiveSecond, Give, WaitFails, LockFails, vars
<1> QED
  BY <1>1, <1>2, TypedInvariant, PTL DEF Spec

\* A thread that holds its second fork is not waiting for any.
LEMMA SecondGoesOn ==
    ASSUME Typed, NEW p \in Phil, HoldsSecond(p), updateLock > 0
    PROVE  CanGoOn(p)
BY DEF HoldsSecond, HoldsBoth, CanGoOn, Updates

\* Nobody stands still for want of update_phil_lock.
LEMMA OnlyWaitersStand ==
    ASSUME Typed, NEW p \in Phil, ~CanGoOn(p), ~Returned(p), updateLock > 0
    PROVE  \/ pc[p] = "waitFirst"  /\ forks[First(p)] = 0
           \/ pc[p] = "waitSecond" /\ forks[Second(p)] = 0
<1>1. pc[p] \in Statements /\ updateLock > 0
  BY DEF Typed, TypeOK
<1>2. forks[First(p)] \in Nat /\ forks[Second(p)] \in Nat
  BY Forks DEF Typed, TypeOK
<1> QED
  BY <1>1, <1>2 DEF CanGoOn, Returned, Statements

\* One thread's first fork is another's second only at the ends of an odd table.
LEMMA Parity ==
    ASSUME NEW p \in Nat
    PROVE  (p + 1) % 2 = 0 <=> ~(p % 2 = 0)
OBVIOUS

LEMMA EndsOfTable ==
    \A q, r \in Phil : First(q) = Second(r) => q = N - 1 /\ r = 0
<1> SUFFICES ASSUME NEW q \in Phil, NEW r \in Phil, First(q) = Second(r)
             PROVE  q = N - 1 /\ r = 0
  OBVIOUS
<1>1. q \in Nat /\ r \in Nat /\ N \in Nat \ {0}
  BY DineAssumption DEF Phil
<1>2. Even(q + 1) <=> ~Even(q)
  BY <1>1, Parity DEF Even
<1>3. Even(r + 1) <=> ~Even(r)
  BY <1>1, Parity DEF Even
<1>4. /\ Right(q) = IF q = N - 1 THEN 0 ELSE q + 1
      /\ Right(r) = IF r = N - 1 THEN 0 ELSE r + 1
  BY Seats
<1>5. Even(0)
  BY DEF Even
<1>6. CASE Even(q) /\ Even(r)
  <2>1. Right(q) = r
    BY <1>6 DEF First, Second, Left
  <2> QED
    BY <1>1, <1>2, <1>4, <1>6, <2>1
<1>7. CASE Even(q) /\ ~Even(r)
  <2>1. Right(q) = Right(r)
    BY <1>7 DEF First, Second
  <2> QED
    BY <1>1, <1>4, <1>7, <2>1
<1>8. CASE ~Even(q) /\ Even(r)
  BY <1>8 DEF First, Second, Left
<1>9. CASE ~Even(q) /\ ~Even(r)
  <2>1. Right(r) = q
    BY <1>9 DEF First, Second, Left
  <2> QED
    BY <1>1, <1>3, <1>4, <1>5, <1>9, <2>1
<1> QED
  BY <1>6, <1>7, <1>8, <1>9

\* A wait for a second fork ends at a thread that can go on.
LEMMA SecondWaitChain ==
    ASSUME N >= 2, Typed, Exclusive, NoneLeftHolding, updateLock > 0,
           NEW p \in Phil, forks[Second(p)] = 0, ~HoldsSecond(p)
    PROVE  \E q \in Phil : CanGoOn(q)
<1> SUFFICES ASSUME \A q \in Phil : ~CanGoOn(q) PROVE FALSE
  OBVIOUS
<1>1. \A q \in Phil : ~HoldsSecond(q)
  BY SecondGoesOn
<1>2. \A r \in Phil : forks[Second(r)] = 0 =>
        \E q \in Phil : HoldsFirst(q) /\ First(q) = Second(r)
  BY <1>1, Forks DEF Exclusive, Holds
<1>3. \A q \in Phil : HoldsFirst(q) => pc[q] = "waitSecond" /\ forks[Second(q)] = 0
  <2> SUFFICES ASSUME NEW q \in Phil, HoldsFirst(q)
               PROVE  pc[q] = "waitSecond" /\ forks[Second(q)] = 0
    OBVIOUS
  <2>1. ~Returned(q) /\ pc[q] # "waitFirst"
    BY DEF Returned, HoldsFirst, HoldsBoth, NoneLeftHolding
  <2> QED
    BY <2>1, OnlyWaitersStand
<1>4. \A q, r \in Phil : First(q) = Second(r) => q = N - 1 /\ r = 0
  BY EndsOfTable
<1>5. PICK q \in Phil : HoldsFirst(q) /\ First(q) = Second(p)
  BY <1>2
<1>6. forks[Second(q)] = 0 /\ q = N - 1
  BY <1>3, <1>4, <1>5
<1>7. q = 0
  BY <1>2, <1>4, <1>5, <1>6
<1> QED
  BY <1>6, <1>7, DineAssumption

\* Deadlock freedom: with two philosophers or more and no failing wait, some
\* thread can go on until all have returned, whatever the size of the table.
\* (One philosopher waits for the fork it holds; that table is excluded.)
THEOREM NoDeadlock ==
    ASSUME N >= 2, MayInterrupt = {}
    PROVE  Spec => []SomeoneCanStep
<1>1. ASSUME Typed, Exclusive, TwoForks, LockHeldOnce, NoneLeftHolding
      PROVE  SomeoneCanStep
  <2> SUFFICES ASSUME NEW p \in Phil, ~Returned(p), \A q \in Phil : ~CanGoOn(q)
               PROVE  FALSE
    BY DEF SomeoneCanStep
  <2>1. updateLock > 0
    <3>1. \A q \in Phil : ~Inside(q)
      BY <1>1 DEF CanGoOn, Inside, Typed
    <3> QED
      BY <1>1, <3>1 DEF LockHeldOnce
  <2>2. \A q \in Phil : pc[q] = "waitSecond" => forks[Second(q)] # 0
    BY <1>1, <2>1, SecondWaitChain DEF HoldsSecond, HoldsBoth
  <2>3. pc[p] = "waitFirst" /\ forks[First(p)] = 0
    BY <1>1, <2>1, <2>2, OnlyWaitersStand
  <2>4. PICK q \in Phil : Holds(q, First(p))
    BY <1>1, <2>3, Forks DEF Exclusive
  <2>5. ~Returned(q) /\ pc[q] # "waitFirst"
    BY <1>1, <2>4 DEF Holds, HoldsFirst, HoldsSecond, HoldsBoth, Returned, NoneLeftHolding
  <2> QED
    BY <1>1, <2>1, <2>2, <2>5, OnlyWaitersStand
<1>2. Typed /\ Exclusive /\ TwoForks /\ LockHeldOnce /\ NoneLeftHolding => SomeoneCanStep
  BY <1>1
<1> QED
  BY <1>2, TypedInvariant, Exclusion, LockInvariant, NoneLeftHoldingInvariant, PTL
=============================================================================
