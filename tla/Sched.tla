-------------------------------- MODULE Sched --------------------------------
(***************************************************************************)
(* Process scheduling in the MINIX kernel: the ready lists with enqueue,   *)
(* enqueue_head, dequeue and pick_proc, switch_to_user, the end of a       *)
(* quantum and sched_proc of src/kernel/proc.c and system.c.               *)
(*                                                                         *)
(* The kernel is entered by a call of the running process or by an         *)
(* interrupt, and leaves through switch_to_user.  An entry is one step,    *)
(* and so is each stage of switch_to_user, whose loop ends when there is a *)
(* process to run; pc says which is next.                                  *)
(*                                                                         *)
(* The process table is the record k.  An operator with the name of a C    *)
(* function maps the table before the call to the table after it, so that  *)
(* nested calls (a message that wakes a process that preempts the caller)  *)
(* compose as they do in the code.                                         *)
(*                                                                         *)
(* Message passing is reduced to what moves processes on and off the       *)
(* lists: servers receive from ANY, the others call servers with SENDREC   *)
(* and are answered with SENDNB.  Calls that cannot form a circle need no  *)
(* deadlock test; module Ipc has it.  STOPPED stands for every flag that   *)
(* others set and clear: signals, tracing, page faults, VM requests.       *)
(* Interrupts come from module Kernel, which composes this one with Irq.   *)
(***************************************************************************)
EXTENDS Integers, SequencesExt

CONSTANTS
    Proc, IDLE, NULL, ANY,
    SCHED,              \* the scheduler in user space
    Scheduled,          \* p_scheduler is SCHED; the others are the kernel's
    Preemptible,        \* s_flags & PREEMPTIBLE
    Server,             \* the processes that wait for requests
    Traced,             \* MF_SC_TRACE is set before each of their calls
    Manager,            \* those who stop and continue others by kernel calls
    Asks,               \* the servers a process calls
    NR_SCHED_QUEUES,
    BootOrder,          \* the order of the boot image
    Priority,           \* p_priority at start
    UserQueue,          \* the queues SCHED chooses from
    Quantum,            \* bound: a quantum in ticks
    Metered,            \* bound: the processes whose use of time is followed
    Bit                 \* identifiers in s_int_pending

Queue == 0 .. NR_SCHED_QUEUES - 1

\* The flags of p_rts_flags are "SENDING", "RECEIVING", "STOPPED", "PREEMPTED"
\* and "NO_QUANTUM"; a message has a sender, one of the types "CALL",
\* "NO_QUANTUM" and "HARDWARE", and the bits of s_int_pending it carries.
NoMsg == [from |-> IDLE, type |-> "CALL", arg |-> {}]

\* sched_proc lets a priority of NR_SCHED_QUEUES pass, one past the lists; the
\* scheduler of MINIX never asks for it.
ASSUME SchedAssumption ==
    /\ IsFiniteSet(Proc)
    /\ IDLE \notin Proc /\ NULL \notin Proc /\ ANY \notin Proc
    /\ SCHED \in Server /\ SCHED \notin Scheduled
    /\ Scheduled \cup Preemptible \cup Server \cup Traced \cup Manager \cup Metered \subseteq Proc
    /\ SCHED \notin Traced
    /\ Asks \in [Proc \ Server -> SUBSET (Server \ {SCHED})]
    /\ NR_SCHED_QUEUES \in Nat \ {0}
    /\ BootOrder \in Seq(Proc) /\ ToSet(BootOrder) = Proc
    /\ Priority \in [Proc -> Queue]
    /\ UserQueue \subseteq Queue
    /\ Quantum \in Nat \ {0}

VARIABLES
    k,      \* the process table, the ready lists and proc_ptr
    pc      \* "user", "idle", or where the kernel is: "pick" or "check"

vars == <<k, pc>>

Runnable(s, p) == s.rts[p] = {}
WILLRECEIVE(s, p, from) ==
    /\ "RECEIVING" \in s.rts[p] /\ "SENDING" \notin s.rts[p]
    /\ s.getfrom[p] \in {ANY, from}

-----------------------------------------------------------------------------
(* The ready lists: rdy_head, rdy_tail and p_nextready.  Whoever is put on *)
(* a list gets a new p_nextready; off the lists it is not read, and is     *)
(* NULL here.                                                              *)

\* The processes met from rdy_head[q] on.  A list that does not end shows as
\* one that is longer than the table.
ReadyList(s, q) ==
    LET met[i \in 0 .. Cardinality(Proc)] ==
            IF i = 0 THEN s.head[q]
            ELSE IF met[i - 1] = NULL THEN NULL ELSE s.next[met[i - 1]]
    IN  [i \in {j \in 1 .. Cardinality(Proc) + 1 : met[j - 1] # NULL} |-> met[i - 1]]

\* Mutant: dequeue forgets the tail.
dequeueKeepsTail(s, p) ==
    LET q == s.prio[p]
        list == ReadyList(s, q)
        i == CHOOSE n \in DOMAIN list : list[n] = p
        prev == IF i = 1 THEN NULL ELSE list[i - 1]
    IN  IF p \notin ToSet(list) THEN s
        ELSE IF prev = NULL THEN [s EXCEPT !.head[q] = s.next[p], !.next[p] = NULL]
             ELSE [s EXCEPT !.next = [@ EXCEPT ![prev] = s.next[p], ![p] = NULL]]

dequeue(s, p) ==
    LET q == s.prio[p]
        list == ReadyList(s, q)
        i == CHOOSE n \in DOMAIN list : list[n] = p
        prev == IF i = 1 THEN NULL ELSE list[i - 1]
        cut == IF prev = NULL THEN [s EXCEPT !.head[q] = s.next[p], !.next[p] = NULL]
               ELSE [s EXCEPT !.next = [@ EXCEPT ![prev] = s.next[p], ![p] = NULL]]
    IN  IF p \notin ToSet(list) THEN s
        ELSE [cut EXCEPT !.tail[q] = IF @ = p THEN prev ELSE @]

RTS_SET(s, p, flags) ==
    LET set == [s EXCEPT !.rts[p] = @ \cup flags]
    IN  IF Runnable(s, p) /\ flags # {} THEN dequeue(set, p) ELSE set

\* Mutant: a process that becomes ready does not preempt the running one.
enqueueOnly(s, p) ==
    LET q == s.prio[p]
    IN  IF s.head[q] = NULL
        THEN [s EXCEPT !.head[q] = p, !.tail[q] = p, !.next[p] = NULL]
        ELSE [s EXCEPT !.next = [@ EXCEPT ![s.tail[q]] = p, ![p] = NULL],
                       !.tail[q] = p]

\* To the tail of its list; a running process of a lower priority gives way.
enqueue(s, p) ==
    LET q == s.prio[p]
        put == IF s.head[q] = NULL
               THEN [s EXCEPT !.head[q] = p, !.tail[q] = p, !.next[p] = NULL]
               ELSE [s EXCEPT !.next = [@ EXCEPT ![s.tail[q]] = p, ![p] = NULL],
                              !.tail[q] = p]
    IN  IF s.cur \in Preemptible /\ s.prio[s.cur] > q
        THEN RTS_SET(put, s.cur, {"PREEMPTED"})
        ELSE put

\* To the head of its list.
enqueue_head(s, p) ==
    LET q == s.prio[p]
    IN  IF s.head[q] = NULL
        THEN [s EXCEPT !.head[q] = p, !.tail[q] = p, !.next[p] = NULL]
        ELSE [s EXCEPT !.head[q] = p, !.next[p] = s.head[q]]

RTS_UNSET(s, p, flags) ==
    LET unset == [s EXCEPT !.rts[p] = @ \ flags]
    IN  IF ~Runnable(s, p) /\ Runnable(unset, p) THEN enqueue(unset, p) ELSE unset

pick_proc(s) ==
    LET busy == {q \in Queue : s.head[q] # NULL}
    IN  IF busy = {} THEN IDLE ELSE s.head[Min(busy)]

-----------------------------------------------------------------------------
(* Messages.  k.got[p] is what a server has received and not dealt with.    *)

Deliver(s, p, m) ==
    [s EXCEPT !.got[p] = IF p \in Server THEN m ELSE NoMsg]

\* Mutant: the message that a quantum is over is only sent to a waiting scheduler.
mini_sendNB(s, p, d, type) ==
    IF WILLRECEIVE(s, d, p)
    THEN RTS_UNSET([Deliver(s, d, [from |-> p, type |-> type, arg |-> {}])
                        EXCEPT !.getfrom[d] = NULL], d, {"RECEIVING"})
    ELSE s

mini_send(s, p, d, type) ==
    IF WILLRECEIVE(s, d, p)
    THEN RTS_UNSET([Deliver(s, d, [from |-> p, type |-> type, arg |-> {}])
                        EXCEPT !.getfrom[d] = NULL], d, {"RECEIVING"})
    ELSE [RTS_SET(s, p, {"SENDING"}) EXCEPT !.callers[d] = Append(@, p),
                                            !.sendmsg[p] = type]

\* SENDNB: an answer to somebody who does not wait for it is refused.
Answer(s, d) ==
    IF WILLRECEIVE(s, d, s.cur)
    THEN RTS_UNSET([s EXCEPT !.getfrom[d] = NULL], d, {"RECEIVING"})
    ELSE s

\* Receiving from ANY: interrupts first, then the queue of callers.
ReceiveAny(s, p) ==
    IF p \in s.notified
    THEN [Deliver(s, p, [from |-> IDLE, type |-> "HARDWARE", arg |-> s.int[p]])
              EXCEPT !.notified = @ \ {p}, !.int[p] = {}]
    ELSE IF s.callers[p] # << >>
    THEN LET sender == Head(s.callers[p])
             m == [from |-> sender, type |-> s.sendmsg[sender], arg |-> {}]
         IN  [RTS_UNSET(Deliver(s, p, m), sender, {"SENDING"})
                  EXCEPT !.callers[p] = Tail(@), !.sendmsg[sender] = "CALL"]
    ELSE [RTS_SET(s, p, {"RECEIVING"}) EXCEPT !.getfrom[p] = ANY]

\* SENDREC to a server, which answers later.  Nothing is pending for the
\* caller then: nobody notifies or calls a process that is not a server.
Sendrec(s, p, d) ==
    [RTS_SET(mini_send(s, p, d, "CALL"), p, {"RECEIVING"}) EXCEPT !.getfrom[p] = d]

\* Mutant: an interrupt for a busy driver is not remembered.
NotifyWaiting(s, p, b) ==
    LET told == [s EXCEPT !.int[p] = @ \cup {b}]
    IN  IF WILLRECEIVE(s, p, ANY)
        THEN RTS_UNSET([Deliver(told, p, [from |-> IDLE, type |-> "HARDWARE", arg |-> told.int[p]])
                            EXCEPT !.getfrom[p] = NULL, !.int[p] = {}], p, {"RECEIVING"})
        ELSE s

\* mini_notify from HARDWARE, with the bit b of the driver's hook.
Notify(s, p, b) ==
    LET told == [s EXCEPT !.int[p] = @ \cup {b}]
    IN  IF WILLRECEIVE(s, p, ANY)
        THEN RTS_UNSET([Deliver(told, p, [from |-> IDLE, type |-> "HARDWARE", arg |-> told.int[p]])
                            EXCEPT !.getfrom[p] = NULL, !.int[p] = {}], p, {"RECEIVING"})
        ELSE [told EXCEPT !.notified = @ \cup {p}]

-----------------------------------------------------------------------------
(* Quanta.                                                                 *)

notify_scheduler(s, p) ==
    mini_send(RTS_SET(s, p, {"NO_QUANTUM"}), p, SCHED, "NO_QUANTUM")

\* Only a preemptible process of the scheduler is taken off; the others' quanta
\* are renewed at once.
proc_no_time(s, p) ==
    IF p \in Scheduled \cap Preemptible THEN notify_scheduler(s, p)
    ELSE [s EXCEPT !.left[p] = Quantum]

\* A runnable process is taken off its list first, with the flag that is then
\* cleared.
sched_proc(s, p, priority) ==
    LET off == IF Runnable(s, p) THEN RTS_SET(s, p, {"NO_QUANTUM"}) ELSE s
    IN  RTS_UNSET([off EXCEPT !.prio[p] = priority, !.left[p] = Quantum],
                  p, {"NO_QUANTUM"})

-----------------------------------------------------------------------------
Empty ==
    [rts |-> [p \in Proc |-> {"STOPPED"}], prio |-> Priority,
     left |-> [p \in Proc |-> Quantum], cur |-> IDLE,
     head |-> [q \in Queue |-> NULL], tail |-> [q \in Queue |-> NULL],
     next |-> [p \in Proc |-> NULL],
     callers |-> [p \in Proc |-> << >>], sendmsg |-> [p \in Proc |-> "CALL"],
     getfrom |-> [p \in Proc |-> NULL], got |-> [p \in Proc |-> NoMsg],
     int |-> [p \in Proc |-> {}], notified |-> {}, defer |-> {}]

\* The boot image's processes once each is allowed to run.
Init ==
    /\ LET after[n \in 0 .. Len(BootOrder)] ==
                IF n = 0 THEN Empty ELSE RTS_UNSET(after[n - 1], BootOrder[n], {"STOPPED"})
       IN  k = after[Len(BootOrder)]
    /\ pc = "pick"

-----------------------------------------------------------------------------
(* switch_to_user.                                                         *)

\* Mutant: a preempted process goes to the end of its list.
RequeueTail(s, p) ==
    LET s1 == [s EXCEPT !.rts[p] = @ \ {"PREEMPTED"}]
    IN  IF "PREEMPTED" \in s.rts[p] /\ Runnable(s1, p) THEN enqueue(s1, p) ELSE s1

\* A preempted process goes back to the front, unless its time is over.
Requeue(s, p) ==
    LET s1 == [s EXCEPT !.rts[p] = @ \ {"PREEMPTED"}]
    IN  IF "PREEMPTED" \notin s.rts[p] \/ ~Runnable(s1, p) THEN s1
        ELSE IF s.left[p] > 0 THEN enqueue_head(s1, p) ELSE enqueue(s1, p)

PickNew ==
    /\ pc = "pick"
    /\ LET s == IF k.cur = IDLE THEN k ELSE Requeue(k, k.cur)
       IN  k' = [s EXCEPT !.cur = pick_proc(s)]
    /\ pc' = IF k'.cur = IDLE THEN "idle" ELSE "check"

\* What a call of p, made now, does to the table.
Performed(s, p) ==
    IF p \in Server THEN {ReceiveAny(s, p)}
    ELSE {Sendrec(s, p, d) : d \in Asks[p]}

\* The last thing before p runs: has it time left?
TimeCheck(s, p) == IF s.left[p] = 0 THEN proc_no_time(s, p) ELSE s

\* The pending work of the chosen process: a deferred call is made now.
Check ==
    /\ pc = "check"
    /\ LET p == k.cur
       IN  IF p \in k.defer
           THEN \E s \in Performed([k EXCEPT !.defer = @ \ {p}], p) : k' = TimeCheck(s, p)
           ELSE k' = TimeCheck(k, p)
    /\ pc' = IF Runnable(k', k.cur) THEN "user" ELSE "pick"

-----------------------------------------------------------------------------
(* Entries of the kernel.                                                  *)

\* context_stop: the time since the process was left is taken off its quantum.
Charged(t) ==
    IF k.cur \notin Metered THEN k ELSE [k EXCEPT !.left[k.cur] = IF @ > t THEN @ - t ELSE 0]

\* switch_to_user begins: the process that was running goes on if it may.
Leaves == pc' = IF k'.cur # IDLE /\ Runnable(k', k'.cur) THEN "check" ELSE "pick"

Runs(p) == pc = "user" /\ k.cur = p

\* The clock's interrupt does no more than any entry.
Tick(p) == Runs(p) /\ (\E t \in 0 .. 1 : k' = Charged(t)) /\ Leaves

\* A message call.  A traced process is stopped first, and the call deferred.
Call(p) ==
    /\ Runs(p)
    /\ k.got[p] = NoMsg
    /\ \E t \in 0 .. 1 :
        LET s == Charged(t)
        IN  IF p \in Traced
            THEN k' = [RTS_SET(s, p, {"STOPPED"}) EXCEPT !.defer = @ \cup {p}]
            ELSE k' \in Performed(s, p)
    /\ Leaves

\* A server answers the request it has taken.
Reply(p) ==
    /\ Runs(p)
    /\ p # SCHED /\ k.got[p] # NoMsg /\ k.got[p].type = "CALL"
    /\ \E t \in 0 .. 1 : k' = [Answer(Charged(t), k.got[p].from) EXCEPT !.got[p] = NoMsg]
    /\ Leaves

\* SCHED gives a process that ran out of quantum a new one.
Schedule ==
    /\ Runs(SCHED)
    /\ k.got[SCHED].type = "NO_QUANTUM"
    /\ \E t \in 0 .. 1, q \in UserQueue :
        k' = [sched_proc(Charged(t), k.got[SCHED].from, q) EXCEPT !.got[SCHED] = NoMsg]
    /\ Leaves

\* Between two messages SCHED raises a process again, whatever it is doing.
Balance(p) ==
    /\ Runs(SCHED)
    /\ p \in Scheduled /\ k.got[SCHED] = NoMsg
    /\ \E t \in 0 .. 1, q \in UserQueue : q < k.prio[p] /\ k' = sched_proc(Charged(t), p, q)
    /\ Leaves

\* A kernel call of m stops p, or lets it go on.
Stop(m, p) ==
    /\ Runs(m)
    /\ m \in Manager /\ p \notin Server \cup Manager /\ "STOPPED" \notin k.rts[p]
    /\ \E t \in 0 .. 1 : k' = RTS_SET(Charged(t), p, {"STOPPED"})
    /\ Leaves

Continue(m, p) ==
    /\ Runs(m)
    /\ m \in Manager /\ "STOPPED" \in k.rts[p]
    /\ \E t \in 0 .. 1 : k' = RTS_UNSET(Charged(t), p, {"STOPPED"})
    /\ Leaves

Switch == PickNew \/ Check

UserStep(p) ==
    \/ Tick(p) \/ Call(p) \/ Reply(p) \/ Balance(p)
    \/ \E o \in Proc : Stop(p, o) \/ Continue(p, o)
=============================================================================
