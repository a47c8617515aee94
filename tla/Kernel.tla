------------------------------- MODULE Kernel --------------------------------
(***************************************************************************)
(* Scheduling and interrupts together.  An interrupt calls the hooks of    *)
(* its line; the handler of a driver's hook leaves a bit in s_int_pending  *)
(* and notifies the driver, which may preempt the running process; the     *)
(* driver receives the bits, serves its device and enables its hook.       *)
(*                                                                         *)
(* The handler of drivers' hooks and the kernel call that sets, enables    *)
(* and disables them, system/do_irqctl.c, are not in the repository; they  *)
(* follow the use made of them here and in the drivers.                    *)
(***************************************************************************)
EXTENDS Sched, Irq

CONSTANTS
    Owner,          \* hook->proc_nr_e, a driver
    Reenable,       \* the hooks with IRQ_REENABLE in their policy
    Restless        \* bound: the hooks that are also disabled and removed

ASSUME KernelAssumption ==
    /\ IsFiniteSet(Hook) /\ Bit = Hook
    /\ Owner \in [Hook -> Server \ {SCHED}]
    /\ Reenable \subseteq Hook /\ Restless \subseteq Hook

VARIABLES
    raised,         \* the devices that ask for service, by their hooks
    off             \* the hooks their driver has disabled

kvars == <<k, pc, irq, raised, off>>
env == <<raised, off>>

KInit == Init /\ IrqInit /\ raised = {} /\ off = {}

-----------------------------------------------------------------------------
\* A device that has a driver raises its interrupt.
Raise(h) ==
    /\ Registered(h)
    /\ raised' = raised \cup {h}
    /\ UNCHANGED <<vars, irq, off>>

\* An interrupt: the line's hooks are called one after the other.
Irq(l) ==
    /\ pc \in {"user", "idle"}
    /\ l \in open
    /\ \E h \in raised : LineOf[h] = l
    /\ \E t \in 0 .. 1, order \in SetToSeqs(irq_handlers[l]) :
        LET after[n \in 0 .. Len(order)] ==
                IF n = 0 THEN Charged(t) ELSE Notify(after[n - 1], Owner[order[n]], order[n])
        IN  k' = after[Len(order)]
    /\ irq_handle(l, irq_handlers[l] \cap Reenable)
    /\ Leaves
    /\ UNCHANGED env

\* The driver of h serves its device, of which an interrupt told it, and
\* enables the hook, if it is still there and not disabled on purpose.
Serve(h) ==
    LET p == Owner[h]
        rest == k.got[p].arg \ {h}
    IN  /\ Runs(p)
        /\ h \in k.got[p].arg
        /\ \E t \in 0 .. 1 :
            k' = [Charged(t) EXCEPT !.got[p] = IF rest = {} THEN NoMsg ELSE [@ EXCEPT !.arg = rest]]
        /\ Leaves
        /\ raised' = raised \ {h}
        /\ IF Registered(h) /\ h \notin off THEN enable_irq(h) ELSE UNCHANGED irq
        /\ UNCHANGED off

\* A driver's kernel calls for its hooks, between two messages.
IrqCall(h) ==
    /\ Runs(Owner[h])
    /\ k.got[Owner[h]] = NoMsg
    /\ \E t \in 0 .. 1 : k' = Charged(t)
    /\ Leaves

SetHook(h) == IrqCall(h) /\ put_irq_handler(h) /\ UNCHANGED env

RemoveHook(h) ==
    /\ IrqCall(h)
    /\ Registered(h) /\ h \in Restless
    /\ rm_irq_handler(h)
    /\ raised' = raised \ {h}
    /\ off' = off \ {h}

DisableHook(h) ==
    /\ IrqCall(h)
    /\ Registered(h) /\ h \in Restless \ off
    /\ disable_irq(h)
    /\ off' = off \cup {h}
    /\ UNCHANGED raised

EnableHook(h) ==
    /\ IrqCall(h)
    /\ h \in off
    /\ enable_irq(h)
    /\ off' = off \ {h}
    /\ UNCHANGED raised

Scheduling == (Switch \/ Schedule \/ \E p \in Proc : UserStep(p)) /\ UNCHANGED <<irq, env>>

Hooks(h) == SetHook(h) \/ RemoveHook(h) \/ DisableHook(h) \/ EnableHook(h)

KNext ==
    \/ Scheduling
    \/ \E h \in Hook : Raise(h) \/ Serve(h) \/ Hooks(h)
    \/ \E l \in Line : Irq(l)

\* Fairness.  The kernel leaves whenever it was entered.  A server that gets
\* the processor again and again waits again and again: it does its work, and
\* its device or its callers leave it time.  A process of the kernel's makes a
\* call at last, since its quantum would be renewed for ever; a process of the
\* scheduler may run on, which uses up its quantum.  A line that is open again
\* and again to a device that asks lets an interrupt pass.  All of it is strong
\* fairness, because others take the processor in between, and none of it says
\* who gets the processor.  The premises are the states in which the step can
\* be taken.
Asked(l) == pc \in {"user", "idle"} /\ l \in open /\ \E h \in raised : LineOf[h] = l

Burns(p) == Tick(p) /\ k'.left[p] < k.left[p]

Fairness ==
    /\ []<>(pc \in {"user", "idle"})
    /\ \A p \in Server : []<>Runs(p) => []<>("RECEIVING" \in k.rts[p])
    /\ \A p \in Proc \ (Scheduled \cup Server) : []<>Runs(p) => []<><<Call(p)>>_kvars
    /\ \A p \in Scheduled : []<>Runs(p) => []<><<Burns(p)>>_kvars
    /\ \A l \in Line : []<>Asked(l) => []<><<Irq(l)>>_kvars

KSpec == KInit /\ [][KNext]_kvars /\ Fairness

-----------------------------------------------------------------------------
\* The ready lists hold the runnable processes, each once and on the list of
\* its priority, and the tail, where enqueue will hang the next one, is the
\* list's last: through wake-ups that preempt the caller in the middle of its
\* own call, moves between queues and stops of any process in any place.
ListsMatch ==
    \A q \in Queue :
        LET list == ReadyList(k, q)
        IN  /\ Len(list) = Cardinality(ToSet(list))
            /\ ToSet(list) = {p \in Proc : Runnable(k, p) /\ k.prio[p] = q}
            /\ list # << >> => k.tail[q] = Last(list)

\* A process runs only if it is runnable and has time left (the assertions in
\* switch_to_user), at the head of its list, and no ready process has a
\* higher priority, unless the running one may not be preempted.
RunsInTurn ==
    pc = "user" =>
        /\ Runnable(k, k.cur) /\ k.left[k.cur] > 0
        /\ k.head[k.prio[k.cur]] = k.cur
        /\ k.cur \in Preemptible => k.cur = pick_proc(k)

\* A hook that keeps its line masked is known to the driver that will enable
\* it: the driver disabled it, or the bit is in the message the driver works
\* on, or waits for it behind a pending notification.
ActiveIsKnown ==
    \A h \in Hook :
        LET p == Owner[h]
        IN  Registered(h) /\ id[h] \in irq_actids[LineOf[h]] =>
                \/ h \in off
                \/ h \in k.got[p].arg
                \/ h \in k.int[p] /\ p \in k.notified

\* A preempted process with time left keeps its place at the head of its list.
RQ == INSTANCE RunQueues WITH
    Priority <- Queue,
    running <- k.cur,
    queue <- [q \in Queue |->
        IF k.cur # IDLE /\ k.rts[k.cur] = {"PREEMPTED"} /\ k.left[k.cur] > 0 /\ k.prio[k.cur] = q
        THEN <<k.cur>> \o ReadyList(k, q) ELSE ReadyList(k, q)]

\* The linked lists implement the queues of RunQueues: nobody is overtaken by
\* a process of the same priority, a preempted process least of all.
ImplementsRunQueues == RQ!Spec

\* A process whose quantum is over gets another one: its message reaches the
\* scheduler, which is not kept from running, and no flag is left behind.
Rescheduled ==
    \A p \in Scheduled : "NO_QUANTUM" \in k.rts[p] ~> "NO_QUANTUM" \notin k.rts[p]

\* A device that asks for service gets it, unless a driver on its line has
\* disabled its own hook.
DeviceServed ==
    \A h \in Hook : h \in raised ~> h \notin raised \/ \E g \in off : LineOf[g] = LineOf[h]
=============================================================================
