--------------------------------- MODULE Irq ---------------------------------
(***************************************************************************)
(* Interrupt hooks, src/kernel/interrupt.c.  Several hooks share a line;   *)
(* each has an identifier on it, and its bit is set in irq_actids from the *)
(* interrupt until its driver enables it again.  The line is open at the   *)
(* interrupt controller only while no bit is set.                          *)
(*                                                                         *)
(* The list of a line is a set: the order of its hooks decides nothing     *)
(* here.  What a handler does is its result: done are the hooks whose      *)
(* handler returned TRUE.                                                  *)
(***************************************************************************)
EXTENDS Integers

CONSTANTS
    Hook, Line,
    LineOf,         \* hook->irq
    Id              \* bound: identifiers of hooks, the bits of an int

ASSUME IrqAssumption ==
    /\ LineOf \in [Hook -> Line]
    /\ Id \subseteq Nat \ {0}

VARIABLES
    irq_handlers,
    id,             \* hook->id; it stays when the hook is removed
    irq_actids,
    open            \* the lines that are not masked

irq == <<irq_handlers, id, irq_actids, open>>

IrqInit ==
    /\ irq_handlers = [l \in Line |-> {}]
    /\ id = [h \in Hook |-> 0]
    /\ irq_actids = [l \in Line |-> {}]
    /\ open = {}

Registered(h) == h \in irq_handlers[LineOf[h]]

\* Mutant: the line is opened for one driver while another is at work.
OpenAlways(l, act) == open \cup {l}

\* The line l with the active identifiers act is opened if none is left, and
\* stays as it is otherwise.
OpenIfIdle(l, act) == IF act = {} THEN open \cup {l} ELSE open

\* The lowest free identifier.  When there is none the kernel panics.
put_irq_handler(h) ==
    LET l == LineOf[h]
        used == {id[g] : g \in irq_handlers[l]}
    IN  \E i \in Id \ used :
        /\ \A j \in Id : j < i => j \in used
        /\ ~Registered(h)
        /\ irq_handlers' = [irq_handlers EXCEPT ![l] = @ \cup {h}]
        /\ id' = [id EXCEPT ![h] = i]
        /\ irq_actids' = [irq_actids EXCEPT ![l] = @ \ {i}]
        /\ open' = OpenIfIdle(l, irq_actids[l] \ {i})

\* Mutant: the line of a removed hook is left as it is for the others.
rm_irq_handlerMasked(h) ==
    LET l == LineOf[h]
        kept == {g \in irq_handlers[l] : id[g] # id[h]}
        act == IF kept = irq_handlers[l] THEN irq_actids[l] ELSE irq_actids[l] \ {id[h]}
    IN  /\ irq_handlers' = [irq_handlers EXCEPT ![l] = kept]
        /\ irq_actids' = [irq_actids EXCEPT ![l] = act]
        /\ open' = IF kept = {} THEN open \ {l} ELSE open
        /\ UNCHANGED id

rm_irq_handler(h) ==
    LET l == LineOf[h]
        kept == {g \in irq_handlers[l] : id[g] # id[h]}
        act == IF kept = irq_handlers[l] THEN irq_actids[l] ELSE irq_actids[l] \ {id[h]}
    IN  /\ irq_handlers' = [irq_handlers EXCEPT ![l] = kept]
        /\ irq_actids' = [irq_actids EXCEPT ![l] = act]
        /\ open' = IF kept = {} THEN open \ {l} ELSE OpenIfIdle(l, act)
        /\ UNCHANGED id

enable_irq(h) ==
    LET l == LineOf[h]
        act == irq_actids[l] \ {id[h]}
    IN  /\ irq_actids' = [irq_actids EXCEPT ![l] = act]
        /\ open' = OpenIfIdle(l, act)
        /\ UNCHANGED <<irq_handlers, id>>

\* A hook that is active already is left alone, and the line with it.
disable_irq(h) ==
    LET l == LineOf[h]
    IN  /\ IF id[h] \in irq_actids[l] THEN UNCHANGED <<irq_actids, open>>
           ELSE /\ irq_actids' = [irq_actids EXCEPT ![l] = @ \cup {id[h]}]
                /\ open' = open \ {l}
        /\ UNCHANGED <<irq_handlers, id>>

\* Every hook is made active and called.  Without a hook the line stays masked.
irq_handle(l, done) ==
    LET act == (irq_actids[l] \cup {id[h] : h \in irq_handlers[l]}) \ {id[h] : h \in done}
    IN  /\ irq_actids' = [irq_actids EXCEPT ![l] = act]
        /\ open' = IF irq_handlers[l] # {} /\ act = {} THEN open \cup {l} ELSE open \ {l}
        /\ UNCHANGED <<irq_handlers, id>>

\* Hooks are removed, enabled and disabled while they are registered only.
IrqNext ==
    \/ \E h \in Hook : put_irq_handler(h)
    \/ \E h \in Hook : Registered(h) /\ (rm_irq_handler(h) \/ enable_irq(h) \/ disable_irq(h))
    \/ \E l \in open : \E done \in SUBSET irq_handlers[l] : irq_handle(l, done)

IrqSpec == IrqInit /\ [][IrqNext]_irq

-----------------------------------------------------------------------------
IrqTypeOK ==
    /\ irq_handlers \in [Line -> SUBSET Hook]
    /\ \A l \in Line : \A h \in irq_handlers[l] : LineOf[h] = l /\ id[h] \in Id
    /\ id \in [Hook -> Id \cup {0}]
    /\ irq_actids \in [Line -> SUBSET Id]
    /\ open \subseteq Line

\* The hooks of a line are told apart by their identifiers, and only they have
\* active bits: an identifier that is taken over comes without its old bit.
HooksApart ==
    \A l \in Line :
        /\ \A g, h \in irq_handlers[l] : id[g] = id[h] => g = h
        /\ irq_actids[l] \subseteq {id[h] : h \in irq_handlers[l]}

\* A line is open exactly while it has hooks and none of them is active,
\* in whatever order drivers come, go, disable and enable: it is never left
\* masked for nobody, nor opened under a driver that is still at work.
LineOpen ==
    \A l \in Line : l \in open <=> irq_handlers[l] # {} /\ irq_actids[l] = {}
=============================================================================
