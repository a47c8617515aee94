----------------------------- MODULE KernelProofs -----------------------------
(***************************************************************************)
(* Proofs about the kernel, for any number of processes, queues, hooks and *)
(* lines: the interrupt hooks by themselves, the hooks as the drivers and  *)
(* the scheduler use them, the ready lists, whose turn it is, and what     *)
(* drivers know of their interrupts.                                       *)
(***************************************************************************)
EXTENDS Kernel, QueueLemmas, FiniteSetTheorems, TLAPS

-----------------------------------------------------------------------------
(* The hooks by themselves.                                                *)

\* The invariant: a line's state at the controller follows from its active
\* bits only because these belong to its hooks, each with a bit of its own.
IrqInv == IrqTypeOK /\ HooksApart /\ LineOpen

\* Every line but l is as before.
OtherLines(l) ==
    \A m \in Line \ {l} :
        /\ irq_handlers'[m] = irq_handlers[m]
        /\ irq_actids'[m] = irq_actids[m]
        /\ m \in open' <=> m \in open
        /\ \A g \in irq_handlers[m] : id'[g] = id[g]

\* What is left to show of a step on the line l.
LEMMA OneLine ==
    ASSUME NEW l \in Line, IrqInv, IrqTypeOK', OtherLines(l),
           \A g, h \in irq_handlers'[l] : id'[g] = id'[h] => g = h,
           irq_actids'[l] \subseteq {id'[h] : h \in irq_handlers'[l]},
           l \in open' <=> irq_handlers'[l] # {} /\ irq_actids'[l] = {}
    PROVE  IrqInv'
<1>1. HooksApart'
  <2>1. SUFFICES ASSUME NEW m \in Line
        PROVE  /\ \A g, h \in irq_handlers'[m] : id'[g] = id'[h] => g = h
               /\ irq_actids'[m] \subseteq {id'[h] : h \in irq_handlers'[m]}
    BY DEF HooksApart
  <2>2. CASE m = l
    BY <2>2
  <2>3. CASE m # l
    BY <2>3 DEF OtherLines, IrqInv, HooksApart
  <2> QED BY <2>2, <2>3
<1>2. LineOpen'
  BY DEF OtherLines, IrqInv, LineOpen
<1> QED BY <1>1, <1>2 DEF IrqInv

LEMMA InitHolds == IrqInit => IrqInv
BY IrqAssumption DEF IrqInit, IrqInv, IrqTypeOK, HooksApart, LineOpen

LEMMA PutKeeps ==
    ASSUME IrqInv, NEW h \in Hook, put_irq_handler(h)
    PROVE  IrqInv'
<1> DEFINE l == LineOf[h]
           used == {id[g] : g \in irq_handlers[l]}
<1>1. l \in Line /\ h \notin irq_handlers[l]
  BY IrqAssumption DEF put_irq_handler, Registered
<1>2. PICK i \in Id \ used :
        /\ irq_handlers' = [irq_handlers EXCEPT ![l] = @ \cup {h}]
        /\ id' = [id EXCEPT ![h] = i]
        /\ irq_actids' = [irq_actids EXCEPT ![l] = @ \ {i}]
        /\ open' = OpenIfIdle(l, irq_actids[l] \ {i})
  BY DEF put_irq_handler
<1>3. IrqTypeOK'
  BY <1>1, <1>2, IrqAssumption DEF IrqInv, IrqTypeOK, OpenIfIdle
<1>4. \A g \in irq_handlers[l] : g # h /\ id'[g] = id[g] /\ id[g] # i
  BY <1>1, <1>2 DEF IrqInv, IrqTypeOK
<1>5. id'[h] = i /\ irq_handlers'[l] = irq_handlers[l] \cup {h}
  BY <1>1, <1>2 DEF IrqInv, IrqTypeOK
<1>6. irq_actids'[l] = irq_actids[l] /\ irq_actids[l] \subseteq used
  <2>1. irq_actids[l] \subseteq used
    BY <1>1 DEF IrqInv, HooksApart
  <2>2. irq_actids'[l] = irq_actids[l] \ {i}
    BY <1>1, <1>2 DEF IrqInv, IrqTypeOK
  <2>3. i \notin irq_actids[l]
    BY <1>2, <2>1
  <2> QED BY <2>1, <2>2, <2>3
<1>7. OtherLines(l)
  BY <1>1, <1>2 DEF OtherLines, IrqInv, IrqTypeOK, OpenIfIdle
<1>8. \A f, g \in irq_handlers'[l] : id'[f] = id'[g] => f = g
  BY <1>1, <1>4, <1>5 DEF IrqInv, HooksApart
<1>9. irq_actids'[l] \subseteq {id'[g] : g \in irq_handlers'[l]}
  BY <1>4, <1>5, <1>6
<1>10. l \in open' <=> irq_handlers'[l] # {} /\ irq_actids'[l] = {}
  BY <1>1, <1>2, <1>5, <1>6 DEF OpenIfIdle, IrqInv, LineOpen, IrqTypeOK
<1> QED BY <1>1, <1>3, <1>7, <1>8, <1>9, <1>10, OneLine

LEMMA RemoveKeeps ==
    ASSUME IrqInv, NEW h \in Hook, Registered(h), rm_irq_handler(h)
    PROVE  IrqInv'
<1> DEFINE l == LineOf[h]
           kept == {g \in irq_handlers[l] : id[g] # id[h]}
<1>1. l \in Line /\ h \in irq_handlers[l] /\ h \notin kept
  BY IrqAssumption DEF Registered
<1>2. /\ irq_handlers' = [irq_handlers EXCEPT ![l] = kept]
      /\ irq_actids' = [irq_actids EXCEPT ![l] = irq_actids[l] \ {id[h]}]
      /\ open' = IF kept = {} THEN open \ {l} ELSE OpenIfIdle(l, irq_actids[l] \ {id[h]})
      /\ id' = id
  BY <1>1 DEF rm_irq_handler
<1>3. IrqTypeOK'
  BY <1>1, <1>2 DEF IrqInv, IrqTypeOK, OpenIfIdle
<1>4. irq_handlers'[l] = kept /\ irq_actids'[l] = irq_actids[l] \ {id[h]}
  BY <1>1, <1>2 DEF IrqInv, IrqTypeOK
<1>5. irq_actids'[l] \subseteq {id'[g] : g \in irq_handlers'[l]}
  BY <1>1, <1>2, <1>4 DEF IrqInv, HooksApart
<1>6. OtherLines(l)
  BY <1>1, <1>2 DEF OtherLines, IrqInv, IrqTypeOK, OpenIfIdle
<1>7. \A f, g \in irq_handlers'[l] : id'[f] = id'[g] => f = g
  BY <1>1, <1>2, <1>4 DEF IrqInv, HooksApart
<1>8. l \in open' <=> irq_handlers'[l] # {} /\ irq_actids'[l] = {}
  BY <1>1, <1>2, <1>4, <1>5 DEF OpenIfIdle, IrqInv, LineOpen
<1> QED BY <1>1, <1>2, <1>3, <1>4, <1>5, <1>6, <1>7, <1>8, OneLine

LEMMA EnableKeeps ==
    ASSUME IrqInv, NEW h \in Hook, Registered(h), enable_irq(h)
    PROVE  IrqInv'
<1> DEFINE l == LineOf[h]
<1>1. l \in Line /\ h \in irq_handlers[l]
  BY IrqAssumption DEF Registered
<1>2. /\ irq_actids' = [irq_actids EXCEPT ![l] = irq_actids[l] \ {id[h]}]
      /\ open' = OpenIfIdle(l, irq_actids[l] \ {id[h]})
      /\ irq_handlers' = irq_handlers /\ id' = id
  BY DEF enable_irq
<1>3. IrqTypeOK'
  BY <1>1, <1>2 DEF IrqInv, IrqTypeOK, OpenIfIdle
<1>4. irq_actids'[l] = irq_actids[l] \ {id[h]}
  BY <1>1, <1>2 DEF IrqInv, IrqTypeOK
<1>5. OtherLines(l)
  BY <1>1, <1>2 DEF OtherLines, IrqInv, IrqTypeOK, OpenIfIdle
<1>6. /\ \A f, g \in irq_handlers'[l] : id'[f] = id'[g] => f = g
      /\ irq_actids'[l] \subseteq {id'[g] : g \in irq_handlers'[l]}
  BY <1>1, <1>2, <1>4 DEF IrqInv, HooksApart
<1>7. l \in open' <=> irq_handlers'[l] # {} /\ irq_actids'[l] = {}
  BY <1>1, <1>2, <1>4 DEF OpenIfIdle, IrqInv, LineOpen
<1> QED BY <1>1, <1>3, <1>5, <1>6, <1>7, OneLine

LEMMA DisableKeeps ==
    ASSUME IrqInv, NEW h \in Hook, Registered(h), disable_irq(h)
    PROVE  IrqInv'
<1> DEFINE l == LineOf[h]
<1>1. l \in Line /\ h \in irq_handlers[l] /\ id[h] \in Id \cup {0}
  BY IrqAssumption DEF Registered, IrqInv, IrqTypeOK
<1>2. CASE id[h] \in irq_actids[l]
  BY <1>2 DEF disable_irq, IrqInv, IrqTypeOK, HooksApart, LineOpen
<1>3. CASE id[h] \notin irq_actids[l]
  <2>1. /\ irq_actids' = [irq_actids EXCEPT ![l] = irq_actids[l] \cup {id[h]}]
        /\ open' = open \ {l}
        /\ irq_handlers' = irq_handlers /\ id' = id
    BY <1>3 DEF disable_irq
  <2>2. irq_actids'[l] = irq_actids[l] \cup {id[h]}
    BY <1>1, <2>1 DEF IrqInv, IrqTypeOK
  <2>3. IrqTypeOK'
    BY <1>1, <2>1 DEF IrqInv, IrqTypeOK
  <2>4. OtherLines(l)
    BY <1>1, <2>1 DEF OtherLines, IrqInv, IrqTypeOK
  <2>5. /\ \A f, g \in irq_handlers'[l] : id'[f] = id'[g] => f = g
        /\ irq_actids'[l] \subseteq {id'[g] : g \in irq_handlers'[l]}
    BY <1>1, <2>1, <2>2 DEF IrqInv, HooksApart
  <2>6. l \in open' <=> irq_handlers'[l] # {} /\ irq_actids'[l] = {}
    BY <1>1, <2>1, <2>2
  <2> QED BY <1>1, <2>3, <2>4, <2>5, <2>6, OneLine
<1> QED BY <1>2, <1>3

LEMMA HandleKeeps ==
    ASSUME IrqInv, NEW l \in Line, NEW done \in SUBSET irq_handlers[l], irq_handle(l, done)
    PROVE  IrqInv'
<1> DEFINE act == (irq_actids[l] \cup {id[h] : h \in irq_handlers[l]}) \ {id[h] : h \in done}
<1>1. /\ irq_actids' = [irq_actids EXCEPT ![l] = act]
      /\ open' = IF irq_handlers[l] # {} /\ act = {} THEN open \cup {l} ELSE open \ {l}
      /\ irq_handlers' = irq_handlers /\ id' = id
  BY DEF irq_handle
<1>2. act \subseteq {id[h] : h \in irq_handlers[l]}
  BY DEF IrqInv, HooksApart
<1>3. irq_actids'[l] = act
  BY <1>1 DEF IrqInv, IrqTypeOK
<1>4. OtherLines(l)
  BY <1>1 DEF OtherLines, IrqInv, IrqTypeOK
<1>5. /\ \A f, g \in irq_handlers'[l] : id'[f] = id'[g] => f = g
      /\ irq_actids'[l] \subseteq {id'[g] : g \in irq_handlers'[l]}
  BY <1>1, <1>2, <1>3 DEF IrqInv, HooksApart
<1>6. l \in open' <=> irq_handlers'[l] # {} /\ irq_actids'[l] = {}
  BY <1>1, <1>3
<1>7. IrqTypeOK'
  BY <1>1, <1>2 DEF IrqInv, IrqTypeOK
<1> QED BY <1>4, <1>5, <1>6, <1>7, OneLine

LEMMA NextKeeps == IrqInv /\ [IrqNext]_irq => IrqInv'
<1> SUFFICES ASSUME IrqInv, [IrqNext]_irq PROVE IrqInv'
  OBVIOUS
<1>1. ASSUME NEW h \in Hook, put_irq_handler(h) PROVE IrqInv'
  BY <1>1, PutKeeps
<1>2. ASSUME NEW h \in Hook, Registered(h), rm_irq_handler(h) PROVE IrqInv'
  BY <1>2, RemoveKeeps
<1>3. ASSUME NEW h \in Hook, Registered(h), enable_irq(h) PROVE IrqInv'
  BY <1>3, EnableKeeps
<1>4. ASSUME NEW h \in Hook, Registered(h), disable_irq(h) PROVE IrqInv'
  BY <1>4, DisableKeeps
<1>5. ASSUME NEW l \in open, NEW done \in SUBSET irq_handlers[l], irq_handle(l, done)
      PROVE IrqInv'
  <2>1. l \in Line
    BY DEF IrqInv, IrqTypeOK
  <2> QED BY <1>5, <2>1, HandleKeeps
<1>6. CASE UNCHANGED irq
  BY <1>6 DEF irq, IrqInv, IrqTypeOK, HooksApart, LineOpen
<1> QED BY <1>1, <1>2, <1>3, <1>4, <1>5, <1>6 DEF IrqNext

\* The invariant holds whenever hooks are only removed, enabled and disabled
\* while they are registered (interrupt.c).
THEOREM IrqInvariant == IrqSpec => []IrqInv
<1>1. IrqInit => IrqInv
  BY InitHolds
<1>2. IrqInv /\ [IrqNext]_irq => IrqInv'
  BY NextKeeps
<1> QED BY <1>1, <1>2, PTL DEF IrqSpec

\* A line is unmasked exactly while it has hooks and no active one, in whatever
\* order drivers register, enable, disable and leave (irq_handle's promise to
\* reopen the line "if and only if all active ID bits are cleared").
THEOREM LinesOpen == IrqSpec => []LineOpen
<1>1. IrqInv => LineOpen
  BY DEF IrqInv
<1> QED BY <1>1, IrqInvariant, PTL

-----------------------------------------------------------------------------
(* The hooks in the kernel.                                                *)

\* A driver remembers a hook it has disabled only while the hook is set.
OffRegistered == off \subseteq {h \in Hook : Registered(h)}

KInv == IrqInv /\ OffRegistered

\* A step of the kernel is a step of the hooks or leaves them alone.
LEMMA KStep == KInv /\ [KNext]_kvars => [IrqNext]_irq
<1> SUFFICES ASSUME KInv, [KNext]_kvars PROVE [IrqNext]_irq
  OBVIOUS
<1>1. CASE Scheduling
  BY <1>1 DEF Scheduling
<1>2. ASSUME NEW h \in Hook, Raise(h) PROVE UNCHANGED irq
  BY <1>2 DEF Raise
<1>3. ASSUME NEW h \in Hook, Serve(h) PROVE [IrqNext]_irq
  BY <1>3 DEF Serve, IrqNext
<1>4. ASSUME NEW h \in Hook, Hooks(h) PROVE [IrqNext]_irq
  <2>1. CASE SetHook(h)
    BY <2>1 DEF SetHook, IrqNext
  <2>2. CASE RemoveHook(h)
    BY <2>2 DEF RemoveHook, IrqNext
  <2>3. CASE DisableHook(h)
    BY <2>3 DEF DisableHook, IrqNext
  <2>4. CASE EnableHook(h)
    BY <2>4 DEF EnableHook, IrqNext, KInv, OffRegistered
  <2> QED BY <1>4, <2>1, <2>2, <2>3, <2>4 DEF Hooks
<1>5. ASSUME NEW l \in Line, Irq(l) PROVE IrqNext
  <2>1. l \in open /\ irq_handle(l, irq_handlers[l] \cap Reenable)
    BY <1>5 DEF Irq
  <2>2. irq_handlers[l] \cap Reenable \in SUBSET irq_handlers[l]
    OBVIOUS
  <2> QED BY <2>1, <2>2 DEF IrqNext
<1>6. CASE UNCHANGED kvars
  BY <1>6 DEF kvars
<1> QED BY <1>1, <1>2, <1>3, <1>4, <1>5, <1>6 DEF KNext

\* The hooks a step leaves registered.
LEMMA OffKept == KInv /\ [KNext]_kvars => OffRegistered'
<1> SUFFICES ASSUME KInv, [KNext]_kvars PROVE OffRegistered'
  OBVIOUS
<1> USE DEF OffRegistered, Registered
<1>1. CASE Scheduling
  BY <1>1 DEF Scheduling, KInv, irq, env
<1>2. ASSUME NEW h \in Hook, Raise(h) PROVE OffRegistered'
  BY <1>2 DEF Raise, KInv, irq
<1>3. ASSUME NEW h \in Hook, Serve(h) PROVE OffRegistered'
  BY <1>3 DEF Serve, KInv, irq, enable_irq
<1>4. ASSUME NEW h \in Hook, SetHook(h) PROVE OffRegistered'
  <2>1. off' = off /\ \A l \in Line : irq_handlers[l] \subseteq irq_handlers'[l]
    BY <1>4 DEF SetHook, put_irq_handler, env, KInv, IrqInv, IrqTypeOK
  <2> QED BY <2>1, IrqAssumption DEF KInv
<1>5. ASSUME NEW h \in Hook, RemoveHook(h) PROVE OffRegistered'
  <2>1. off' = off \ {h} /\ Registered(h)
    BY <1>5 DEF RemoveHook
  <2>2. ASSUME NEW g \in off', g \in Hook PROVE g \in irq_handlers'[LineOf[g]]
    <3>1. g # h /\ g \in irq_handlers[LineOf[g]] /\ LineOf[g] \in Line
      BY <2>1, <2>2, IrqAssumption DEF KInv
    <3>2. CASE LineOf[g] = LineOf[h]
      <4>1. id[g] # id[h]
        BY <2>1, <3>1, <3>2 DEF KInv, IrqInv, HooksApart
      <4> QED BY <1>5, <3>1, <3>2, <4>1 DEF RemoveHook, rm_irq_handler, KInv, IrqInv, IrqTypeOK
    <3>3. CASE LineOf[g] # LineOf[h]
      BY <1>5, <3>1, <3>3 DEF RemoveHook, rm_irq_handler, KInv, IrqInv, IrqTypeOK
    <3> QED BY <3>2, <3>3
  <2> QED BY <2>1, <2>2 DEF KInv
<1>6. ASSUME NEW h \in Hook, DisableHook(h) PROVE OffRegistered'
  BY <1>6 DEF DisableHook, disable_irq, KInv
<1>7. ASSUME NEW h \in Hook, EnableHook(h) PROVE OffRegistered'
  BY <1>7 DEF EnableHook, enable_irq, KInv
<1>8. ASSUME NEW l \in Line, Irq(l) PROVE OffRegistered'
  BY <1>8 DEF Irq, irq_handle, env, KInv
<1>9. CASE UNCHANGED kvars
  BY <1>9 DEF kvars, irq, KInv
<1> QED BY <1>1, <1>2, <1>3, <1>4, <1>5, <1>6, <1>7, <1>8, <1>9 DEF KNext, Hooks

\* In the kernel a line is unmasked exactly while it has hooks and no active
\* one: with any number of processes, drivers, hooks and lines, through
\* preemption, interrupts for busy drivers, and drivers that come and go.
THEOREM KernelLinesOpen == KSpec => []LineOpen
<1>1. KInit => KInv
  BY InitHolds DEF KInit, KInv, OffRegistered
<1>2. KInv /\ [KNext]_kvars => KInv'
  BY KStep, OffKept, NextKeeps DEF KInv
<1>3. KInv => LineOpen
  BY DEF KInv, IrqInv
<1> QED BY <1>1, <1>2, <1>3, PTL DEF KSpec

-----------------------------------------------------------------------------
(* The ready lists.  A list of the table is a sequence without repetition  *)
(* that starts at rdy_head and goes along p_nextready, with rdy_tail at    *)
(* its end; dequeue, enqueue and enqueue_head change it as they would a    *)
(* sequence.                                                               *)

\* The list that starts at rdy_head[q] is l.
Path(s, q, l) ==
    /\ l \in Seq(Proc) /\ IsInjective(l)
    /\ s.head[q] = IF l = <<>> THEN NULL ELSE l[1]
    /\ \A i \in 1 .. Len(l) : s.next[l[i]] = IF i = Len(l) THEN NULL ELSE l[i + 1]

\* A list without repetition is no longer than the table.
LEMMA ShortLists ==
    ASSUME NEW l \in Seq(Proc), IsInjective(l)
    PROVE  /\ Len(l) \in Nat /\ DOMAIN l = 1 .. Len(l)
           /\ Len(l) <= Cardinality(Proc) /\ Cardinality(Proc) \in Nat
           /\ Len(l) = Cardinality(ToSet(l))
BY SchedAssumption, ShortSeq

\* What the walk along a list meets.
LEMMA Walked ==
    ASSUME NEW s, NEW q, NEW l, Path(s, q, l)
    PROVE  ReadyList(s, q) = l
<1> DEFINE N == Cardinality(Proc)
           Met(f) == f = [i \in 0 .. N |->
                              IF i = 0 THEN s.head[q]
                              ELSE IF f[i - 1] = NULL THEN NULL ELSE s.next[f[i - 1]]]
           met == CHOOSE f : Met(f)
           seen == [i \in 0 .. N |-> IF i < Len(l) THEN l[i + 1] ELSE NULL]
<1>0. l \in Seq(Proc) /\ IsInjective(l)
  BY DEF Path
<1>1. /\ Len(l) \in Nat /\ DOMAIN l = 1 .. Len(l) /\ Len(l) <= N /\ N \in Nat
      /\ \A i \in 1 .. Len(l) : l[i] \in Proc /\ l[i] # NULL
  BY <1>0, ShortLists, ElementOfSeq, SchedAssumption
<1>2. Met(seen)
  <2>1. ASSUME NEW i \in 0 .. N
        PROVE  seen[i] = IF i = 0 THEN s.head[q]
                         ELSE IF seen[i - 1] = NULL THEN NULL ELSE s.next[seen[i - 1]]
    <3>1. CASE i = 0
      <4>1. l = <<>> <=> Len(l) = 0
        BY <1>0, EmptySeq
      <4>2. seen[0] = IF Len(l) = 0 THEN NULL ELSE l[1]
        BY <1>1
      <4> QED BY <3>1, <4>1, <4>2 DEF Path
    <3>2. CASE i # 0
      <4>1. i - 1 \in 0 .. N /\ (i - 1) + 1 = i
        BY <3>2, <1>1
      <4>2. CASE i <= Len(l)
        <5>1. seen[i - 1] = l[i] /\ l[i] # NULL /\ i \in 1 .. Len(l)
          BY <1>1, <3>2, <4>1, <4>2
        <5>2. s.next[l[i]] = IF i = Len(l) THEN NULL ELSE l[i + 1]
          BY <5>1 DEF Path
        <5>3. seen[i] = IF i = Len(l) THEN NULL ELSE l[i + 1]
          <6>1. Len(l) \in Int /\ i \in Int
            BY <1>1
          <6>2. i < Len(l) <=> ~(i = Len(l))
            BY <6>1, <4>2
          <6> QED BY <6>2
        <5> QED BY <3>2, <5>1, <5>2, <5>3
      <4>3. CASE ~(i <= Len(l))
        <5>1. seen[i - 1] = NULL /\ seen[i] = NULL
          BY <1>1, <4>1, <4>3
        <5> QED BY <3>2, <5>1
      <4> QED BY <4>2, <4>3
    <3> QED BY <3>1, <3>2
  <2> QED BY <2>1
<1>3. ASSUME NEW f, Met(f) PROVE f = seen
  <2>1. DOMAIN f = 0 .. N /\ f = [i \in 0 .. N |-> f[i]]
    BY <1>3
  <2> DEFINE Bad == {i \in 0 .. N : f[i] # seen[i]}
  <2>2. SUFFICES ASSUME Bad # {} PROVE FALSE
    BY <2>1
  <2>3. Bad \in SUBSET Nat
    OBVIOUS
  <2>4. PICK i \in Bad : \A j \in Bad : i <= j
    <3> HIDE DEF Bad
    <3> QED BY <2>2, <2>3, LeastNat
  <2>5. i # 0 => i - 1 \in 0 .. N /\ i - 1 \notin Bad
    BY <1>1, <2>4
  <2>6. f[i] = IF i = 0 THEN s.head[q] ELSE IF f[i - 1] = NULL THEN NULL ELSE s.next[f[i - 1]]
    BY <1>3, <2>4
  <2>7. seen[i] = IF i = 0 THEN s.head[q]
                  ELSE IF seen[i - 1] = NULL THEN NULL ELSE s.next[seen[i - 1]]
    <3> HIDE DEF seen
    <3> QED BY <1>2, <2>4
  <2> HIDE DEF seen
  <2> QED BY <2>4, <2>5, <2>6, <2>7
<1>4. met = seen
  <2> HIDE DEF seen, Met
  <2> QED BY <1>2, <1>3
<1>5. ReadyList(s, q) = [i \in {j \in 1 .. N + 1 : met[j - 1] # NULL} |-> met[i - 1]]
  BY DEF ReadyList
<1>6. {j \in 1 .. N + 1 : seen[j - 1] # NULL} = 1 .. Len(l)
  <2>1. ASSUME NEW j \in 1 .. N + 1 PROVE seen[j - 1] # NULL <=> j <= Len(l)
    <3>1. j - 1 \in 0 .. N /\ (j - 1) + 1 = j
      BY <1>1
    <3>2. seen[j - 1] = IF j - 1 < Len(l) THEN l[j] ELSE NULL
      BY <3>1
    <3>3. j - 1 < Len(l) <=> j <= Len(l)
      BY <1>1
    <3>4. j <= Len(l) => l[j] # NULL
      BY <1>1
    <3> QED BY <3>2, <3>3, <3>4
  <2> HIDE DEF seen
  <2> QED BY <1>1, <2>1
<1>7. \A i \in 1 .. Len(l) : seen[i - 1] = l[i]
  BY <1>1
<1> HIDE DEF met, seen, N
<1>8. ReadyList(s, q) = [i \in 1 .. Len(l) |-> l[i]]
  BY <1>4, <1>5, <1>6, <1>7
<1> QED BY <1>0, <1>1, <1>8

Flag == {"SENDING", "RECEIVING", "STOPPED", "PREEMPTED", "NO_QUANTUM"}
Kind == {"CALL", "NO_QUANTUM", "HARDWARE"}
Message == [from : Proc \cup {IDLE}, type : Kind, arg : SUBSET Bit]

\* The type of the process table.
Table ==
    [rts : [Proc -> SUBSET Flag], prio : [Proc -> Queue], left : [Proc -> Nat],
     cur : Proc \cup {IDLE},
     head : [Queue -> Proc \cup {NULL}], tail : [Queue -> Proc \cup {NULL}],
     next : [Proc -> Proc \cup {NULL}],
     callers : [Proc -> Seq(Proc)], sendmsg : [Proc -> Kind],
     getfrom : [Proc -> Proc \cup {NULL, ANY}], got : [Proc -> Message],
     int : [Proc -> SUBSET Bit], notified : SUBSET Proc, defer : SUBSET Proc]

\* The list l has the members of R with priority q, and its tail is right.
OnQueue(s, q, l, R) ==
    /\ Path(s, q, l)
    /\ Range(l) = {p \in R : s.prio[p] = q}
    /\ l # <<>> => s.tail[q] = l[Len(l)]

\* The ready lists have the processes R.
Listed(s, R) == \A q \in Queue : \E l : OnQueue(s, q, l, R)

\* All but the lists is the same.
Kept(s, t) ==
    /\ t.prio = s.prio /\ t.left = s.left /\ t.cur = s.cur /\ t.callers = s.callers
    /\ t.sendmsg = s.sendmsg /\ t.getfrom = s.getfrom /\ t.got = s.got /\ t.int = s.int
    /\ t.notified = s.notified /\ t.defer = s.defer

\* A queue that a change of another one leaves alone.
LEMMA OtherQueue ==
    ASSUME NEW s, NEW t, NEW q, NEW l, NEW R, NEW R2, OnQueue(s, q, l, R),
           t.head[q] = s.head[q], t.tail[q] = s.tail[q],
           \A x \in Range(l) : t.next[x] = s.next[x],
           {x \in R2 : t.prio[x] = q} = {x \in R : s.prio[x] = q}
    PROVE  OnQueue(t, q, l, R2)
<1>1. \A i \in 1 .. Len(l) : l[i] \in Range(l)
  BY LenProperties DEF Range, OnQueue, Path
<1> QED BY <1>1 DEF OnQueue, Path

\* A process is taken off its queue.
LEMMA CutQueue ==
    ASSUME NEW s, NEW t, NEW q, NEW l, NEW R, OnQueue(s, q, l, R), R \subseteq Proc,
           NEW i \in DOMAIN l,
           t.head[q] = IF i = 1 THEN s.next[l[i]] ELSE s.head[q],
           t.tail[q] = IF s.tail[q] = l[i] THEN IF i = 1 THEN NULL ELSE l[i - 1] ELSE s.tail[q],
           \A x \in Range(l) \ {l[i]} :
               t.next[x] = IF i # 1 /\ x = l[i - 1] THEN s.next[l[i]] ELSE s.next[x],
           \A x \in R : t.prio[x] = s.prio[x]
    PROVE  OnQueue(t, q, RemoveAt(l, i), R \ {l[i]})
<1> DEFINE m == RemoveAt(l, i)
<1>1. /\ l \in Seq(Proc) /\ IsInjective(l) /\ Len(l) \in Nat /\ DOMAIN l = 1 .. Len(l)
      /\ i \in 1 .. Len(l) /\ \A j \in 1 .. Len(l) : l[j] \in Range(l)
  BY LenProperties DEF OnQueue, Path, Range
<1>2. /\ m \in Seq(Proc) /\ Len(m) = Len(l) - 1 /\ DOMAIN m = 1 .. Len(l) - 1
      /\ \A j \in 1 .. Len(l) - 1 : m[j] = IF j < i THEN l[j] ELSE l[j + 1]
  <2>1. /\ m \in Seq(Proc) /\ Len(m) = Len(l) - 1
        /\ \A j \in 1 .. Len(l) - 1 : m[j] = IF j < i THEN l[j] ELSE l[j + 1]
    BY <1>1, RemoveAtFacts
  <2> HIDE DEF m
  <2> QED BY <2>1, LenProperties
<1>3. \A j, n \in 1 .. Len(l) : l[j] = l[n] => j = n
  BY <1>1 DEF IsInjective
<1>4. IsInjective(m) /\ Range(m) = Range(l) \ {l[i]}
  <2>1. /\ \A j, n \in DOMAIN m : m[j] = m[n] => j = n
        /\ \A x : (\E j \in DOMAIN m : m[j] = x) <=> x # l[i] /\ \E j \in DOMAIN l : l[j] = x
    BY <1>1, LeaveQueue DEF IsInjective
  <2> QED BY <2>1 DEF IsInjective, Range
<1>5. Range(m) = {x \in R \ {l[i]} : t.prio[x] = q}
  BY <1>4 DEF OnQueue
<1>6. \A j \in 1 .. Len(l) : s.next[l[j]] = IF j = Len(l) THEN NULL ELSE l[j + 1]
  BY DEF OnQueue, Path
<1>7. s.head[q] = l[1] /\ s.tail[q] = l[Len(l)]
  <2>1. l # <<>>
    BY <1>1, EmptySeq
  <2> QED BY <2>1 DEF OnQueue, Path
<1>8. m = <<>> <=> Len(l) = 1
  BY <1>1, <1>2, EmptySeq
<1> HIDE DEF m
<1>9. t.head[q] = IF m = <<>> THEN NULL ELSE m[1]
  <2>1. CASE i = 1
    <3>1. t.head[q] = IF Len(l) = 1 THEN NULL ELSE l[2]
      <4>1. 1 \in 1 .. Len(l) /\ 1 + 1 = 2
        BY <1>1, <2>1
      <4>2. s.next[l[1]] = IF 1 = Len(l) THEN NULL ELSE l[2]
        BY <1>6, <4>1
      <4> QED BY <2>1, <4>2
    <3>2. Len(l) # 1 => m[1] = l[2]
      BY <1>1, <1>2, <2>1
    <3> QED BY <3>1, <3>2, <1>8
  <2>2. CASE i # 1
    <3>1. Len(l) # 1 /\ m[1] = l[1]
      BY <1>1, <1>2, <2>2
    <3> QED BY <3>1, <1>7, <1>8, <2>2
  <2> QED BY <2>1, <2>2
<1>10. m # <<>> => t.tail[q] = m[Len(m)]
  <2> SUFFICES ASSUME Len(l) # 1 PROVE t.tail[q] = m[Len(l) - 1]
    BY <1>2, <1>8
  <2>1. Len(l) - 1 \in 1 .. Len(l) - 1 /\ (Len(l) - 1) + 1 = Len(l) /\ Len(l) \in 1 .. Len(l)
    BY <1>1
  <2>2. CASE i = Len(l)
    <3>1. i # 1 /\ Len(l) - 1 < i /\ i - 1 = Len(l) - 1
      BY <2>2, <1>1
    <3> QED BY <1>2, <1>7, <2>1, <2>2, <3>1
  <2>3. CASE i # Len(l)
    <3>1. l[i] # l[Len(l)] /\ ~(Len(l) - 1 < i)
      BY <1>1, <1>3, <2>1, <2>3
    <3> QED BY <1>2, <1>7, <2>1, <3>1
  <2> QED BY <2>2, <2>3
<1>11. ASSUME NEW j \in 1 .. Len(m)
       PROVE  t.next[m[j]] = IF j = Len(m) THEN NULL ELSE m[j + 1]
  <2> DEFINE c == IF j < i THEN j ELSE j + 1
  <2>1. /\ j \in Int /\ i \in Int /\ Len(l) \in Int /\ 1 <= j /\ j <= Len(l) - 1
        /\ 1 <= i /\ i <= Len(l)
    BY <1>1, <1>2
  <2>2. /\ c \in 1 .. Len(l) /\ c # i /\ m[j] = l[c] /\ l[c] # l[i] /\ l[c] \in Range(l)
    <3>1. c \in 1 .. Len(l) /\ c # i
      BY <2>1
    <3>2. m[j] = l[c]
      BY <1>2
    <3> QED BY <3>1, <3>2, <1>1, <1>3
  <2>3. CASE c = i - 1
    <3>1. i # 1 /\ j = i - 1 /\ l[c] = l[i - 1]
      BY <2>1, <2>2, <2>3
    <3>2. t.next[l[c]] = s.next[l[i]]
      BY <2>2, <3>1
    <3>3. s.next[l[i]] = IF i = Len(l) THEN NULL ELSE l[i + 1]
      BY <1>1, <1>6
    <3>4. j = Len(m) <=> i = Len(l)
      BY <1>2, <2>1, <3>1
    <3>5. i # Len(l) => m[j + 1] = l[i + 1]
      <4>1. i # Len(l) => j + 1 \in 1 .. Len(l) - 1 /\ ~(j + 1 < i) /\ (j + 1) + 1 = i + 1
        BY <2>1, <3>1
      <4> QED BY <4>1, <1>2
    <3> QED BY <2>2, <3>2, <3>3, <3>4, <3>5
  <2>4. CASE c # i - 1
    <3>1. i # 1 => i - 1 \in 1 .. Len(l) /\ l[c] # l[i - 1]
      <4>1. i # 1 => i - 1 \in 1 .. Len(l)
        BY <2>1
      <4> QED BY <4>1, <2>2, <2>4, <1>3
    <3>2. t.next[l[c]] = s.next[l[c]]
      BY <2>2, <3>1
    <3>3. s.next[l[c]] = IF c = Len(l) THEN NULL ELSE l[c + 1]
      BY <2>2, <1>6
    <3>4. j = Len(m) <=> c = Len(l)
      BY <1>2, <2>1, <2>4
    <3>5. c # Len(l) => m[j + 1] = l[c + 1]
      <4>1. c # Len(l) => /\ j + 1 \in 1 .. Len(l) - 1
                          /\ c + 1 = IF j + 1 < i THEN j + 1 ELSE (j + 1) + 1
        BY <2>1, <2>4
      <4> QED BY <4>1, <1>2
    <3> QED BY <2>2, <3>2, <3>3, <3>4, <3>5
  <2> QED BY <2>3, <2>4
<1> QED BY <1>2, <1>4, <1>5, <1>9, <1>10, <1>11 DEF OnQueue, Path, m

\* A process is put at the end of a queue.
LEMMA JoinTail ==
    ASSUME NEW s, NEW t, NEW q, NEW l, NEW R, OnQueue(s, q, l, R), NEW p \in Proc, p \notin R,
           t.head[q] = IF l = <<>> THEN p ELSE s.head[q],
           t.tail[q] = p, t.next[p] = NULL,
           l # <<>> => t.next[l[Len(l)]] = p,
           \A x \in Range(l) : l # <<>> /\ x # l[Len(l)] => t.next[x] = s.next[x],
           \A x \in R : t.prio[x] = s.prio[x],
           t.prio[p] = q
    PROVE  OnQueue(t, q, Append(l, p), R \cup {p})
<1> DEFINE m == Append(l, p)
<1>1. /\ l \in Seq(Proc) /\ IsInjective(l) /\ Len(l) \in Nat /\ DOMAIN l = 1 .. Len(l)
      /\ \A j \in 1 .. Len(l) : l[j] \in Range(l)
  BY LenProperties DEF OnQueue, Path, Range
<1>2. /\ m \in Seq(Proc) /\ Len(m) = Len(l) + 1
      /\ \A j \in 1 .. Len(l) : m[j] = l[j]
      /\ m[Len(l) + 1] = p
  BY <1>1, AppendFacts
<1>3. Range(l) = {x \in R : s.prio[x] = q}
  BY DEF OnQueue
<1>4. IsInjective(m) /\ Range(m) = {x \in R \cup {p} : t.prio[x] = q}
  <2>1. Range(m) = Range(l) \cup {p} /\ IsInjective(m)
    BY <1>1, <1>3, AppendRange
  <2> QED BY <2>1, <1>3
<1> HIDE DEF m
<1>5. m # <<>>
  BY <1>1, <1>2, EmptySeq
<1>6. l = <<>> <=> Len(l) = 0
  BY <1>1, EmptySeq
<1>7. t.head[q] = m[1]
  <2>1. CASE l = <<>>
    <3>1. Len(l) + 1 = 1
      BY <1>6, <2>1
    <3> QED BY <1>2, <2>1, <3>1
  <2>2. CASE l # <<>>
    <3>1. m[1] = l[1]
      <4>1. 1 \in 1 .. Len(l)
        BY <1>1, <1>6, <2>2
      <4> QED BY <4>1, <1>2
    <3> QED BY <2>2, <3>1 DEF OnQueue, Path
  <2> QED BY <2>1, <2>2
<1>8. t.tail[q] = m[Len(m)]
  BY <1>2
<1>9. ASSUME NEW j \in 1 .. Len(m)
      PROVE  t.next[m[j]] = IF j = Len(m) THEN NULL ELSE m[j + 1]
  <2>1. CASE j = Len(m)
    BY <1>2, <2>1
  <2>2. CASE j # Len(m)
    <3>1. j \in 1 .. Len(l) /\ m[j] = l[j] /\ l # <<>> /\ l[j] \in Range(l)
      BY <1>1, <1>2, <1>6, <2>2
    <3>2. CASE j = Len(l)
      BY <1>2, <2>2, <3>1, <3>2
    <3>3. CASE j # Len(l)
      <4>1. l[j] # l[Len(l)]
        BY <1>1, <1>6, <3>1, <3>3 DEF IsInjective
      <4>2. t.next[l[j]] = l[j + 1]
        BY <3>1, <3>3, <4>1 DEF OnQueue, Path
      <4>3. j + 1 \in 1 .. Len(l)
        <5>1. j \in 1 .. Len(l) /\ Len(l) \in Int
          BY <1>1, <3>1
        <5> QED BY <5>1, <3>3
      <4> QED BY <1>2, <2>2, <3>1, <4>2, <4>3
    <3> QED BY <3>2, <3>3
  <2> QED BY <2>1, <2>2
<1> QED BY <1>2, <1>4, <1>5, <1>7, <1>8, <1>9 DEF OnQueue, Path, m

\* A process is put at the head of a queue.
Headed(s, t, q, l, R, p) ==
    /\ p \notin R /\ t.prio[p] = q
    /\ t.head[q] = p /\ t.next[p] = s.head[q]
    /\ t.tail[q] = IF l = <<>> THEN p ELSE s.tail[q]
    /\ \A x \in Range(l) : t.next[x] = s.next[x]
    /\ \A x \in R : t.prio[x] = s.prio[x]

LEMMA JoinHead ==
    ASSUME NEW s, NEW t, NEW q, NEW l, NEW R, OnQueue(s, q, l, R), NEW p \in Proc,
           Headed(s, t, q, l, R, p)
    PROVE  \E m : OnQueue(t, q, m, R \cup {p})
<1>0. /\ p \notin R /\ t.prio[p] = q
      /\ t.head[q] = p /\ t.next[p] = s.head[q]
      /\ t.tail[q] = IF l = <<>> THEN p ELSE s.tail[q]
      /\ \A x \in Range(l) : t.next[x] = s.next[x]
      /\ \A x \in R : t.prio[x] = s.prio[x]
  BY DEF Headed
<1> DEFINE m == InsertAt(l, 1, p)
<1>1. /\ l \in Seq(Proc) /\ IsInjective(l) /\ Len(l) \in Nat /\ DOMAIN l = 1 .. Len(l)
      /\ \A j \in 1 .. Len(l) : l[j] \in Range(l)
  BY LenProperties DEF OnQueue, Path, Range
<1>2. /\ m \in Seq(Proc) /\ Len(m) = Len(l) + 1
      /\ \A j \in 1 .. Len(l) + 1 :
             m[j] = IF j < 1 THEN l[j] ELSE IF j = 1 THEN p ELSE l[j - 1]
  <2>1. 1 \in 1 .. Len(l) + 1
    BY <1>1
  <2> QED BY <1>1, <2>1, InsertAtFacts
<1> HIDE DEF m
<1>3. DOMAIN m = 1 .. Len(l) + 1 /\ m[1] = p
  BY <1>1, <1>2, LenProperties
<1>4. \A j \in 1 .. Len(l) : m[j + 1] = l[j]
  <2> SUFFICES ASSUME NEW j \in 1 .. Len(l) PROVE m[j + 1] = l[j]
    OBVIOUS
  <2>1. j + 1 \in 1 .. Len(l) + 1 /\ (j + 1) - 1 = j /\ ~(j + 1 < 1) /\ j + 1 # 1
    BY <1>1
  <2> QED BY <1>2, <2>1
<1>5. \A j \in 1 .. Len(l) + 1 : j = 1 \/ \E n \in 1 .. Len(l) : j = n + 1
  <2> SUFFICES ASSUME NEW j \in 1 .. Len(l) + 1, j # 1
               PROVE  \E n \in 1 .. Len(l) : j = n + 1
    OBVIOUS
  <2>1. j - 1 \in 1 .. Len(l) /\ j = (j - 1) + 1
    BY <1>1
  <2> QED BY <2>1
<1>6. Range(l) = {x \in R : s.prio[x] = q} /\ p \notin Range(l)
  BY <1>0 DEF OnQueue
<1>7. Range(m) = Range(l) \cup {p}
  <2>1. ASSUME NEW x \in Range(m) PROVE x \in Range(l) \cup {p}
    BY <1>1, <1>3, <1>4, <1>5 DEF Range
  <2>2. ASSUME NEW x \in Range(l) PROVE x \in Range(m)
    <3>1. PICK j \in 1 .. Len(l) : x = l[j]
      BY <1>1 DEF Range
    <3>2. j + 1 \in DOMAIN m /\ m[j + 1] = x
      BY <1>1, <1>3, <1>4, <3>1
    <3> QED BY <3>2 DEF Range
  <2>3. p \in Range(m)
    <3>1. 1 \in DOMAIN m
      BY <1>1, <1>3
    <3> QED BY <1>3, <3>1 DEF Range
  <2> QED BY <2>1, <2>2, <2>3
<1>8. IsInjective(m)
  <2> SUFFICES ASSUME NEW j \in 1 .. Len(l) + 1, NEW n \in 1 .. Len(l) + 1, m[j] = m[n]
               PROVE  j = n
    BY <1>3 DEF IsInjective
  <2>1. \A a, b \in 1 .. Len(l) : l[a] = l[b] => a = b
    BY <1>1 DEF IsInjective
  <2>2. \A a \in 1 .. Len(l) : m[a + 1] # p
    BY <1>1, <1>4, <1>6
  <2> QED BY <1>3, <1>4, <1>5, <2>1, <2>2
<1>9. m # <<>>
  BY <1>1, <1>2, EmptySeq
<1>10. l = <<>> <=> Len(l) = 0
  BY <1>1, EmptySeq
<1>11. t.tail[q] = m[Len(m)]
  <2>1. CASE l = <<>>
    BY <1>0, <1>2, <1>3, <1>10, <2>1
  <2>2. CASE l # <<>>
    <3>1. Len(l) \in 1 .. Len(l)
      BY <1>1, <1>10, <2>2
    <3>2. m[Len(m)] = l[Len(l)]
      BY <1>2, <1>4, <3>1
    <3> QED BY <1>0, <2>2, <3>2 DEF OnQueue
  <2> QED BY <2>1, <2>2
<1>12. s.head[q] = IF l = <<>> THEN NULL ELSE l[1]
  BY DEF OnQueue, Path
<1>13. ASSUME NEW j \in 1 .. Len(m)
       PROVE  t.next[m[j]] = IF j = Len(m) THEN NULL ELSE m[j + 1]
  <2>1. CASE j = 1
    <3>1. CASE l = <<>>
      BY <1>0, <1>2, <1>3, <1>10, <1>12, <2>1, <3>1
    <3>2. CASE l # <<>>
      <4>1. 1 \in 1 .. Len(l) /\ 1 # Len(l) + 1
        BY <1>1, <1>10, <3>2
      <4> QED BY <1>0, <1>2, <1>3, <1>4, <1>12, <2>1, <3>2, <4>1
    <3> QED BY <3>1, <3>2
  <2>2. CASE j # 1
    <3>1. PICK n \in 1 .. Len(l) : j = n + 1
      BY <1>2, <1>5, <2>2
    <3>2. m[j] = l[n] /\ l[n] \in Range(l)
      BY <1>1, <1>4, <3>1
    <3>3. t.next[l[n]] = IF n = Len(l) THEN NULL ELSE l[n + 1]
      BY <1>0, <3>2 DEF OnQueue, Path
    <3>4. n \in Int /\ Len(l) \in Int
      BY <1>1
    <3>5. j = Len(m) <=> n = Len(l)
      BY <1>2, <3>1, <3>4
    <3>6. n # Len(l) => m[j + 1] = l[n + 1]
      <4>1. n # Len(l) => n + 1 \in 1 .. Len(l)
        BY <3>4
      <4> QED BY <1>4, <3>1, <4>1
    <3> QED BY <3>2, <3>3, <3>5, <3>6
  <2> QED BY <2>1, <2>2
<1>14. Range(m) = {x \in R \cup {p} : t.prio[x] = q}
  BY <1>0, <1>6, <1>7
<1>15. OnQueue(t, q, m, R \cup {p})
  BY <1>0, <1>2, <1>3, <1>8, <1>9, <1>11, <1>13, <1>14 DEF OnQueue, Path
<1> QED BY <1>15

\* The fields of the table.
LEMMA Fields ==
    ASSUME NEW s \in Table
    PROVE  /\ s.rts \in [Proc -> SUBSET Flag] /\ s.prio \in [Proc -> Queue]
           /\ s.left \in [Proc -> Nat] /\ s.cur \in Proc \cup {IDLE}
           /\ s.head \in [Queue -> Proc \cup {NULL}] /\ s.tail \in [Queue -> Proc \cup {NULL}]
           /\ s.next \in [Proc -> Proc \cup {NULL}]
           /\ s.callers \in [Proc -> Seq(Proc)] /\ s.sendmsg \in [Proc -> Kind]
           /\ s.getfrom \in [Proc -> Proc \cup {NULL, ANY}] /\ s.got \in [Proc -> Message]
           /\ s.int \in [Proc -> SUBSET Bit] /\ s.notified \in SUBSET Proc
           /\ s.defer \in SUBSET Proc
BY DEF Table

\* New lists in a table.
Relink(s, head, tail, next) == [s EXCEPT !.head = head, !.tail = tail, !.next = next]

LEMMA Relinked ==
    ASSUME NEW s \in Table, NEW head \in [Queue -> Proc \cup {NULL}],
           NEW tail \in [Queue -> Proc \cup {NULL}], NEW next \in [Proc -> Proc \cup {NULL}],
           NEW t, t = Relink(s, head, tail, next)
    PROVE  /\ t \in Table /\ Kept(s, t) /\ t.rts = s.rts
           /\ t.head = head /\ t.tail = tail /\ t.next = next
BY DEF Table, Kept, Relink

\* The two parts of enqueue: to the end of the list, and what enqueue_head does.
AtTail(s, p) ==
    LET q == s.prio[p]
    IN  IF s.head[q] = NULL
        THEN [s EXCEPT !.head[q] = p, !.tail[q] = p, !.next[p] = NULL]
        ELSE [s EXCEPT !.next = [@ EXCEPT ![s.tail[q]] = p, ![p] = NULL], !.tail[q] = p]

LEMMA Members ==
    ASSUME NEW s, NEW q, NEW l, NEW R, OnQueue(s, q, l, R), R \subseteq Proc
    PROVE  /\ l \in Seq(Proc) /\ Len(l) \in Nat /\ DOMAIN l = 1 .. Len(l)
           /\ Range(l) = {x \in R : s.prio[x] = q} /\ Range(l) \subseteq Proc
           /\ \A i \in 1 .. Len(l) : l[i] \in Range(l)
           /\ s.head[q] = NULL <=> l = <<>>
           /\ l # <<>> => /\ Len(l) \in 1 .. Len(l) /\ 1 \in 1 .. Len(l)
                          /\ s.head[q] = l[1] /\ s.tail[q] = l[Len(l)]
<1>1. /\ l \in Seq(Proc) /\ Len(l) \in Nat /\ DOMAIN l = 1 .. Len(l)
      /\ Range(l) = {x \in R : s.prio[x] = q} /\ Range(l) \subseteq Proc
      /\ \A i \in 1 .. Len(l) : l[i] \in Range(l)
      /\ l # <<>> => s.tail[q] = l[Len(l)]
  BY LenProperties DEF OnQueue, Path, Range
<1>2. l # <<>> => Len(l) \in 1 .. Len(l) /\ 1 \in 1 .. Len(l)
  BY <1>1, EmptySeq
<1>3. s.head[q] = IF l = <<>> THEN NULL ELSE l[1]
  BY DEF OnQueue, Path
<1>4. l # <<>> => l[1] # NULL
  BY <1>1, <1>2, SchedAssumption
<1> QED BY <1>1, <1>2, <1>3, <1>4

LEMMA AtTailFacts ==
    ASSUME NEW s \in Table, NEW R \in SUBSET Proc, Listed(s, R), NEW p \in Proc, p \notin R,
           NEW t, t = AtTail(s, p)
    PROVE  /\ t \in Table /\ Kept(s, t) /\ t.rts = s.rts /\ Listed(t, R \cup {p})
           /\ \A q \in Queue : s.head[q] # NULL \/ q # s.prio[p] => t.head[q] = s.head[q]
<1> DEFINE q == s.prio[p]
<1>1. q \in Queue
  BY Fields
<1>2. PICK l : OnQueue(s, q, l, R)
  BY <1>1 DEF Listed
<1>3. /\ s.head[q] = NULL <=> l = <<>>
      /\ l # <<>> => s.tail[q] = l[Len(l)] /\ s.tail[q] \in Range(l)
      /\ Range(l) = {x \in R : s.prio[x] = q} /\ Range(l) \subseteq Proc
  BY <1>2, Members
<1>4. /\ t \in Table /\ Kept(s, t) /\ t.rts = s.rts
      /\ t.head = IF l = <<>> THEN [s.head EXCEPT ![q] = p] ELSE s.head
      /\ t.tail = [s.tail EXCEPT ![q] = p]
      /\ t.next = IF l = <<>> THEN [s.next EXCEPT ![p] = NULL]
                  ELSE [s.next EXCEPT ![s.tail[q]] = p, ![p] = NULL]
  <2> DEFINE head == IF l = <<>> THEN [s.head EXCEPT ![q] = p] ELSE s.head
             tail == [s.tail EXCEPT ![q] = p]
             next == IF l = <<>> THEN [s.next EXCEPT ![p] = NULL]
                     ELSE [s.next EXCEPT ![s.tail[q]] = p, ![p] = NULL]
  <2>1. /\ head \in [Queue -> Proc \cup {NULL}] /\ tail \in [Queue -> Proc \cup {NULL}]
        /\ next \in [Proc -> Proc \cup {NULL}]
    BY <1>1, Fields
  <2>2. t = Relink(s, head, tail, next)
    <3>1. CASE l = <<>>
      BY <1>1, <1>3, <3>1 DEF AtTail, Table, Relink
    <3>2. CASE l # <<>>
      <4>1. t = [s EXCEPT !.next = [s.next EXCEPT ![s.tail[q]] = p, ![p] = NULL],
                          !.tail = [s.tail EXCEPT ![q] = p]]
        BY <1>1, <1>3, <3>2 DEF AtTail, Table
      <4> QED BY <4>1, <3>2 DEF Table, Relink
    <3> QED BY <3>1, <3>2
  <2> HIDE DEF head, tail, next, q
  <2>3. /\ t \in Table /\ Kept(s, t) /\ t.rts = s.rts
        /\ t.head = head /\ t.tail = tail /\ t.next = next
    BY <2>1, <2>2, Relinked
  <2> QED BY <2>3 DEF head, tail, next
<1> HIDE DEF q
<1>5. \A r \in Queue : /\ t.tail[r] = IF r = q THEN p ELSE s.tail[r]
                       /\ t.head[r] = IF l = <<>> /\ r = q THEN p ELSE s.head[r]
  BY <1>1, <1>4, Fields
<1>6. \A x \in Proc : t.next[x] = IF x = p THEN NULL
                                  ELSE IF l # <<>> /\ x = s.tail[q] THEN p ELSE s.next[x]
  BY <1>1, <1>3, <1>4, Fields
<1>7. t.prio = s.prio
  BY <1>4 DEF Kept
<1>8. OnQueue(t, q, Append(l, p), R \cup {p})
  <2>1. p \notin Range(l) /\ t.prio[p] = q
    BY <1>3, <1>7 DEF q
  <2>2. l # <<>> => t.next[l[Len(l)]] = p
    BY <1>3, <1>6, <2>1
  <2>3. \A x \in Range(l) : l # <<>> /\ x # l[Len(l)] => t.next[x] = s.next[x]
    BY <1>3, <1>6, <2>1
  <2>4. /\ t.head[q] = IF l = <<>> THEN p ELSE s.head[q]
        /\ t.tail[q] = p /\ t.next[p] = NULL
        /\ \A x \in R : t.prio[x] = s.prio[x]
    BY <1>1, <1>5, <1>6, <1>7
  <2> QED BY <1>2, <2>1, <2>2, <2>3, <2>4, JoinTail
<1>9. ASSUME NEW r \in Queue, r # q PROVE \E m : OnQueue(t, r, m, R \cup {p})
  <2>1. PICK m : OnQueue(s, r, m, R)
    BY DEF Listed
  <2>2. Range(m) = {x \in R : s.prio[x] = r}
    BY <2>1, Members
  <2>3. \A x \in Range(m) : x \in Proc /\ x # p /\ (l # <<>> => x # s.tail[q])
    BY <1>3, <1>9, <2>2
  <2>4. {x \in R \cup {p} : t.prio[x] = r} = {x \in R : s.prio[x] = r}
    BY <1>7, <1>9 DEF q
  <2>5. \A x \in Range(m) : t.next[x] = s.next[x]
    BY <1>6, <2>3
  <2> QED BY <1>5, <1>9, <2>1, <2>4, <2>5, OtherQueue
<1>10. Listed(t, R \cup {p})
  BY <1>8, <1>9 DEF Listed
<1> QED BY <1>3, <1>4, <1>5, <1>10 DEF q

LEMMA AtHeadFacts ==
    ASSUME NEW s \in Table, NEW R \in SUBSET Proc, Listed(s, R), NEW p \in Proc, p \notin R,
           NEW t, t = enqueue_head(s, p)
    PROVE  t \in Table /\ Kept(s, t) /\ t.rts = s.rts /\ Listed(t, R \cup {p})
<1> DEFINE q == s.prio[p]
<1>1. q \in Queue
  BY Fields
<1>2. PICK l : OnQueue(s, q, l, R)
  BY <1>1 DEF Listed
<1>3. /\ s.head[q] = NULL <=> l = <<>>
      /\ Range(l) = {x \in R : s.prio[x] = q} /\ Range(l) \subseteq Proc
  BY <1>2, Members
<1>4. /\ t \in Table /\ Kept(s, t) /\ t.rts = s.rts
      /\ t.head = [s.head EXCEPT ![q] = p]
      /\ t.tail = IF l = <<>> THEN [s.tail EXCEPT ![q] = p] ELSE s.tail
      /\ t.next = [s.next EXCEPT ![p] = s.head[q]]
  <2> DEFINE head == [s.head EXCEPT ![q] = p]
             tail == IF l = <<>> THEN [s.tail EXCEPT ![q] = p] ELSE s.tail
             next == [s.next EXCEPT ![p] = s.head[q]]
  <2>1. /\ head \in [Queue -> Proc \cup {NULL}] /\ tail \in [Queue -> Proc \cup {NULL}]
        /\ next \in [Proc -> Proc \cup {NULL}]
    BY <1>1, Fields
  <2>2. t = Relink(s, head, tail, next)
    <3>1. CASE l = <<>>
      BY <1>1, <1>3, <3>1 DEF enqueue_head, Table, Relink
    <3>2. CASE l # <<>>
      <4>1. t = [s EXCEPT !.head = head, !.next = next]
        BY <1>1, <1>3, <3>2 DEF enqueue_head, Table
      <4> QED BY <4>1, <3>2 DEF Table, Relink
    <3> QED BY <3>1, <3>2
  <2> HIDE DEF head, tail, next, q
  <2>3. /\ t \in Table /\ Kept(s, t) /\ t.rts = s.rts
        /\ t.head = head /\ t.tail = tail /\ t.next = next
    BY <2>1, <2>2, Relinked
  <2> QED BY <2>3 DEF head, tail, next
<1> HIDE DEF q
<1>5. \A r \in Queue : /\ t.tail[r] = IF l = <<>> /\ r = q THEN p ELSE s.tail[r]
                       /\ t.head[r] = IF r = q THEN p ELSE s.head[r]
  BY <1>1, <1>4, Fields
<1>6. \A x \in Proc : t.next[x] = IF x = p THEN s.head[q] ELSE s.next[x]
  BY <1>1, <1>4, Fields
<1>7. t.prio = s.prio
  BY <1>4 DEF Kept
<1>8. \E m : OnQueue(t, q, m, R \cup {p})
  <2>1. p \notin Range(l) /\ t.prio[p] = q
    BY <1>3, <1>7 DEF q
  <2>2. \A x \in Range(l) : t.next[x] = s.next[x]
    BY <1>3, <1>6, <2>1
  <2>3. Headed(s, t, q, l, R, p)
    BY <1>1, <1>5, <1>6, <1>7, <2>1, <2>2 DEF Headed
  <2> QED BY <1>2, <2>3, JoinHead
<1>9. ASSUME NEW r \in Queue, r # q PROVE \E m : OnQueue(t, r, m, R \cup {p})
  <2>1. PICK m : OnQueue(s, r, m, R)
    BY DEF Listed
  <2>2. Range(m) = {x \in R : s.prio[x] = r}
    BY <2>1, Members
  <2>3. \A x \in Range(m) : t.next[x] = s.next[x]
    BY <1>6, <2>2
  <2>4. {x \in R \cup {p} : t.prio[x] = r} = {x \in R : s.prio[x] = r}
    BY <1>7, <1>9 DEF q
  <2> QED BY <1>5, <1>9, <2>1, <2>3, <2>4, OtherQueue
<1>10. Listed(t, R \cup {p})
  BY <1>8, <1>9 DEF Listed
<1> QED BY <1>4, <1>10

LEMMA DequeueFacts ==
    ASSUME NEW s \in Table, NEW R \in SUBSET Proc, Listed(s, R), NEW p \in Proc,
           NEW t, t = dequeue(s, p)
    PROVE  /\ t \in Table /\ Kept(s, t) /\ t.rts = s.rts /\ Listed(t, R \ {p})
           /\ \A q \in Queue : s.head[q] # p => t.head[q] = s.head[q]
<1> DEFINE q == s.prio[p]
<1>1. q \in Queue
  BY Fields
<1>2. PICK l : OnQueue(s, q, l, R)
  BY <1>1 DEF Listed
<1>3. /\ l \in Seq(Proc) /\ Len(l) \in Nat /\ DOMAIN l = 1 .. Len(l)
      /\ Range(l) = {x \in R : s.prio[x] = q} /\ Range(l) \subseteq Proc
      /\ \A i \in 1 .. Len(l) : l[i] \in Range(l)
      /\ l # <<>> => Len(l) \in 1 .. Len(l) /\ s.head[q] = l[1]
  BY <1>2, Members
<1>4. ReadyList(s, q) = l
  BY <1>2, Walked DEF OnQueue
<1>5. ToSet(l) = Range(l)
  BY DEF ToSet, Range
<1>6. CASE p \notin R
  <2>1. t = s
    BY <1>3, <1>4, <1>5, <1>6 DEF dequeue
  <2>2. R \ {p} = R
    BY <1>6
  <2> QED BY <2>1, <2>2 DEF Kept
<1>7. CASE p \in R
  <2>1. p \in Range(l)
    BY <1>3, <1>7
  <2> DEFINE i == CHOOSE n \in DOMAIN l : l[n] = p
  <2>2. i \in DOMAIN l /\ l[i] = p /\ i \in 1 .. Len(l) /\ l # <<>>
    <3>1. \E n \in DOMAIN l : l[n] = p
      BY <2>1 DEF Range
    <3>2. i \in DOMAIN l /\ l[i] = p
      BY <3>1
    <3> QED BY <1>3, <3>2, EmptySeq
  <2> DEFINE prev == IF i = 1 THEN NULL ELSE l[i - 1]
  <2>3. t = LET cut == IF prev = NULL THEN [s EXCEPT !.head[q] = s.next[p], !.next[p] = NULL]
                       ELSE [s EXCEPT !.next = [@ EXCEPT ![prev] = s.next[p], ![p] = NULL]]
            IN  [cut EXCEPT !.tail[q] = IF @ = p THEN prev ELSE @]
    BY <1>4, <1>5, <2>1 DEF dequeue
  <2> HIDE DEF i
  <2>4. prev = NULL <=> i = 1
    <3>1. i # 1 => i - 1 \in 1 .. Len(l)
      BY <1>3, <2>2
    <3> QED BY <3>1, <1>3, SchedAssumption
  <2>5. i # 1 => l[i - 1] \in Range(l) /\ l[i - 1] \in Proc /\ l[i - 1] # p
    <3>1. i # 1 => i - 1 \in 1 .. Len(l) /\ i - 1 # i
      BY <1>3, <2>2
    <3>2. IsInjective(l)
      BY <1>2 DEF OnQueue, Path
    <3> QED BY <3>1, <3>2, <1>3, <2>2 DEF IsInjective
  <2> HIDE DEF q
  <2>6. /\ t \in Table /\ Kept(s, t) /\ t.rts = s.rts
        /\ t.head = IF i = 1 THEN [s.head EXCEPT ![q] = s.next[p]] ELSE s.head
        /\ t.tail = [s.tail EXCEPT ![q] = IF s.tail[q] = p THEN prev ELSE s.tail[q]]
        /\ t.next = IF i = 1 THEN [s.next EXCEPT ![p] = NULL]
                    ELSE [s.next EXCEPT ![l[i - 1]] = s.next[p], ![p] = NULL]
    <3> DEFINE head == IF i = 1 THEN [s.head EXCEPT ![q] = s.next[p]] ELSE s.head
               tail == [s.tail EXCEPT ![q] = IF s.tail[q] = p THEN prev ELSE s.tail[q]]
               next == IF i = 1 THEN [s.next EXCEPT ![p] = NULL]
                       ELSE [s.next EXCEPT ![l[i - 1]] = s.next[p], ![p] = NULL]
    <3>1. s.next[p] \in Proc \cup {NULL} /\ s.tail[q] \in Proc \cup {NULL} /\ prev \in Proc \cup {NULL}
      BY <1>1, <2>5, Fields
    <3>2. /\ head \in [Queue -> Proc \cup {NULL}] /\ tail \in [Queue -> Proc \cup {NULL}]
          /\ next \in [Proc -> Proc \cup {NULL}]
      <4> HIDE DEF prev
      <4> QED BY <1>1, <2>5, <3>1, Fields
    <3>3. t = Relink(s, head, tail, next)
      <4>1. CASE i = 1
        <5>1. t = [[s EXCEPT !.head[q] = s.next[p], !.next[p] = NULL]
                       EXCEPT !.tail[q] = IF @ = p THEN prev ELSE @]
          BY <2>3, <2>4, <4>1
        <5> HIDE DEF prev
        <5> QED BY <5>1, <4>1, <1>1 DEF Table, Relink
      <4>2. CASE i # 1
        <5>1. t = [[s EXCEPT !.next = [@ EXCEPT ![prev] = s.next[p], ![p] = NULL]]
                       EXCEPT !.tail[q] = IF @ = p THEN prev ELSE @]
          BY <2>3, <2>4, <4>2
        <5>2. prev = l[i - 1]
          BY <4>2
        <5> HIDE DEF prev
        <5>3. t = [s EXCEPT !.next = [s.next EXCEPT ![prev] = s.next[p], ![p] = NULL], !.tail = tail]
          BY <5>1, <1>1 DEF Table
        <5> QED BY <5>2, <5>3, <4>2 DEF Table, Relink
      <4> QED BY <4>1, <4>2
    <3> HIDE DEF head, tail, next, prev
    <3>4. /\ t \in Table /\ Kept(s, t) /\ t.rts = s.rts
          /\ t.head = head /\ t.tail = tail /\ t.next = next
      BY <3>2, <3>3, Relinked
    <3> QED BY <3>4 DEF head, tail, next
  <2>7. \A r \in Queue :
          /\ t.tail[r] = IF r = q /\ s.tail[q] = p THEN prev ELSE s.tail[r]
          /\ t.head[r] = IF r = q /\ i = 1 THEN s.next[p] ELSE s.head[r]
    BY <1>1, <2>6, Fields
  <2>8. \A x \in Proc : t.next[x] = IF x = p THEN NULL
                                    ELSE IF i # 1 /\ x = l[i - 1] THEN s.next[p] ELSE s.next[x]
    BY <2>5, <2>6, Fields
  <2>9. t.prio = s.prio
    BY <2>6 DEF Kept
  <2>10. OnQueue(t, q, RemoveAt(l, i), R \ {p})
    <3>1. \A x \in Range(l) \ {l[i]} :
             t.next[x] = IF i # 1 /\ x = l[i - 1] THEN s.next[l[i]] ELSE s.next[x]
      BY <1>3, <2>2, <2>8
    <3>2. /\ t.head[q] = IF i = 1 THEN s.next[l[i]] ELSE s.head[q]
          /\ t.tail[q] = IF s.tail[q] = l[i] THEN IF i = 1 THEN NULL ELSE l[i - 1] ELSE s.tail[q]
      BY <1>1, <2>2, <2>7
    <3> QED BY <1>2, <2>2, <2>9, <3>1, <3>2, CutQueue, SMTT(30)
  <2>11. ASSUME NEW r \in Queue, r # q PROVE \E m : OnQueue(t, r, m, R \ {p})
    <3>1. PICK m : OnQueue(s, r, m, R)
      BY DEF Listed
    <3>2. Range(m) = {x \in R : s.prio[x] = r}
      BY <3>1, Members
    <3>3. \A x \in Range(m) : x \in Proc /\ x # p /\ (i # 1 => x # l[i - 1])
      BY <1>3, <2>5, <2>11, <3>2 DEF q
    <3>4. \A x \in Range(m) : t.next[x] = s.next[x]
      BY <2>8, <3>3
    <3>5. {x \in R \ {p} : t.prio[x] = r} = {x \in R : s.prio[x] = r}
      BY <2>9, <2>11 DEF q
    <3> QED BY <2>7, <2>11, <3>1, <3>4, <3>5, OtherQueue
  <2>12. Listed(t, R \ {p})
    BY <2>10, <2>11 DEF Listed
  <2>13. \A r \in Queue : s.head[r] # p => t.head[r] = s.head[r]
    BY <1>3, <2>2, <2>7
  <2> QED BY <2>6, <2>12, <2>13
<1> QED BY <1>6, <1>7

-----------------------------------------------------------------------------
(* The flags: RTS_SET and RTS_UNSET keep the lists to the runnable         *)
(* processes, and the running one at the head of its list.                 *)

\* The processes that can run.
Ready(s) == {p \in Proc : s.rts[p] = {}}

\* A process that may go on running is the first of its list, and nobody who
\* could preempt it is ready.
Turn(s) ==
    s.cur # IDLE /\ s.rts[s.cur] = {} =>
        /\ s.head[s.prio[s.cur]] = s.cur
        /\ s.cur \in Preemptible => \A q \in Queue : q < s.prio[s.cur] => s.head[q] = NULL

\* What the lists and the process that runs have to do with each other.
Orderly(s) == s \in Table /\ Listed(s, Ready(s)) /\ Turn(s)

\* The flags are no part of the lists.
Flagged(s, p, f) == [s EXCEPT !.rts[p] = f]

LEMMA FlaggedFacts ==
    ASSUME NEW s \in Table, NEW p \in Proc, NEW f \in SUBSET Flag,
           NEW t, t = Flagged(s, p, f)
    PROVE  /\ t \in Table /\ Kept(s, t)
           /\ \A x \in Proc : t.rts[x] = IF x = p THEN f ELSE s.rts[x]
           /\ t.head = s.head /\ t.tail = s.tail /\ t.next = s.next
           /\ Listed(s, Ready(s)) => Listed(t, Ready(s))
<1> DEFINE rts == [s.rts EXCEPT ![p] = f]
<1>1. rts \in [Proc -> SUBSET Flag] /\ \A x \in Proc : rts[x] = IF x = p THEN f ELSE s.rts[x]
  BY Fields
<1>2. t = [s EXCEPT !.rts = rts]
  BY DEF Flagged, Table
<1> HIDE DEF rts
<1>3. /\ t \in Table /\ Kept(s, t) /\ t.rts = rts
      /\ t.head = s.head /\ t.tail = s.tail /\ t.next = s.next
  BY <1>1, <1>2 DEF Table, Kept
<1>4. ASSUME Listed(s, Ready(s)) PROVE Listed(t, Ready(s))
  <2>1. ASSUME NEW q \in Queue, NEW l, OnQueue(s, q, l, Ready(s)) PROVE OnQueue(t, q, l, Ready(s))
    BY <1>3, <2>1 DEF OnQueue, Path, Kept
  <2> QED BY <1>4, <2>1 DEF Listed
<1> QED BY <1>1, <1>3, <1>4

\* What becomes of the flags when some are set for p, or cleared; the running
\* process may be preempted.
Sets(s, t, p, f) ==
    \A x \in Proc : t.rts[x] = IF x = p THEN s.rts[x] \cup f ELSE s.rts[x]

Clears(s, t, p, f) ==
    \A x \in Proc :
        \/ t.rts[x] = IF x = p THEN s.rts[x] \ f ELSE s.rts[x]
        \/ x = s.cur /\ t.rts[x] = s.rts[x] \cup {"PREEMPTED"}

\* What RTS_SET does.
LEMMA SetFacts ==
    ASSUME NEW s \in Table, Listed(s, Ready(s)), NEW p \in Proc, NEW flags \in SUBSET Flag,
           NEW t, t = RTS_SET(s, p, flags)
    PROVE  /\ t \in Table /\ Kept(s, t) /\ Listed(t, Ready(t))
           /\ Sets(s, t, p, flags)
           /\ \A q \in Queue : s.head[q] # p => t.head[q] = s.head[q]
           /\ Turn(s) => Turn(t)
<1> DEFINE f == s.rts[p] \cup flags
           set == Flagged(s, p, f)
<1>1. f \in SUBSET Flag /\ set = Flagged(s, p, f)
  BY Fields
<1> HIDE DEF f, set
<1>2. /\ set \in Table /\ Kept(s, set) /\ set.head = s.head
      /\ \A x \in Proc : set.rts[x] = IF x = p THEN s.rts[x] \cup flags ELSE s.rts[x]
      /\ Listed(set, Ready(s))
  <2>1. /\ set \in Table /\ Kept(s, set) /\ set.head = s.head
        /\ \A x \in Proc : set.rts[x] = IF x = p THEN f ELSE s.rts[x]
        /\ Listed(set, Ready(s))
    BY <1>1, FlaggedFacts
  <2> QED BY <2>1 DEF f
<1>3. t = IF s.rts[p] = {} /\ flags # {} THEN dequeue(set, p) ELSE set
  BY DEF RTS_SET, Runnable, Flagged, set, f
<1>4. /\ t \in Table /\ Kept(s, t) /\ Listed(t, Ready(t))
      /\ \A x \in Proc : t.rts[x] = IF x = p THEN s.rts[x] \cup flags ELSE s.rts[x]
      /\ \A q \in Queue : s.head[q] # p => t.head[q] = s.head[q]
  <2>1. CASE s.rts[p] = {} /\ flags # {}
    <3>1. t = dequeue(set, p)
      BY <1>3, <2>1
    <3>2. Ready(s) \in SUBSET Proc
      BY DEF Ready
    <3>3. /\ t \in Table /\ Kept(set, t) /\ t.rts = set.rts /\ Listed(t, Ready(s) \ {p})
          /\ \A q \in Queue : set.head[q] # p => t.head[q] = set.head[q]
      BY <1>2, <3>1, <3>2, DequeueFacts
    <3>4. Ready(t) = Ready(s) \ {p}
      BY <1>2, <2>1, <3>3 DEF Ready
    <3> QED BY <1>2, <3>3, <3>4 DEF Kept
  <2>2. CASE ~(s.rts[p] = {} /\ flags # {})
    <3>1. t = set
      BY <1>3, <2>2
    <3>2. Ready(t) = Ready(s)
      BY <1>2, <2>2, <3>1 DEF Ready
    <3> QED BY <1>2, <3>1, <3>2
  <2> QED BY <2>1, <2>2
<1>5. Turn(s) => Turn(t)
  <2> SUFFICES ASSUME Turn(s), t.cur # IDLE, t.rts[t.cur] = {}
               PROVE  /\ t.head[t.prio[t.cur]] = t.cur
                      /\ t.cur \in Preemptible =>
                             \A q \in Queue : q < t.prio[t.cur] => t.head[q] = NULL
    BY DEF Turn
  <2>1. t.cur = s.cur /\ t.prio = s.prio /\ s.cur \in Proc /\ s.prio[s.cur] \in Queue
    BY <1>4, Fields DEF Kept
  <2>2. s.rts[s.cur] = {}
    BY <1>4, <2>1
  <2>3. /\ s.head[s.prio[s.cur]] = s.cur
        /\ s.cur \in Preemptible => \A q \in Queue : q < s.prio[s.cur] => s.head[q] = NULL
    BY <2>1, <2>2 DEF Turn
  <2>4. NULL # p
    BY SchedAssumption
  <2>5. CASE p # s.cur
    BY <1>4, <2>1, <2>3, <2>4, <2>5
  <2>6. CASE p = s.cur
    <3>1. flags = {}
      BY <1>4, <2>1, <2>6
    <3>2. t.head = s.head
      BY <1>2, <1>3, <3>1
    <3> QED BY <2>1, <2>3, <3>2
  <2> QED BY <2>5, <2>6
<1> QED BY <1>4, <1>5 DEF Sets

\* What enqueue does, to a process that has just become ready.
LEMMA EnqueueFacts ==
    ASSUME NEW s \in Table, NEW p \in Proc, s.rts[p] = {},
           Listed(s, Ready(s) \ {p}),
           NEW t, t = enqueue(s, p)
    PROVE  /\ t \in Table /\ Kept(s, t) /\ Listed(t, Ready(t))
           /\ \A x \in Proc : \/ t.rts[x] = s.rts[x]
                              \/ /\ x = s.cur /\ s.prio[s.cur] > s.prio[p]
                                 /\ t.rts[x] = s.rts[x] \cup {"PREEMPTED"}
           /\ Turn(s) /\ p # s.cur => Turn(t)
<1> DEFINE q == s.prio[p]
           put == AtTail(s, p)
<1>1. q \in Queue
  BY Fields
<1>2. /\ put \in Table /\ Kept(s, put) /\ put.rts = s.rts
      /\ Listed(put, (Ready(s) \ {p}) \cup {p})
      /\ \A r \in Queue : s.head[r] # NULL \/ r # q => put.head[r] = s.head[r]
  <2>1. Ready(s) \ {p} \in SUBSET Proc /\ p \notin Ready(s) \ {p}
    BY DEF Ready
  <2> QED BY <2>1, AtTailFacts, SMTT(30)
<1>3. t = IF s.cur \in Preemptible /\ s.prio[s.cur] > q THEN RTS_SET(put, s.cur, {"PREEMPTED"}) ELSE put
  BY DEF enqueue, AtTail
<1> HIDE DEF put
<1>4. Listed(put, Ready(put))
  <2>1. (Ready(s) \ {p}) \cup {p} = Ready(put)
    BY <1>2 DEF Ready
  <2> QED BY <1>2, <2>1
<1>5. CASE s.cur \in Preemptible /\ s.prio[s.cur] > q
  <2>1. s.cur \in Proc /\ {"PREEMPTED"} \in SUBSET Flag
    BY <1>5, SchedAssumption DEF Flag
  <2>2. /\ t \in Table /\ Kept(put, t) /\ Listed(t, Ready(t))
        /\ \A x \in Proc : t.rts[x] = IF x = s.cur THEN put.rts[x] \cup {"PREEMPTED"} ELSE put.rts[x]
    BY <1>2, <1>3, <1>4, <1>5, <2>1, SetFacts DEF Sets
  <2>3. Kept(s, t)
    BY <1>2, <2>2 DEF Kept
  <2>4. Turn(t)
    BY <2>1, <2>2, <2>3 DEF Turn, Kept
  <2> QED BY <1>2, <1>5, <2>2, <2>3, <2>4
<1>6. CASE ~(s.cur \in Preemptible /\ s.prio[s.cur] > q)
  <2>1. t = put
    BY <1>3, <1>6
  <2>2. ASSUME Turn(s), put.cur # IDLE, put.rts[put.cur] = {}
        PROVE  /\ put.head[put.prio[put.cur]] = put.cur
               /\ put.cur \in Preemptible =>
                      \A r \in Queue : r < put.prio[put.cur] => put.head[r] = NULL
    <3>1. put.cur = s.cur /\ put.prio = s.prio /\ s.cur \in Proc /\ s.prio[s.cur] \in Queue
      BY <1>2, <2>2, Fields DEF Kept
    <3>2. /\ s.head[s.prio[s.cur]] = s.cur
          /\ s.cur \in Preemptible => \A r \in Queue : r < s.prio[s.cur] => s.head[r] = NULL
      BY <1>2, <2>2, <3>1 DEF Turn
    <3>3. s.cur # NULL
      BY <3>1, SchedAssumption
    <3>4. s.cur \in Preemptible => \A r \in Queue : r < s.prio[s.cur] => r # q
      BY <1>1, <1>6, <3>1 DEF Queue
    <3> QED BY <1>2, <3>1, <3>2, <3>3, <3>4
  <2>3. Turn(s) => Turn(t)
    BY <2>1, <2>2 DEF Turn
  <2> QED BY <1>2, <1>4, <2>1, <2>3
<1> QED BY <1>5, <1>6

\* What RTS_UNSET does to another process than the running one.
LEMMA UnsetFacts ==
    ASSUME NEW s \in Table, Listed(s, Ready(s)), NEW p \in Proc, NEW flags \in SUBSET Flag,
           p # s.cur \/ s.rts[p] = {},
           NEW t, t = RTS_UNSET(s, p, flags)
    PROVE  /\ t \in Table /\ Kept(s, t) /\ Listed(t, Ready(t))
           /\ Clears(s, t, p, flags)
           /\ Turn(s) => Turn(t)
<1> DEFINE f == s.rts[p] \ flags
           unset == Flagged(s, p, f)
<1>1. f \in SUBSET Flag /\ unset = Flagged(s, p, f)
  BY Fields
<1> HIDE DEF f, unset
<1>2. /\ unset \in Table /\ Kept(s, unset) /\ unset.head = s.head
      /\ \A x \in Proc : unset.rts[x] = IF x = p THEN s.rts[x] \ flags ELSE s.rts[x]
      /\ Listed(unset, Ready(s))
  <2>1. /\ unset \in Table /\ Kept(s, unset) /\ unset.head = s.head
        /\ \A x \in Proc : unset.rts[x] = IF x = p THEN f ELSE s.rts[x]
        /\ Listed(unset, Ready(s))
    BY <1>1, FlaggedFacts
  <2> QED BY <2>1 DEF f
<1>3. t = IF s.rts[p] # {} /\ unset.rts[p] = {} THEN enqueue(unset, p) ELSE unset
  BY DEF RTS_UNSET, Runnable, Flagged, unset, f
<1>4. CASE s.rts[p] # {} /\ unset.rts[p] = {}
  <2>1. Ready(s) = Ready(unset) \ {p}
    BY <1>2, <1>4 DEF Ready
  <2>2. t = enqueue(unset, p)
    BY <1>3, <1>4
  <2>3. /\ t \in Table /\ Kept(unset, t) /\ Listed(t, Ready(t))
        /\ \A x \in Proc : \/ t.rts[x] = unset.rts[x]
                           \/ x = unset.cur /\ t.rts[x] = unset.rts[x] \cup {"PREEMPTED"}
        /\ Turn(unset) /\ p # unset.cur => Turn(t)
    BY <1>2, <1>4, <2>1, <2>2, EnqueueFacts
  <2>4. Kept(s, t) /\ unset.cur = s.cur
    BY <1>2, <2>3 DEF Kept
  <2>5. ASSUME p # s.cur, Turn(s) PROVE Turn(unset)
    <3>1. s.cur \in Proc \cup {IDLE} /\ unset.prio = s.prio
      BY <1>2, Fields DEF Kept
    <3> QED BY <1>2, <2>4, <2>5, <3>1 DEF Turn
  <2>6. ASSUME p # s.cur, NEW x \in Proc
        PROVE  \/ t.rts[x] = IF x = p THEN s.rts[x] \ flags ELSE s.rts[x]
               \/ x = s.cur /\ t.rts[x] = s.rts[x] \cup {"PREEMPTED"}
    BY <1>2, <2>3, <2>4, <2>6
  <2> QED BY <1>4, <2>3, <2>4, <2>5, <2>6 DEF Clears
<1>5. CASE ~(s.rts[p] # {} /\ unset.rts[p] = {})
  <2>1. t = unset
    BY <1>3, <1>5
  <2>2. Ready(t) = Ready(s)
    BY <1>2, <1>5, <2>1 DEF Ready
  <2>3. ASSUME p # s.cur \/ s.rts[p] = {}, Turn(s) PROVE Turn(t)
    <3>1. s.cur \in Proc \cup {IDLE} /\ t.prio = s.prio /\ t.cur = s.cur
      BY <1>2, <2>1, Fields DEF Kept
    <3>2. s.cur \in Proc => t.rts[s.cur] = s.rts[s.cur]
      <4>1. p = s.cur => s.rts[p] \ flags = s.rts[p]
        BY <2>3
      <4>2. \A x \in Proc : t.rts[x] = IF x = p THEN s.rts[p] \ flags ELSE s.rts[x]
        BY <1>2, <2>1
      <4> QED BY <4>1, <4>2
    <3> QED BY <1>2, <2>1, <2>3, <3>1, <3>2 DEF Turn
  <2> QED BY <1>2, <2>1, <2>2, <2>3 DEF Clears
<1> QED BY <1>4, <1>5 DEF Clears

-----------------------------------------------------------------------------
(* Messages: the operations of a process, and of an interrupt, on those it *)
(* has to do with.                                                         *)

\* What is kept of messages: who waits has none, only interrupts bring bits,
\* and only a process of the scheduler reports the end of its quantum.
MsgOk(s, p) ==
    /\ "RECEIVING" \in s.rts[p] => s.got[p] = NoMsg
    /\ s.got[p].type # "HARDWARE" => s.got[p].arg = {}
    /\ s.got[p].type = "NO_QUANTUM" => s.got[p].from \in Scheduled
    /\ s.sendmsg[p] = "NO_QUANTUM" => p \in Scheduled
    /\ s.sendmsg[p] # "HARDWARE"
    /\ p \in s.defer => s.got[p] = NoMsg /\ "RECEIVING" \notin s.rts[p]

Msgs(s) == \A p \in Proc : MsgOk(s, p)

Sound(s) == Orderly(s) /\ Msgs(s)

\* The driver of h knows of the interrupt, or will.
Known(s, h) ==
    LET p == Owner[h]
    IN  \/ h \in s.got[p].arg
        \/ h \in s.int[p] /\ p \in s.notified

Keeps(s, t) == \A h \in Hook : Known(s, h) => Known(t, h)

\* The lists are the same.
SameLists(s, t) ==
    /\ t.rts = s.rts /\ t.prio = s.prio /\ t.cur = s.cur
    /\ t.head = s.head /\ t.tail = s.tail /\ t.next = s.next

LEMMA SameListsFacts ==
    ASSUME NEW s, Orderly(s), NEW t \in Table, SameLists(s, t)
    PROVE  Orderly(t)
<1>1. Ready(t) = Ready(s)
  BY DEF Ready, SameLists
<1>2. ASSUME NEW q \in Queue, NEW l, OnQueue(s, q, l, Ready(s)) PROVE OnQueue(t, q, l, Ready(s))
  BY <1>2 DEF OnQueue, Path, SameLists
<1>3. Listed(t, Ready(t))
  BY <1>1, <1>2 DEF Listed, Orderly
<1>4. Turn(t)
  BY DEF Turn, SameLists, Orderly
<1> QED BY <1>3, <1>4 DEF Orderly

\* What RTS_SET does to a process, and RTS_UNSET to one that does not run.
LEMMA SetOrderly ==
    ASSUME NEW s, Orderly(s), NEW p \in Proc, NEW g \in Flag, NEW t, t = RTS_SET(s, p, {g})
    PROVE  /\ Orderly(t) /\ Kept(s, t)
           /\ Sets(s, t, p, {g})
<1> DEFINE f == {g}
<1>1. /\ s \in Table /\ Listed(s, Ready(s)) /\ Turn(s)
      /\ f \in SUBSET Flag /\ t = RTS_SET(s, p, f)
  BY DEF Orderly
<1> HIDE DEF f
<1>2. t \in Table /\ Kept(s, t) /\ Listed(t, Ready(t)) /\ Sets(s, t, p, f) /\ Turn(t)
  BY <1>1, SetFacts
<1> QED BY <1>2 DEF f, Orderly

LEMMA UnsetOrderly ==
    ASSUME NEW s, Orderly(s), NEW p \in Proc, NEW g \in Flag, p # s.cur \/ s.rts[p] = {},
           NEW t, t = RTS_UNSET(s, p, {g})
    PROVE  /\ Orderly(t) /\ Kept(s, t)
           /\ Clears(s, t, p, {g})
<1> DEFINE f == {g}
<1>1. /\ s \in Table /\ Listed(s, Ready(s)) /\ Turn(s)
      /\ f \in SUBSET Flag /\ t = RTS_UNSET(s, p, f)
  BY DEF Orderly
<1> HIDE DEF f
<1>2. t \in Table /\ Kept(s, t) /\ Listed(t, Ready(t)) /\ Clears(s, t, p, f) /\ Turn(t)
  BY <1>1, UnsetFacts
<1> QED BY <1>2 DEF f, Orderly

\* The wait of a process for a message ends.
LEMMA Woken ==
    ASSUME NEW s, Sound(s), NEW d \in Proc, d # s.cur, NEW u \in Table, SameLists(s, u),
           u.sendmsg = s.sendmsg, u.defer = s.defer, "RECEIVING" \in s.rts[d],
           \A x \in Proc : x # d => u.got[x] = s.got[x],
           u.got[d].type # "HARDWARE" => u.got[d].arg = {},
           u.got[d].type = "NO_QUANTUM" => u.got[d].from \in Scheduled,
           NEW t, t = RTS_UNSET(u, d, {"RECEIVING"})
    PROVE  /\ Sound(t) /\ Kept(u, t)
           /\ Clears(s, t, d, {"RECEIVING"})
<1>1. Orderly(u) /\ u.cur = s.cur /\ u.rts = s.rts
  BY SameListsFacts DEF Sound, SameLists
<1>2. Orderly(t) /\ Kept(u, t) /\ Clears(s, t, d, {"RECEIVING"})
  <2> DEFINE g == "RECEIVING"
  <2>1. g \in Flag /\ t = RTS_UNSET(u, d, {g}) /\ d # u.cur
    BY <1>1 DEF Flag
  <2> HIDE DEF g
  <2>2. Orderly(t) /\ Kept(u, t) /\ Clears(u, t, d, {g})
    BY <1>1, <2>1, UnsetOrderly
  <2> QED BY <1>1, <2>2 DEF g, Clears
<1>3. ASSUME NEW x \in Proc PROVE MsgOk(t, x)
  <2>1. MsgOk(s, x) /\ MsgOk(s, d)
    BY DEF Sound, Msgs
  <2>2. t.got = u.got /\ t.sendmsg = s.sendmsg /\ t.defer = s.defer
    BY <1>2 DEF Kept
  <2>3. "RECEIVING" \in t.rts[x] => x # d /\ "RECEIVING" \in s.rts[x]
    BY <1>2, ZenonT(30) DEF Clears
  <2>4. d \notin s.defer
    BY <2>1 DEF MsgOk
  <2>5. CASE x = d
    BY <2>1, <2>2, <2>3, <2>4, <2>5 DEF MsgOk
  <2>6. CASE x # d
    BY <2>1, <2>2, <2>3, <2>6 DEF MsgOk
  <2> QED BY <2>5, <2>6
<1> QED BY <1>2, <1>3 DEF Sound, Msgs

\* What a message operation leaves alone, whoever runs.
Steady(s, t) ==
    /\ t.cur = s.cur /\ t.left = s.left /\ t.prio = s.prio /\ t.defer = s.defer
    /\ t.cur \in Proc => s.rts[s.cur] \subseteq t.rts[s.cur]

\* A message sent by the running process.
LEMMA SendFacts ==
    ASSUME NEW s, Sound(s), NEW p \in Proc, p = s.cur, NEW d \in Server, d # p,
           NEW type \in {"CALL", "NO_QUANTUM"}, type = "NO_QUANTUM" => p \in Scheduled,
           NEW t, t = mini_send(s, p, d, type)
    PROVE  Sound(t) /\ Keeps(s, t) /\ Steady(s, t) /\ t.got[p] = s.got[p]
<1>1. d \in Proc /\ s \in Table
  BY SchedAssumption DEF Sound, Orderly
<1>2. CASE WILLRECEIVE(s, d, p)
  <2> DEFINE m == [from |-> p, type |-> type, arg |-> {}]
             u == [s EXCEPT !.got[d] = m, !.getfrom[d] = NULL]
  <2>1. m \in Message /\ m.from = p /\ m.type = type /\ m.arg = {}
    BY DEF Message, Kind
  <2>2. t = RTS_UNSET(u, d, {"RECEIVING"})
    <3>1. Deliver(s, d, m) = [s EXCEPT !.got[d] = m]
      BY DEF Deliver
    <3>2. [[s EXCEPT !.got[d] = m] EXCEPT !.getfrom[d] = NULL] = u
      <4> HIDE DEF m
      <4> QED BY <1>1 DEF Table
    <3> QED BY <1>2, <3>1, <3>2 DEF mini_send
  <2> HIDE DEF m
  <2>3. /\ u \in Table /\ SameLists(s, u)
        /\ u.left = s.left /\ u.sendmsg = s.sendmsg /\ u.defer = s.defer
        /\ u.int = s.int /\ u.notified = s.notified
        /\ u.got[d] = m /\ \A x \in Proc : x # d => u.got[x] = s.got[x]
    BY <1>1, <2>1 DEF Table, SameLists
  <2> HIDE DEF u
  <2>4. "RECEIVING" \in s.rts[d] /\ s.got[d] = NoMsg
    BY <1>1, <1>2 DEF WILLRECEIVE, Sound, Msgs, MsgOk
  <2>5. Sound(t) /\ Kept(u, t) /\ Clears(s, t, d, {"RECEIVING"})
    BY <1>1, <2>1, <2>2, <2>3, <2>4, Woken
  <2>6. /\ t.got[d] = m /\ \A x \in Proc : x # d => t.got[x] = s.got[x]
        /\ t.int = s.int /\ t.notified = s.notified
    BY <2>3, <2>5 DEF Kept
  <2>7. Keeps(s, t)
    <3>1. ASSUME NEW h \in Hook, Known(s, h) PROVE Known(t, h)
      <4>1. Owner[h] \in Proc /\ (Owner[h] = d => h \notin s.got[d].arg)
        BY <2>4, KernelAssumption, SchedAssumption DEF NoMsg
      <4> QED BY <2>6, <3>1, <4>1 DEF Known
    <3> QED BY <3>1 DEF Keeps
  <2>8. Steady(s, t)
    <3>1. t.cur = s.cur /\ t.left = s.left /\ t.prio = s.prio /\ t.defer = s.defer
      BY <2>3, <2>5 DEF Kept, SameLists
    <3>2. s.rts[p] \subseteq t.rts[p]
      BY <2>5 DEF Clears
    <3> QED BY <3>1, <3>2 DEF Steady
  <2> QED BY <2>5, <2>6, <2>7, <2>8
<1>3. CASE ~WILLRECEIVE(s, d, p)
  <2> DEFINE u == RTS_SET(s, p, {"SENDING"})
  <2>1. "SENDING" \in Flag /\ u = RTS_SET(s, p, {"SENDING"}) /\ Orderly(s)
    BY DEF Flag, Sound
  <2>2. t = [u EXCEPT !.callers[d] = Append(@, p), !.sendmsg[p] = type]
    BY <1>3 DEF mini_send
  <2> HIDE DEF u
  <2>3. Orderly(u) /\ Kept(s, u) /\ Sets(s, u, p, {"SENDING"})
    BY <2>1, SetOrderly
  <2>4. /\ t \in Table /\ SameLists(u, t)
        /\ t.left = u.left /\ t.got = u.got /\ t.defer = u.defer
        /\ t.int = u.int /\ t.notified = u.notified
        /\ \A x \in Proc : t.sendmsg[x] = IF x = p THEN type ELSE u.sendmsg[x]
    <3>1. u \in Table /\ u.callers \in [Proc -> Seq(Proc)] /\ type \in Kind
      BY <2>3, Fields DEF Orderly, Kind
    <3>2. Append(u.callers[d], p) \in Seq(Proc)
      BY <1>1, <3>1, AppendFacts
    <3> DEFINE c == Append(u.callers[d], p)
    <3>3. t = [u EXCEPT !.callers = [u.callers EXCEPT ![d] = c], !.sendmsg = [u.sendmsg EXCEPT ![p] = type]]
      BY <1>1, <2>2, <3>1 DEF Table
    <3> HIDE DEF c
    <3>4. c \in Seq(Proc)
      BY <3>2 DEF c
    <3> DEFINE calls == [u.callers EXCEPT ![d] = c]
               types == [u.sendmsg EXCEPT ![p] = type]
    <3>5. /\ calls \in [Proc -> Seq(Proc)] /\ types \in [Proc -> Kind]
          /\ \A x \in Proc : types[x] = IF x = p THEN type ELSE u.sendmsg[x]
      BY <1>1, <3>1, <3>4, Fields
    <3>6. t = [u EXCEPT !.callers = calls, !.sendmsg = types]
      BY <3>3
    <3> HIDE DEF calls, types
    <3>7. /\ t \in Table /\ SameLists(u, t)
          /\ t.left = u.left /\ t.got = u.got /\ t.defer = u.defer
          /\ t.int = u.int /\ t.notified = u.notified /\ t.sendmsg = types
      BY <3>1, <3>5, <3>6, ZenonT(30) DEF Table, SameLists
    <3> QED BY <3>5, <3>7
  <2>5. Orderly(t)
    BY <2>3, <2>4, SameListsFacts
  <2>6. /\ t.cur = s.cur /\ t.left = s.left /\ t.prio = s.prio /\ t.defer = s.defer
        /\ t.got = s.got /\ t.int = s.int /\ t.notified = s.notified
        /\ \A x \in Proc : t.sendmsg[x] = IF x = p THEN type ELSE s.sendmsg[x]
        /\ \A x \in Proc : t.rts[x] = IF x = p THEN s.rts[x] \cup {"SENDING"} ELSE s.rts[x]
    BY <2>3, <2>4 DEF Kept, SameLists, Sets
  <2>7. Msgs(t)
    <3>1. ASSUME NEW x \in Proc PROVE MsgOk(t, x)
      <4>1. MsgOk(s, x)
        BY DEF Sound, Msgs
      <4>2. "RECEIVING" \in t.rts[x] <=> "RECEIVING" \in s.rts[x]
        <5>1. t.rts[x] = s.rts[x] \/ t.rts[x] = s.rts[x] \cup {"SENDING"}
          BY <2>6
        <5> QED BY <5>1
      <4> QED BY <2>6, <4>1, <4>2 DEF MsgOk
    <3> QED BY <3>1 DEF Msgs
  <2>8. Keeps(s, t) /\ Steady(s, t)
    BY <2>6 DEF Keeps, Known, Steady
  <2> QED BY <2>5, <2>6, <2>7, <2>8 DEF Sound
<1> QED BY <1>2, <1>3

\* A flag that stops a process.
LEMMA BlockFacts ==
    ASSUME NEW s, Sound(s), NEW p \in Proc, NEW g \in Flag,
           g = "RECEIVING" => s.got[p] = NoMsg /\ p \notin s.defer,
           NEW t, t = RTS_SET(s, p, {g})
    PROVE  /\ Sound(t) /\ Keeps(s, t) /\ Steady(s, t) /\ Kept(s, t)
           /\ g \in t.rts[p] /\ Sets(s, t, p, {g})
<1>1. Orderly(t) /\ Kept(s, t) /\ Sets(s, t, p, {g})
  BY SetOrderly DEF Sound
<1>2. ASSUME NEW x \in Proc PROVE MsgOk(t, x)
  <2>1. MsgOk(s, x)
    BY DEF Sound, Msgs
  <2>2. "RECEIVING" \in t.rts[x] => "RECEIVING" \in s.rts[x] \/ (g = "RECEIVING" /\ x = p)
    BY <1>1 DEF Sets
  <2>3. t.got = s.got /\ t.sendmsg = s.sendmsg /\ t.defer = s.defer
    BY <1>1 DEF Kept
  <2> QED BY <2>1, <2>2, <2>3 DEF MsgOk
<1>3. Keeps(s, t) /\ Steady(s, t)
  BY <1>1 DEF Keeps, Known, Steady, Kept, Sets
<1>4. g \in t.rts[p]
  BY <1>1 DEF Sets
<1> QED BY <1>1, <1>2, <1>3, <1>4 DEF Sound, Msgs

LEMMA GetfromFacts ==
    ASSUME NEW s, Sound(s), NEW p \in Proc, NEW d \in Proc \cup {NULL, ANY},
           NEW t, t = [s EXCEPT !.getfrom[p] = d]
    PROVE  Sound(t) /\ Keeps(s, t) /\ Steady(s, t) /\ t.got = s.got /\ t.rts = s.rts
<1>1. s \in Table /\ Orderly(s) /\ Msgs(s)
  BY DEF Sound, Orderly
<1>2. /\ t \in Table /\ SameLists(s, t)
      /\ t.left = s.left /\ t.got = s.got /\ t.defer = s.defer /\ t.rts = s.rts
      /\ t.int = s.int /\ t.notified = s.notified /\ t.sendmsg = s.sendmsg
  BY <1>1 DEF Table, SameLists
<1>3. Orderly(t)
  BY <1>1, <1>2, SameListsFacts
<1>4. Msgs(t)
  BY <1>1, <1>2 DEF Msgs, MsgOk
<1>5. Keeps(s, t) /\ Steady(s, t)
  BY <1>2 DEF Keeps, Known, Steady, SameLists
<1> QED BY <1>2, <1>3, <1>4, <1>5 DEF Sound

\* A call of the running process, which waits for the answer.
LEMMA SendrecFacts ==
    ASSUME NEW s, Sound(s), NEW p \in Proc, p = s.cur, NEW d \in Server, d # p,
           s.got[p] = NoMsg, p \notin s.defer,
           NEW t, t = Sendrec(s, p, d)
    PROVE  Sound(t) /\ Keeps(s, t) /\ Steady(s, t)
<1> DEFINE u == mini_send(s, p, d, "CALL")
           v == RTS_SET(u, p, {"RECEIVING"})
<1>1. u = mini_send(s, p, d, "CALL") /\ v = RTS_SET(u, p, {"RECEIVING"})
  OBVIOUS
<1>2. t = [v EXCEPT !.getfrom[p] = d]
  BY DEF Sendrec
<1> HIDE DEF u, v
<1>3. Sound(u) /\ Keeps(s, u) /\ Steady(s, u) /\ u.got[p] = s.got[p]
  <2> DEFINE type == "CALL"
  <2>1. type \in {"CALL", "NO_QUANTUM"} /\ (type = "NO_QUANTUM" => p \in Scheduled)
    OBVIOUS
  <2>2. u = mini_send(s, p, d, type)
    BY <1>1
  <2> HIDE DEF type
  <2> QED BY <2>1, <2>2, SendFacts
<1>4. Sound(v) /\ Keeps(u, v) /\ Steady(u, v)
  <2> DEFINE g == "RECEIVING"
  <2>1. g \in Flag /\ v = RTS_SET(u, p, {g})
    BY <1>1 DEF Flag
  <2>2. u.got[p] = NoMsg /\ p \notin u.defer
    BY <1>3 DEF Steady
  <2> HIDE DEF g
  <2> QED BY <1>3, <2>1, <2>2, BlockFacts
<1>5. Sound(t) /\ Keeps(v, t) /\ Steady(v, t)
  <2>1. d \in Proc \cup {NULL, ANY}
    BY SchedAssumption
  <2> QED BY <1>2, <1>4, <2>1, GetfromFacts
<1>6. Keeps(s, t)
  BY <1>3, <1>4, <1>5 DEF Keeps
<1>7. Steady(s, t)
  BY <1>3, <1>4, <1>5 DEF Steady
<1> QED BY <1>5, <1>6, <1>7

\* An answer of the running process.
LEMMA AnswerFacts ==
    ASSUME NEW s, Sound(s), NEW d \in Proc, d # s.cur, NEW t, t = Answer(s, d)
    PROVE  Sound(t) /\ Keeps(s, t) /\ Steady(s, t) /\ t.got = s.got
<1>1. CASE WILLRECEIVE(s, d, s.cur)
  <2> DEFINE u == [s EXCEPT !.getfrom[d] = NULL]
  <2>1. u = [s EXCEPT !.getfrom[d] = NULL] /\ t = RTS_UNSET(u, d, {"RECEIVING"})
    BY <1>1 DEF Answer
  <2> HIDE DEF u
  <2>2. Sound(u) /\ Keeps(s, u) /\ Steady(s, u) /\ u.got = s.got /\ u.rts = s.rts
    BY <2>1, GetfromFacts
  <2>3. "RECEIVING" \in u.rts[d] /\ u \in Table /\ SameLists(u, u) /\ MsgOk(u, d) /\ d # u.cur
    BY <1>1, <2>2 DEF WILLRECEIVE, Sound, Orderly, SameLists, Steady, Msgs
  <2>4. Sound(t) /\ Kept(u, t) /\ Clears(u, t, d, {"RECEIVING"})
    <3>1. /\ u.got[d].type # "HARDWARE" => u.got[d].arg = {}
          /\ u.got[d].type = "NO_QUANTUM" => u.got[d].from \in Scheduled
      BY <2>3 DEF MsgOk
    <3> QED BY <2>1, <2>2, <2>3, <3>1, Woken
  <2>5. Keeps(u, t)
    BY <2>4 DEF Keeps, Known, Kept
  <2>6. Keeps(s, t)
    BY <2>2, <2>5 DEF Keeps
  <2>7. Steady(s, t)
    <3>1. t.cur \in Proc => u.rts[u.cur] \subseteq t.rts[u.cur]
      BY <2>3, <2>4 DEF Clears, Kept
    <3> QED BY <2>2, <2>4, <3>1 DEF Kept, Steady
  <2> QED BY <2>2, <2>4, <2>6, <2>7 DEF Kept
<1>2. CASE ~WILLRECEIVE(s, d, s.cur)
  BY <1>2 DEF Answer, Keeps, Steady
<1> QED BY <1>1, <1>2

\* The running server asks for the next message.
LEMMA ReceiveFacts ==
    ASSUME NEW s, Sound(s), NEW p \in Server, p = s.cur, s.rts[p] = {},
           s.got[p] = NoMsg, p \notin s.defer,
           NEW t, t = ReceiveAny(s, p)
    PROVE  Sound(t) /\ Keeps(s, t) /\ Steady(s, t)
<1>1. p \in Proc /\ s \in Table /\ Orderly(s) /\ Msgs(s)
  BY SchedAssumption DEF Sound, Orderly
<1>2. CASE p \in s.notified
  <2> DEFINE m == [from |-> IDLE, type |-> "HARDWARE", arg |-> s.int[p]]
  <2>1. m \in Message /\ m.type = "HARDWARE" /\ m.arg = s.int[p]
    BY <1>1, Fields DEF Message, Kind
  <2>2. t = [s EXCEPT !.got[p] = m, !.notified = s.notified \ {p}, !.int[p] = {}]
    <3>1. Deliver(s, p, m) = [s EXCEPT !.got[p] = m]
      BY DEF Deliver
    <3>2. t = [[s EXCEPT !.got[p] = m] EXCEPT !.notified = @ \ {p}, !.int[p] = {}]
      BY <1>2, <3>1 DEF ReceiveAny
    <3> HIDE DEF m
    <3> QED BY <1>1, <3>2 DEF Table
  <2> HIDE DEF m
  <2>3. /\ t \in Table /\ SameLists(s, t)
        /\ t.left = s.left /\ t.defer = s.defer /\ t.sendmsg = s.sendmsg
        /\ t.notified = s.notified \ {p}
        /\ \A x \in Proc : /\ t.got[x] = IF x = p THEN m ELSE s.got[x]
                           /\ t.int[x] = IF x = p THEN {} ELSE s.int[x]
    <3> DEFINE got == [s.got EXCEPT ![p] = m]
               int == [s.int EXCEPT ![p] = {}]
               notified == s.notified \ {p}
    <3>1. /\ notified \in SUBSET Proc
          /\ got \in [Proc -> Message] /\ int \in [Proc -> SUBSET Bit]
          /\ \A x \in Proc : /\ got[x] = IF x = p THEN m ELSE s.got[x]
                             /\ int[x] = IF x = p THEN {} ELSE s.int[x]
      BY <1>1, <2>1, Fields
    <3>2. t = [s EXCEPT !.got = got, !.notified = notified, !.int = int]
      BY <1>1, <2>2 DEF Table
    <3> HIDE DEF got, int, notified
    <3>3. /\ t \in Table /\ SameLists(s, t)
          /\ t.left = s.left /\ t.defer = s.defer /\ t.sendmsg = s.sendmsg
          /\ t.notified = notified /\ t.got = got /\ t.int = int
      BY <1>1, <3>1, <3>2, ZenonT(30) DEF Table, SameLists
    <3> QED BY <3>1, <3>3 DEF notified
  <2>4. Orderly(t)
    BY <1>1, <2>3, SameListsFacts
  <2>5. ASSUME NEW x \in Proc PROVE MsgOk(t, x)
    <3>1. MsgOk(s, x) /\ t.rts = s.rts
      BY <1>1, <2>3 DEF Msgs, SameLists
    <3>2. CASE x = p
      BY <1>1, <2>1, <2>3, <3>1, <3>2 DEF MsgOk
    <3>3. CASE x # p
      BY <2>3, <3>1, <3>3 DEF MsgOk
    <3> QED BY <3>2, <3>3
  <2>6. ASSUME NEW h \in Hook, Known(s, h) PROVE Known(t, h)
    <3>1. Owner[h] \in Proc
      BY KernelAssumption, SchedAssumption
    <3>2. CASE Owner[h] = p
      <4>1. h \in s.int[p]
        BY <2>6, <3>2 DEF Known, NoMsg
      <4> QED BY <1>1, <2>1, <2>3, <3>2, <4>1 DEF Known
    <3>3. CASE Owner[h] # p
      BY <2>3, <2>6, <3>1, <3>3 DEF Known
    <3> QED BY <3>2, <3>3
  <2>7. Steady(s, t)
    BY <2>3 DEF Steady, SameLists
  <2> QED BY <2>4, <2>5, <2>6, <2>7 DEF Sound, Msgs, Keeps
<1>3. CASE p \notin s.notified /\ s.callers[p] # <<>>
  <2> DEFINE sender == Head(s.callers[p])
             rest == Tail(s.callers[p])
             m == [from |-> sender, type |-> s.sendmsg[sender], arg |-> {}]
             u == [s EXCEPT !.got[p] = m]
             v == RTS_UNSET(u, sender, {"SENDING"})
  <2>1. sender \in Proc /\ rest \in Seq(Proc)
    <3>1. s.callers[p] \in Seq(Proc)
      BY <1>1, Fields
    <3> QED BY <1>3, <3>1, TailRange
  <2>2. t = [v EXCEPT !.callers[p] = Tail(@), !.sendmsg[sender] = "CALL"]
    <3>1. Deliver(s, p, m) = u
      BY DEF Deliver
    <3> QED BY <1>3, <3>1 DEF ReceiveAny
  <2>3. v = RTS_UNSET(u, sender, {"SENDING"}) /\ u = [s EXCEPT !.got[p] = m]
    OBVIOUS
  <2>4. /\ m \in Message /\ m.arg = {} /\ m.type # "HARDWARE"
        /\ m.type = "NO_QUANTUM" => m.from \in Scheduled
    <3>1. MsgOk(s, sender) /\ s.sendmsg[sender] \in Kind
      BY <1>1, <2>1, Fields DEF Msgs
    <3> QED BY <2>1, <3>1 DEF MsgOk, Message
  <2> HIDE DEF sender, rest, m
  <2>5. /\ u \in Table /\ SameLists(s, u)
        /\ u.left = s.left /\ u.defer = s.defer /\ u.sendmsg = s.sendmsg
        /\ u.notified = s.notified /\ u.int = s.int /\ u.callers = s.callers
        /\ \A x \in Proc : u.got[x] = IF x = p THEN m ELSE s.got[x]
    BY <1>1, <2>3, <2>4 DEF Table, SameLists
  <2> HIDE DEF u, v
  <2>6. Orderly(u) /\ u.rts = s.rts /\ u.cur = s.cur
    BY <1>1, <2>5, SameListsFacts DEF SameLists
  <2>7. Orderly(v) /\ Kept(u, v) /\ Clears(u, v, sender, {"SENDING"})
    <3> DEFINE g == "SENDING"
    <3>1. g \in Flag /\ v = RTS_UNSET(u, sender, {g}) /\ (sender # u.cur \/ u.rts[sender] = {})
      BY <2>3, <2>6 DEF Flag
    <3> HIDE DEF g
    <3>2. Orderly(v) /\ Kept(u, v) /\ Clears(u, v, sender, {g})
      BY <2>1, <2>6, <3>1, UnsetOrderly
    <3> QED BY <3>2 DEF g
  <2>8. /\ t \in Table /\ SameLists(v, t)
        /\ t.left = v.left /\ t.got = v.got /\ t.defer = v.defer
        /\ t.int = v.int /\ t.notified = v.notified
        /\ \A x \in Proc : t.sendmsg[x] = IF x = sender THEN "CALL" ELSE v.sendmsg[x]
    <3>1. v \in Table /\ v.callers = s.callers
      BY <2>5, <2>7 DEF Orderly, Kept
    <3> DEFINE calls == [v.callers EXCEPT ![p] = rest]
               types == [v.sendmsg EXCEPT ![sender] = "CALL"]
    <3>2. /\ calls \in [Proc -> Seq(Proc)] /\ types \in [Proc -> Kind]
          /\ \A x \in Proc : types[x] = IF x = sender THEN "CALL" ELSE v.sendmsg[x]
      BY <1>1, <2>1, <3>1, Fields DEF Kind
    <3>3. t = [v EXCEPT !.callers = calls, !.sendmsg = types]
      BY <1>1, <2>2, <3>1 DEF Table, rest
    <3> HIDE DEF calls, types
    <3>4. /\ t \in Table /\ SameLists(v, t)
          /\ t.left = v.left /\ t.got = v.got /\ t.defer = v.defer
          /\ t.int = v.int /\ t.notified = v.notified /\ t.sendmsg = types
      BY <3>1, <3>2, <3>3, ZenonT(30) DEF Table, SameLists
    <3> QED BY <3>2, <3>4
  <2>9. Orderly(t)
    BY <2>7, <2>8, SameListsFacts
  <2>10. /\ t.cur = s.cur /\ t.left = s.left /\ t.prio = s.prio /\ t.defer = s.defer
         /\ t.int = s.int /\ t.notified = s.notified
         /\ \A x \in Proc : /\ t.got[x] = IF x = p THEN m ELSE s.got[x]
                            /\ t.sendmsg[x] = IF x = sender THEN "CALL" ELSE s.sendmsg[x]
         /\ Clears(s, t, sender, {"SENDING"})
    BY <2>5, <2>7, <2>8, SMTT(30) DEF Kept, SameLists, Clears
  <2>11. ASSUME NEW x \in Proc PROVE MsgOk(t, x)
    <3>1. MsgOk(s, x) /\ ("RECEIVING" \in t.rts[x] => x # p /\ "RECEIVING" \in s.rts[x])
      <4>1. "RECEIVING" \in t.rts[x] => "RECEIVING" \in s.rts[x]
        <5>1. Clears(s, t, sender, {"SENDING"})
          BY <2>10
        <5>2. \/ t.rts[x] = s.rts[x] \/ t.rts[x] = s.rts[x] \ {"SENDING"}
              \/ t.rts[x] = s.rts[x] \cup {"PREEMPTED"}
          BY <5>1 DEF Clears
        <5> QED BY <5>2
      <4> QED BY <1>1, <4>1 DEF Msgs
    <3>2. t.sendmsg[x] = "CALL" \/ t.sendmsg[x] = s.sendmsg[x]
      BY <2>10
    <3>3. CASE x = p
      BY <2>4, <2>10, <3>1, <3>2, <3>3 DEF MsgOk
    <3>4. CASE x # p
      BY <2>10, <3>1, <3>2, <3>4 DEF MsgOk
    <3> QED BY <3>3, <3>4
  <2>12. ASSUME NEW h \in Hook, Known(s, h) PROVE Known(t, h)
    <3>1. Owner[h] \in Proc /\ (Owner[h] = p => h \notin s.got[p].arg)
      BY KernelAssumption, SchedAssumption DEF NoMsg
    <3> QED BY <2>10, <2>12, <3>1 DEF Known
  <2>13. Steady(s, t)
    BY <2>10 DEF Steady
  <2> QED BY <2>9, <2>11, <2>12, <2>13 DEF Sound, Msgs, Keeps
<1>4. CASE p \notin s.notified /\ s.callers[p] = <<>>
  <2> DEFINE u == RTS_SET(s, p, {"RECEIVING"})
             g == "RECEIVING"
  <2>1. u = RTS_SET(s, p, {g}) /\ g \in Flag /\ t = [u EXCEPT !.getfrom[p] = ANY]
    BY <1>4 DEF ReceiveAny, Flag
  <2> HIDE DEF u, g
  <2>2. Sound(u) /\ Keeps(s, u) /\ Steady(s, u)
    BY <1>1, <2>1, BlockFacts
  <2>3. Sound(t) /\ Keeps(u, t) /\ Steady(u, t)
    <3> DEFINE d == ANY
    <3>1. d \in Proc \cup {NULL, ANY} /\ t = [u EXCEPT !.getfrom[p] = d]
      BY <2>1
    <3> HIDE DEF d
    <3> QED BY <1>1, <2>2, <3>1, GetfromFacts
  <2> QED BY <2>2, <2>3 DEF Keeps, Steady
<1> QED BY <1>2, <1>3, <1>4

\* While an interrupt is handled the running process is at most preempted.
Halts(s) == s.cur # IDLE => s.rts[s.cur] \subseteq {"PREEMPTED"}

\* A notification from HARDWARE.
LEMMA NotifyFacts ==
    ASSUME NEW s, Sound(s), Halts(s), NEW b \in Hook,
           NEW t, t = Notify(s, Owner[b], b)
    PROVE  /\ Sound(t) /\ Halts(t) /\ Keeps(s, t) /\ Known(t, b)
           /\ t.cur = s.cur /\ t.left = s.left /\ t.defer = s.defer
<1> DEFINE p == Owner[b]
           told == [s EXCEPT !.int[p] = s.int[p] \cup {b}]
<1>1. p \in Server /\ p \in Proc /\ s \in Table /\ Orderly(s) /\ Msgs(s) /\ MsgOk(s, p)
  BY KernelAssumption, SchedAssumption DEF Sound, Orderly, Msgs
<1>2. s.int[p] \cup {b} \in SUBSET Bit
  BY <1>1, Fields, KernelAssumption
<1>3. CASE WILLRECEIVE(s, p, ANY)
  <2> DEFINE m == [from |-> IDLE, type |-> "HARDWARE", arg |-> s.int[p] \cup {b}]
             u == [s EXCEPT !.got[p] = m, !.getfrom[p] = NULL, !.int[p] = {}]
  <2>1. m \in Message /\ m.type = "HARDWARE" /\ m.arg = s.int[p] \cup {b}
    BY <1>2 DEF Message, Kind
  <2>2. t = RTS_UNSET(u, p, {"RECEIVING"})
    <3>1. told.int[p] = s.int[p] \cup {b}
      BY <1>1, <1>2, Fields
    <3>2. t = RTS_UNSET([Deliver(told, p, [from |-> IDLE, type |-> "HARDWARE", arg |-> told.int[p]])
                            EXCEPT !.getfrom[p] = NULL, !.int[p] = {}], p, {"RECEIVING"})
      <4> HIDE DEF p
      <4> QED BY <1>3 DEF Notify, p
    <3> HIDE DEF p
    <3>3. Deliver(told, p, m) = [told EXCEPT !.got[p] = m]
      <4> HIDE DEF told, m
      <4> QED BY <1>1 DEF Deliver
    <3>4. [[told EXCEPT !.got[p] = m] EXCEPT !.getfrom[p] = NULL, !.int[p] = {}] = u
      <4> HIDE DEF m
      <4> QED BY <1>1, <1>2 DEF Table
    <3> HIDE DEF u, told
    <3> QED BY <3>1, <3>2, <3>3, <3>4
  <2> HIDE DEF m, p
  <2>3. /\ u \in Table /\ SameLists(s, u)
        /\ u.left = s.left /\ u.defer = s.defer /\ u.sendmsg = s.sendmsg
        /\ u.notified = s.notified
        /\ \A x \in Proc : /\ u.got[x] = IF x = p THEN m ELSE s.got[x]
                           /\ u.int[x] = IF x = p THEN {} ELSE s.int[x]
    <3> DEFINE got == [s.got EXCEPT ![p] = m]
               int == [s.int EXCEPT ![p] = {}]
               getfrom == [s.getfrom EXCEPT ![p] = NULL]
    <3>1. /\ got \in [Proc -> Message] /\ int \in [Proc -> SUBSET Bit]
          /\ getfrom \in [Proc -> Proc \cup {NULL, ANY}]
          /\ \A x \in Proc : /\ got[x] = IF x = p THEN m ELSE s.got[x]
                             /\ int[x] = IF x = p THEN {} ELSE s.int[x]
      BY <1>1, <2>1, Fields
    <3>2. u = [s EXCEPT !.got = got, !.getfrom = getfrom, !.int = int]
      BY <1>1 DEF Table
    <3> HIDE DEF got, int, getfrom, u
    <3>3. /\ u \in Table /\ SameLists(s, u)
          /\ u.left = s.left /\ u.defer = s.defer /\ u.sendmsg = s.sendmsg
          /\ u.notified = s.notified /\ u.got = got /\ u.int = int
      BY <1>1, <3>1, <3>2 DEF Table, SameLists
    <3> QED BY <3>1, <3>3
  <2> HIDE DEF u
  <2>4. p # s.cur /\ "RECEIVING" \in s.rts[p] /\ s.got[p] = NoMsg
    BY <1>1, <1>3, SchedAssumption DEF WILLRECEIVE, Halts, MsgOk
  <2>5. Sound(t) /\ Kept(u, t) /\ Clears(s, t, p, {"RECEIVING"})
    <3>1. u.got[p] = m /\ \A x \in Proc : x # p => u.got[x] = s.got[x]
      BY <1>1, <2>3
    <3> QED BY <1>1, <2>1, <2>2, <2>3, <2>4, <3>1, Woken
  <2>6. /\ t.cur = s.cur /\ t.left = s.left /\ t.defer = s.defer /\ t.notified = s.notified
        /\ \A x \in Proc : /\ t.got[x] = IF x = p THEN m ELSE s.got[x]
                           /\ t.int[x] = IF x = p THEN {} ELSE s.int[x]
    BY <2>3, <2>5 DEF Kept, SameLists
  <2>7. ASSUME NEW h \in Hook, Known(s, h) PROVE Known(t, h)
    <3>1. Owner[h] \in Proc
      BY KernelAssumption, SchedAssumption
    <3>2. CASE Owner[h] = p
      BY <1>1, <2>1, <2>4, <2>6, <2>7, <3>2 DEF Known, NoMsg
    <3>3. CASE Owner[h] # p
      BY <2>6, <2>7, <3>1, <3>3 DEF Known
    <3> QED BY <3>2, <3>3
  <2>8. Known(t, b)
    BY <1>1, <2>1, <2>6 DEF Known, p
  <2>9. Halts(t)
    <3>1. s.cur # IDLE => s.cur \in Proc
      BY <1>1, Fields
    <3> QED BY <2>4, <2>5, <2>6, <3>1 DEF Halts, Clears
  <2> QED BY <2>5, <2>6, <2>7, <2>8, <2>9 DEF Keeps
<1>4. CASE ~WILLRECEIVE(s, p, ANY)
  <2>1. t = [s EXCEPT !.int = [s.int EXCEPT ![p] = s.int[p] \cup {b}], !.notified = s.notified \cup {p}]
    <3>1. t = [told EXCEPT !.notified = @ \cup {p}]
      BY <1>4 DEF Notify
    <3> QED BY <1>1, <3>1 DEF Table
  <2> DEFINE int == [s.int EXCEPT ![p] = s.int[p] \cup {b}]
             notified == s.notified \cup {p}
  <2>2. /\ int \in [Proc -> SUBSET Bit] /\ notified \in SUBSET Proc
        /\ \A x \in Proc : int[x] = IF x = p THEN s.int[p] \cup {b} ELSE s.int[x]
    BY <1>1, <1>2, Fields
  <2>3. t = [s EXCEPT !.int = int, !.notified = notified]
    BY <2>1
  <2> HIDE DEF int, notified
  <2>4. /\ t \in Table /\ SameLists(s, t)
        /\ t.left = s.left /\ t.got = s.got /\ t.defer = s.defer /\ t.sendmsg = s.sendmsg
        /\ t.int = int /\ t.notified = notified
    BY <1>1, <2>2, <2>3 DEF Table, SameLists
  <2>5. Orderly(t)
    BY <1>1, <2>4, SameListsFacts
  <2>6. Msgs(t)
    BY <1>1, <2>4 DEF Msgs, MsgOk, SameLists
  <2>7. ASSUME NEW h \in Hook PROVE (Known(s, h) => Known(t, h)) /\ (h = b => Known(t, h))
    <3>1. Owner[h] \in Proc
      BY KernelAssumption, SchedAssumption
    <3>2. s.int[Owner[h]] \subseteq t.int[Owner[h]] /\ s.notified \subseteq t.notified
      BY <2>2, <2>4, <3>1 DEF notified
    <3>3. b \in t.int[p] /\ p \in t.notified
      BY <1>1, <2>2, <2>4 DEF notified
    <3> QED BY <2>4, <3>2, <3>3 DEF Known
  <2>8. Halts(t) /\ t.cur = s.cur
    BY <2>4 DEF Halts, SameLists
  <2> QED BY <2>4, <2>5, <2>6, <2>7, <2>8 DEF Sound, Keeps
<1> QED BY <1>3, <1>4

-----------------------------------------------------------------------------
(* Time: quanta, priorities and the choice of the next process.            *)

\* A flag that no longer stops a process.
LEMMA UnblockFacts ==
    ASSUME NEW s, Sound(s), NEW p \in Proc, NEW g \in Flag, p # s.cur,
           NEW t, t = RTS_UNSET(s, p, {g})
    PROVE  Sound(t) /\ Keeps(s, t) /\ Kept(s, t)
<1>1. Orderly(t) /\ Kept(s, t) /\ Clears(s, t, p, {g})
  BY UnsetOrderly DEF Sound
<1>2. ASSUME NEW x \in Proc PROVE MsgOk(t, x)
  <2>1. MsgOk(s, x)
    BY DEF Sound, Msgs
  <2>2. "RECEIVING" \in t.rts[x] => "RECEIVING" \in s.rts[x]
    <3>1. \/ t.rts[x] = s.rts[x] \/ t.rts[x] = s.rts[x] \ {g}
          \/ t.rts[x] = s.rts[x] \cup {"PREEMPTED"}
      BY <1>1 DEF Clears
    <3> QED BY <3>1
  <2>3. t.got = s.got /\ t.sendmsg = s.sendmsg /\ t.defer = s.defer
    BY <1>1 DEF Kept
  <2> QED BY <2>1, <2>2, <2>3 DEF MsgOk
<1>3. Keeps(s, t)
  BY <1>1 DEF Keeps, Known, Kept
<1> QED BY <1>1, <1>2, <1>3 DEF Sound, Msgs

\* What is left of a quantum.
LEMMA LeftFacts ==
    ASSUME NEW s, Sound(s), NEW p \in Proc, NEW v \in Nat, NEW t, t = [s EXCEPT !.left[p] = v]
    PROVE  /\ Sound(t) /\ Keeps(s, t) /\ SameLists(s, t) /\ t.left[p] = v
           /\ t.got = s.got /\ t.defer = s.defer /\ t.int = s.int /\ t.notified = s.notified
<1>1. s \in Table /\ Orderly(s) /\ Msgs(s)
  BY DEF Sound, Orderly
<1>2. /\ t \in Table /\ SameLists(s, t) /\ t.left[p] = v
      /\ t.got = s.got /\ t.defer = s.defer
      /\ t.int = s.int /\ t.notified = s.notified /\ t.sendmsg = s.sendmsg
  BY <1>1 DEF Table, SameLists
<1>3. Orderly(t)
  BY <1>1, <1>2, SameListsFacts
<1>4. Msgs(t)
  BY <1>1, <1>2 DEF Msgs, MsgOk, SameLists
<1>5. Keeps(s, t)
  BY <1>2 DEF Keeps, Known
<1> QED BY <1>2, <1>3, <1>4, <1>5 DEF Sound

\* The check of the running process's time.
LEMMA TimeFacts ==
    ASSUME NEW s, Sound(s), NEW p \in Proc, p = s.cur, NEW t, t = TimeCheck(s, p)
    PROVE  /\ Sound(t) /\ Keeps(s, t) /\ t.cur = s.cur /\ t.defer = s.defer
           /\ s.rts[p] \subseteq t.rts[p]
           /\ t.rts[p] = {} => t.left[p] > 0
<1>0. s \in Table /\ s.left[p] \in Nat
  BY Fields DEF Sound, Orderly
<1>1. CASE s.left[p] # 0
  <2>1. t = s
    BY <1>1 DEF TimeCheck
  <2> QED BY <1>0, <1>1, <2>1 DEF Keeps
<1>2. CASE s.left[p] = 0 /\ p \in Scheduled \cap Preemptible
  <2> DEFINE u == RTS_SET(s, p, {"NO_QUANTUM"})
             g == "NO_QUANTUM"
  <2>1. u = RTS_SET(s, p, {g}) /\ g \in Flag /\ g # "RECEIVING"
    BY DEF Flag
  <2>2. t = mini_send(u, p, SCHED, g)
    BY <1>2 DEF TimeCheck, proc_no_time, notify_scheduler
  <2>3. g \in {"CALL", "NO_QUANTUM"}
    OBVIOUS
  <2> HIDE DEF u, g
  <2>4. Sound(u) /\ Keeps(s, u) /\ Steady(s, u) /\ g \in u.rts[p]
    BY <2>1, BlockFacts
  <2>5. Sound(t) /\ Keeps(u, t) /\ Steady(u, t)
    <3>1. SCHED \in Server /\ p = u.cur /\ p # SCHED /\ p \in Scheduled
      BY <1>2, <2>4, SchedAssumption DEF Steady
    <3> DEFINE d == SCHED
    <3>2. d \in Server /\ d # p /\ t = mini_send(u, p, d, g)
      BY <2>2, <3>1
    <3> HIDE DEF d
    <3> QED BY <2>3, <2>4, <3>1, <3>2, SendFacts
  <2> QED BY <2>4, <2>5 DEF Keeps, Steady
<1>3. CASE s.left[p] = 0 /\ ~(p \in Scheduled \cap Preemptible)
  <2>1. t = [s EXCEPT !.left[p] = Quantum]
    BY <1>3 DEF TimeCheck, proc_no_time
  <2>2. Quantum \in Nat /\ Quantum > 0
    BY SchedAssumption
  <2>3. /\ Sound(t) /\ Keeps(s, t) /\ SameLists(s, t) /\ t.left[p] = Quantum
        /\ t.defer = s.defer
    <3> DEFINE v == Quantum
    <3>1. v \in Nat /\ t = [s EXCEPT !.left[p] = v]
      BY <2>1, <2>2
    <3> HIDE DEF v
    <3>2. /\ Sound(t) /\ Keeps(s, t) /\ SameLists(s, t) /\ t.left[p] = v
          /\ t.defer = s.defer
      BY <3>1, LeftFacts
    <3> QED BY <3>2 DEF v
  <2> QED BY <2>2, <2>3 DEF SameLists
<1> QED BY <1>1, <1>2, <1>3

\* A new quantum and a queue for a process that does not run.
LEMMA SchedFacts ==
    ASSUME NEW s, Sound(s), NEW p \in Proc, p # s.cur, NEW priority \in Queue,
           NEW t, t = sched_proc(s, p, priority)
    PROVE  /\ Sound(t) /\ Keeps(s, t) /\ t.cur = s.cur
           /\ t.got = s.got /\ t.defer = s.defer /\ t.int = s.int /\ t.notified = s.notified
<1> DEFINE held == IF Runnable(s, p) THEN RTS_SET(s, p, {"NO_QUANTUM"}) ELSE s
           u == [held EXCEPT !.prio[p] = priority, !.left[p] = Quantum]
           g == "NO_QUANTUM"
<1>1. t = RTS_UNSET(u, p, {g}) /\ u = [held EXCEPT !.prio[p] = priority, !.left[p] = Quantum]
  BY DEF sched_proc
<1>2. g \in Flag /\ g # "RECEIVING" /\ held = IF s.rts[p] = {} THEN RTS_SET(s, p, {g}) ELSE s
  BY DEF Flag, Runnable
<1> HIDE DEF held, g
<1>3. Sound(held) /\ Keeps(s, held) /\ Kept(s, held) /\ held.rts[p] # {}
  <2>1. CASE s.rts[p] = {}
    <3>1. held = RTS_SET(s, p, {g})
      BY <1>2, <2>1
    <3>2. Sound(held) /\ Keeps(s, held) /\ Kept(s, held) /\ g \in held.rts[p]
      BY <1>2, <3>1, BlockFacts
    <3> QED BY <3>2
  <2>2. CASE s.rts[p] # {}
    BY <1>2, <2>2 DEF Keeps, Kept
  <2> QED BY <2>1, <2>2
<1>4. held \in Table /\ Orderly(held) /\ Msgs(held)
  BY <1>3 DEF Sound, Orderly
<1>5. /\ u \in Table /\ u.rts = held.rts /\ u.cur = held.cur
      /\ u.head = held.head /\ u.tail = held.tail /\ u.next = held.next
      /\ u.got = held.got /\ u.defer = held.defer
      /\ u.int = held.int /\ u.notified = held.notified /\ u.sendmsg = held.sendmsg
      /\ \A x \in Proc : x # p => u.prio[x] = held.prio[x]
  BY <1>1, <1>4, SchedAssumption, ZenonT(30) DEF Table
<1> HIDE DEF u
<1>6. Listed(u, Ready(u))
  <2>1. Ready(u) = Ready(held) /\ p \notin Ready(held)
    BY <1>3, <1>5 DEF Ready
  <2>2. ASSUME NEW q \in Queue PROVE \E l : OnQueue(u, q, l, Ready(u))
    <3>1. PICK l : OnQueue(held, q, l, Ready(held))
      BY <1>4 DEF Orderly, Listed
    <3>2. {x \in Ready(u) : u.prio[x] = q} = {x \in Ready(held) : held.prio[x] = q}
      BY <1>5, <2>1 DEF Ready
    <3> QED BY <1>5, <3>1, <3>2, OtherQueue
  <2> QED BY <2>2 DEF Listed
<1>7. Turn(u)
  <2>1. held.cur = s.cur /\ held.cur \in Proc \cup {IDLE} /\ Turn(held)
    BY <1>3, <1>4, Fields DEF Kept, Orderly
  <2> QED BY <1>5, <2>1 DEF Turn
<1>8. Sound(u)
  BY <1>4, <1>5, <1>6, <1>7 DEF Sound, Orderly, Msgs, MsgOk
<1>9. Keeps(held, u)
  BY <1>5 DEF Keeps, Known
<1>10. Sound(t) /\ Keeps(u, t) /\ Kept(u, t)
  <2>1. p # u.cur
    BY <1>3, <1>5 DEF Kept
  <2> QED BY <1>1, <1>2, <1>8, <2>1, UnblockFacts
<1> QED BY <1>3, <1>5, <1>9, <1>10 DEF Keeps, Kept

\* The preempted process goes back to the lists.
LEMMA RequeueFacts ==
    ASSUME NEW s, s \in Table, Listed(s, Ready(s)), NEW p \in Proc, p = s.cur, s.rts[p] # {},
           NEW t, t = Requeue(s, p)
    PROVE  /\ t \in Table /\ Listed(t, Ready(t)) /\ Kept(s, t)
           /\ \A x \in Proc : t.rts[x] \subseteq s.rts[x]
<1> DEFINE f == s.rts[p] \ {"PREEMPTED"}
           s1 == Flagged(s, p, f)
<1>1. f \in SUBSET Flag /\ s1 = Flagged(s, p, f)
  BY Fields
<1> HIDE DEF f, s1
<1>2. /\ s1 \in Table /\ Kept(s, s1) /\ Listed(s1, Ready(s))
      /\ \A x \in Proc : s1.rts[x] = IF x = p THEN f ELSE s.rts[x]
  BY <1>1, FlaggedFacts
<1>3. t = IF "PREEMPTED" \notin s.rts[p] \/ s1.rts[p] # {} THEN s1
          ELSE IF s.left[p] > 0 THEN enqueue_head(s1, p) ELSE enqueue(s1, p)
  BY DEF Requeue, Runnable, Flagged, s1, f
<1>4. \A x \in Proc : s1.rts[x] \subseteq s.rts[x]
  BY <1>2 DEF f
<1>5. CASE "PREEMPTED" \notin s.rts[p] \/ s1.rts[p] # {}
  <2>1. t = s1
    BY <1>3, <1>5
  <2>2. s1.rts[p] # {}
    BY <1>2, <1>5 DEF f
  <2>3. Ready(s1) = Ready(s)
    BY <1>2, <2>2 DEF Ready
  <2> QED BY <1>2, <1>4, <2>1, <2>3
<1>6. CASE ~("PREEMPTED" \notin s.rts[p] \/ s1.rts[p] # {})
  <2>1. s1.rts[p] = {} /\ Ready(s1) = Ready(s) \cup {p} /\ p \notin Ready(s)
        /\ Ready(s) \in SUBSET Proc
    BY <1>2, <1>6 DEF Ready
  <2>2. CASE s.left[p] > 0
    <3>1. t = enqueue_head(s1, p)
      BY <1>3, <1>6, <2>2
    <3>2. t \in Table /\ Kept(s1, t) /\ t.rts = s1.rts /\ Listed(t, Ready(s) \cup {p})
      BY <1>2, <2>1, <3>1, AtHeadFacts
    <3>3. Ready(t) = Ready(s) \cup {p}
      BY <2>1, <3>2 DEF Ready
    <3> QED BY <1>2, <1>4, <3>2, <3>3 DEF Kept
  <2>3. CASE ~(s.left[p] > 0)
    <3>1. t = enqueue(s1, p)
      BY <1>3, <1>6, <2>3
    <3>2. Ready(s1) \ {p} = Ready(s)
      BY <2>1
    <3>3. /\ t \in Table /\ Kept(s1, t) /\ Listed(t, Ready(t))
          /\ \A x \in Proc : \/ t.rts[x] = s1.rts[x]
                             \/ /\ x = s1.cur /\ s1.prio[s1.cur] > s1.prio[p]
                                /\ t.rts[x] = s1.rts[x] \cup {"PREEMPTED"}
      BY <1>2, <2>1, <3>1, <3>2, EnqueueFacts
    <3>4. s1.cur = p /\ s1.prio[p] \in Int
      BY <1>2, Fields DEF Kept, Queue
    <3>5. ~(s1.prio[s1.cur] > s1.prio[p])
      <4> DEFINE n == s1.prio[p]
      <4>1. n \in Int /\ s1.prio[s1.cur] = n
        BY <3>4
      <4> HIDE DEF n
      <4>2. ~(n > n)
        BY <4>1
      <4> QED BY <4>1, <4>2 DEF n
    <3>6. \A x \in Proc : t.rts[x] \subseteq s.rts[x]
      BY <1>4, <3>3, <3>5
    <3> QED BY <1>2, <3>3, <3>6 DEF Kept
  <2> QED BY <2>2, <2>3
<1> QED BY <1>5, <1>6

\* The process that is picked is the first of the first list that is not empty.
LEMMA PickFacts ==
    ASSUME NEW s \in Table, Listed(s, Ready(s)), NEW t, t = [s EXCEPT !.cur = pick_proc(s)]
    PROVE  /\ Orderly(t) /\ t.cur = pick_proc(s)
           /\ t.cur # IDLE => t.rts[t.cur] = {}
           /\ \A q \in Queue : t.head[q] = s.head[q]
           /\ t.rts = s.rts /\ t.left = s.left /\ t.prio = s.prio /\ t.got = s.got
           /\ t.defer = s.defer /\ t.sendmsg = s.sendmsg
           /\ t.int = s.int /\ t.notified = s.notified
<1> DEFINE busy == {q \in Queue : s.head[q] # NULL}
           c == pick_proc(s)
<1>1. c \in Proc \cup {IDLE} /\ (c # IDLE =>
         /\ s.rts[c] = {} /\ s.prio[c] \in Queue /\ s.head[s.prio[c]] = c
         /\ \A q \in Queue : q < s.prio[c] => s.head[q] = NULL)
  <2>1. CASE busy = {}
    <3>1. c = IDLE
      BY <2>1 DEF pick_proc
    <3> QED BY <3>1
  <2>2. CASE busy # {}
    <3>1. PICK m \in busy : \A q \in busy : m <= q
      <4>1. busy \in SUBSET Nat
        BY DEF Queue
      <4> HIDE DEF busy
      <4> QED BY <2>2, <4>1, LeastNat
    <3>2. Min(busy) \in busy /\ \A q \in busy : Min(busy) <= q
      <4> HIDE DEF busy
      <4> QED BY <3>1 DEF Min
    <3>3. c = s.head[Min(busy)]
      BY <2>2 DEF pick_proc
    <3> DEFINE n == Min(busy)
    <3>4. n \in Queue /\ s.head[n] # NULL /\ \A q \in Queue : s.head[q] # NULL => n <= q
      <4> HIDE DEF n
      <4>1. n \in busy /\ \A q \in busy : n <= q
        BY <3>2 DEF n
      <4> QED BY <4>1
    <3>5. c = s.head[n]
      BY <3>3
    <3> HIDE DEF n, c
    <3>6. PICK l : OnQueue(s, n, l, Ready(s))
      BY <3>4 DEF Listed
    <3>7. Ready(s) \subseteq Proc
      BY DEF Ready
    <3>8. c \in Range(l) /\ Range(l) = {x \in Ready(s) : s.prio[x] = n}
      BY <3>4, <3>5, <3>6, <3>7, Members
    <3>9. c \in Proc /\ s.rts[c] = {} /\ s.prio[c] = n
      BY <3>8 DEF Ready
    <3>10. \A q \in Queue : q < n => s.head[q] = NULL
      <4>1. \A q \in Queue : q \in Int /\ n \in Int
        BY <3>4 DEF Queue
      <4>2. \A q \in Queue : q < n => ~(n <= q)
        BY <4>1
      <4> QED BY <3>4, <4>2
    <3> QED BY <3>4, <3>5, <3>9, <3>10
  <2> QED BY <2>1, <2>2
<1>2. t = [s EXCEPT !.cur = c]
  OBVIOUS
<1> HIDE DEF c
<1>3. /\ t \in Table /\ t.cur = c
      /\ t.head = s.head /\ t.tail = s.tail /\ t.next = s.next
      /\ t.rts = s.rts /\ t.left = s.left /\ t.prio = s.prio /\ t.got = s.got
      /\ t.defer = s.defer /\ t.sendmsg = s.sendmsg
      /\ t.int = s.int /\ t.notified = s.notified
  BY <1>1, <1>2, ZenonT(30) DEF Table
<1>4. Listed(t, Ready(t))
  <2>1. Ready(t) = Ready(s)
    BY <1>3 DEF Ready
  <2>2. ASSUME NEW q \in Queue, NEW l, OnQueue(s, q, l, Ready(s)) PROVE OnQueue(t, q, l, Ready(s))
    BY <1>3, <2>2 DEF OnQueue, Path
  <2> QED BY <2>1, <2>2 DEF Listed
<1>5. Turn(t)
  BY <1>1, <1>3 DEF Turn
<1> QED BY <1>1, <1>3, <1>4, <1>5 DEF Orderly, c

-----------------------------------------------------------------------------
(* The interrupt handlers of a line and the processes of the boot image    *)
(* are dealt with one after the other, by recursive functions.             *)

\* The handlers of an interrupt, one after the other: whoever has a hook among
\* them knows of it in the end.
LEMMA HandlersFacts ==
    ASSUME NEW s, Sound(s), Halts(s), NEW order \in Seq(Hook), NEW t,
           t = LET after[n \in 0 .. Len(order)] ==
                       IF n = 0 THEN s ELSE Notify(after[n - 1], Owner[order[n]], order[n])
               IN  after[Len(order)]
    PROVE  /\ Sound(t) /\ Halts(t) /\ Keeps(s, t)
           /\ t.cur = s.cur /\ t.left = s.left /\ t.defer = s.defer
           /\ \A i \in 1 .. Len(order) : Known(t, order[i])
<1> DEFINE N == Len(order)
           T == {x \in Table : Sound(x) /\ Halts(x)}
           F == [n \in 1 .. N |-> [x \in T |-> Notify(x, Owner[order[n]], order[n])]]
           Steps(f) == f = [n \in 0 .. N |-> IF n = 0 THEN s
                                          ELSE Notify(f[n - 1], Owner[order[n]], order[n])]
           after == CHOOSE f : Steps(f)
<1>1. N \in Nat /\ \A n \in 1 .. N : order[n] \in Hook
  BY LenProperties, ElementOfSeq
<1>2. s \in T
  BY DEF Sound, Orderly
<1>3. ASSUME NEW n \in 1 .. N, NEW x \in T PROVE Notify(x, Owner[order[n]], order[n]) \in T
  <2> DEFINE b == order[n]
             y == Notify(x, Owner[b], b)
  <2>1. b \in Hook /\ Sound(x) /\ Halts(x) /\ y = Notify(x, Owner[b], b)
    BY <1>1
  <2> HIDE DEF b, y
  <2>2. Sound(y) /\ Halts(y)
    BY <2>1, NotifyFacts
  <2> QED BY <2>2 DEF Sound, Orderly, y, b
<1>4. F \in [1 .. N -> [T -> T]]
  <2> HIDE DEF T
  <2> QED BY <1>3
<1>5. \E f \in [0 .. N -> T] : Steps(f)
  <2> HIDE DEF T, F, N
  <2>0. PICK f : Iterates(f, N, T, s, F)
    BY <1>1, <1>2, <1>4, Recursion
  <2>1. f \in [0 .. N -> T] /\ f = [n \in 0 .. N |-> IF n = 0 THEN s ELSE F[n][f[n - 1]]]
    BY <2>0 DEF Iterates
  <2>2. \A n \in 1 .. N : f[n - 1] \in T /\ n \in 0 .. N
    BY <1>1, <2>1
  <2>3. \A n \in 1 .. N : F[n][f[n - 1]] = Notify(f[n - 1], Owner[order[n]], order[n])
    BY <2>2 DEF F
  <2>4. \A n \in 0 .. N : n = 0 \/ n \in 1 .. N
    BY <1>1
  <2>5. Steps(f)
    BY <2>1, <2>3, <2>4
  <2> QED BY <2>1, <2>5
<1>6. Steps(after) /\ t = after[N]
  <2> HIDE DEF T, F, N, Steps
  <2>1. Steps(after)
    BY <1>5
  <2>2. t = after[N]
    BY DEF Steps, N
  <2> QED BY <2>1, <2>2
<1>7. /\ after[0] = s
      /\ \A n \in 1 .. N : after[n] = Notify(after[n - 1], Owner[order[n]], order[n])
  <2>1. after = [n \in 0 .. N |-> IF n = 0 THEN s
                                 ELSE Notify(after[n - 1], Owner[order[n]], order[n])]
    <3> HIDE DEF after
    <3> QED BY <1>6
  <2>2. 0 \in 0 .. N /\ \A n \in 1 .. N : n \in 0 .. N /\ n # 0
    BY <1>1
  <2> HIDE DEF after
  <2> QED BY <2>1, <2>2
<1> DEFINE Fine(n) == /\ Sound(after[n]) /\ Halts(after[n]) /\ Keeps(s, after[n])
                      /\ after[n].cur = s.cur /\ after[n].left = s.left /\ after[n].defer = s.defer
                      /\ \A i \in 1 .. n : Known(after[n], order[i])
           Bad == {n \in 0 .. N : ~Fine(n)}
<1> HIDE DEF after, N
<1>8. Fine(0)
  <2>1. \A i \in 1 .. 0 : FALSE
    OBVIOUS
  <2> QED BY <1>7, <2>1 DEF Keeps
<1>9. ASSUME NEW n \in 1 .. N, Fine(n - 1) PROVE Fine(n)
  <2> DEFINE b == order[n]
             x == after[n - 1]
             y == after[n]
  <2>1. b \in Hook /\ y = Notify(x, Owner[b], b)
    BY <1>1, <1>7
  <2>2. /\ Sound(x) /\ Halts(x) /\ Keeps(s, x)
        /\ x.cur = s.cur /\ x.left = s.left /\ x.defer = s.defer
        /\ \A i \in 1 .. n - 1 : Known(x, order[i])
    BY <1>9
  <2> HIDE DEF b, x, y
  <2>3. /\ Sound(y) /\ Halts(y) /\ Keeps(x, y) /\ Known(y, b)
        /\ y.cur = x.cur /\ y.left = x.left /\ y.defer = x.defer
    BY <2>1, <2>2, NotifyFacts
  <2>4. ASSUME NEW i \in 1 .. n PROVE Known(y, order[i])
    <3>1. i = n \/ i \in 1 .. n - 1
      BY <1>1
    <3>2. order[i] \in Hook
      BY <1>1, <3>1
    <3> QED BY <2>2, <2>3, <3>1, <3>2 DEF Keeps, b
  <2>5. Keeps(s, y)
    BY <2>2, <2>3 DEF Keeps
  <2> QED BY <2>2, <2>3, <2>4, <2>5 DEF y
<1>10. Fine(N)
  <2>1. SUFFICES ASSUME Bad # {} PROVE FALSE
    <3> HIDE DEF Fine
    <3> QED BY <1>1
  <2>2. Bad \in SUBSET Nat
    <3> HIDE DEF Fine
    <3> QED OBVIOUS
  <2> HIDE DEF Bad
  <2>3. PICK m \in Bad : \A n \in Bad : m <= n
    BY <2>1, <2>2, LeastNat
  <2> HIDE DEF Fine
  <2>4. m \in 0 .. N /\ ~Fine(m)
    BY DEF Bad
  <2>5. m # 0 => m \in 1 .. N /\ m - 1 \in 0 .. N /\ ~(m <= m - 1)
    BY <1>1, <2>4
  <2>6. m # 0 => Fine(m - 1)
    BY <2>3, <2>5 DEF Bad
  <2> QED BY <1>8, <1>9, <2>4, <2>5, <2>6
<1> QED BY <1>6, <1>10 DEF N

\* Nobody is ready before the boot image is let go.
LEMMA EmptyFacts == Sound(Empty) /\ Empty.cur = IDLE
<1>1. NoMsg \in Message /\ NoMsg.arg = {} /\ NoMsg.type = "CALL"
  BY DEF NoMsg, Message, Kind
<1>2. Empty \in Table
  <2>1. Priority \in [Proc -> Queue] /\ Quantum \in Nat
    BY SchedAssumption
  <2>2. "STOPPED" \in Flag /\ "CALL" \in Kind /\ <<>> \in Seq(Proc)
    BY DEF Flag, Kind
  <2> QED BY <1>1, <2>1, <2>2 DEF Empty, Table
<1>3. /\ Empty.cur = IDLE /\ Empty.defer = {}
      /\ \A p \in Proc : /\ Empty.rts[p] = {"STOPPED"} /\ Empty.got[p] = NoMsg
                         /\ Empty.sendmsg[p] = "CALL"
      /\ \A q \in Queue : Empty.head[q] = NULL
  BY DEF Empty
<1> HIDE DEF Empty
<1>4. Listed(Empty, Ready(Empty))
  <2>1. Ready(Empty) = {}
    BY <1>3 DEF Ready
  <2> DEFINE l == <<>>
  <2>2. l \in Seq(Proc) /\ DOMAIN l = {} /\ Len(l) = 0 /\ 1 .. Len(l) = {}
    BY EmptySeq
  <2>3. IsInjective(l) /\ Range(l) = {} /\ l = <<>>
    BY <2>2 DEF IsInjective, Range
  <2> HIDE DEF l
  <2>4. ASSUME NEW q \in Queue PROVE OnQueue(Empty, q, l, Ready(Empty))
    BY <1>3, <2>1, <2>2, <2>3 DEF OnQueue, Path
  <2> QED BY <2>4 DEF Listed
<1>5. Turn(Empty)
  BY <1>3 DEF Turn
<1>6. Msgs(Empty)
  BY <1>1, <1>3 DEF Msgs, MsgOk
<1> QED BY <1>2, <1>3, <1>4, <1>5, <1>6 DEF Sound, Orderly

\* The processes of the boot image are let go one after the other.
LEMMA BootFacts == Init => Sound(k) /\ k.cur = IDLE
<1> SUFFICES ASSUME Init PROVE Sound(k) /\ k.cur = IDLE
  OBVIOUS
<1> DEFINE N == Len(BootOrder)
           T == {x \in Table : Sound(x) /\ x.cur = IDLE}
           F == [n \in 1 .. N |-> [x \in T |-> RTS_UNSET(x, BootOrder[n], {"STOPPED"})]]
           Steps(f) == f = [n \in 0 .. N |-> IF n = 0 THEN Empty
                                          ELSE RTS_UNSET(f[n - 1], BootOrder[n], {"STOPPED"})]
           after == CHOOSE f : Steps(f)
<1>1. N \in Nat /\ \A n \in 1 .. N : BootOrder[n] \in Proc
  BY LenProperties, ElementOfSeq, SchedAssumption
<1>2. Empty \in T
  BY EmptyFacts DEF Sound, Orderly
<1>3. ASSUME NEW n \in 1 .. N, NEW x \in T PROVE RTS_UNSET(x, BootOrder[n], {"STOPPED"}) \in T
  <2> DEFINE p == BootOrder[n]
             g == "STOPPED"
             y == RTS_UNSET(x, p, {g})
  <2>1. p \in Proc /\ Sound(x) /\ x.cur = IDLE /\ y = RTS_UNSET(x, p, {g}) /\ g \in Flag
    BY <1>1 DEF Flag
  <2> HIDE DEF p, g, y
  <2>2. Sound(y) /\ Kept(x, y)
    BY <2>1, SchedAssumption, UnblockFacts
  <2> QED BY <2>1, <2>2 DEF Kept, Sound, Orderly, y, p, g
<1>4. F \in [1 .. N -> [T -> T]]
  <2> HIDE DEF T
  <2> QED BY <1>3
<1>5. \E f \in [0 .. N -> T] : Steps(f)
  <2> HIDE DEF T, F, N
  <2>0. PICK f : Iterates(f, N, T, Empty, F)
    BY <1>1, <1>2, <1>4, Recursion
  <2>1. f \in [0 .. N -> T] /\ f = [n \in 0 .. N |-> IF n = 0 THEN Empty ELSE F[n][f[n - 1]]]
    BY <2>0 DEF Iterates
  <2>2. \A n \in 1 .. N : f[n - 1] \in T /\ n \in 0 .. N
    BY <1>1, <2>1
  <2>3. \A n \in 1 .. N : F[n][f[n - 1]] = RTS_UNSET(f[n - 1], BootOrder[n], {"STOPPED"})
    BY <2>2 DEF F
  <2>4. \A n \in 0 .. N : n = 0 \/ n \in 1 .. N
    BY <1>1
  <2>5. Steps(f)
    BY <2>1, <2>3, <2>4
  <2> QED BY <2>1, <2>5
<1>6. Steps(after) /\ k = after[N]
  <2> HIDE DEF T, F, N, Steps
  <2>1. Steps(after)
    BY <1>5
  <2>2. k = after[N]
    BY DEF Init, Steps, N
  <2> QED BY <2>1, <2>2
<1>7. after[0] = Empty /\ \A n \in 1 .. N : after[n] = RTS_UNSET(after[n - 1], BootOrder[n], {"STOPPED"})
  <2>1. after = [n \in 0 .. N |-> IF n = 0 THEN Empty
                                 ELSE RTS_UNSET(after[n - 1], BootOrder[n], {"STOPPED"})]
    <3> HIDE DEF after
    <3> QED BY <1>6
  <2>2. 0 \in 0 .. N /\ \A n \in 1 .. N : n \in 0 .. N /\ n # 0
    BY <1>1
  <2> HIDE DEF after
  <2> QED BY <2>1, <2>2
<1> DEFINE Bad == {n \in 0 .. N : after[n] \notin T}
<1> HIDE DEF after, N, T
<1>8. after[N] \in T
  <2>1. SUFFICES ASSUME Bad # {} PROVE FALSE
    BY <1>1
  <2>2. Bad \in SUBSET Nat
    OBVIOUS
  <2> HIDE DEF Bad
  <2>3. PICK m \in Bad : \A n \in Bad : m <= n
    BY <2>1, <2>2, LeastNat
  <2>4. m \in 0 .. N /\ after[m] \notin T
    BY DEF Bad
  <2>5. m # 0 => m \in 1 .. N /\ m - 1 \in 0 .. N /\ ~(m <= m - 1)
    BY <1>1, <2>4
  <2>6. m # 0 => after[m - 1] \in T
    BY <2>3, <2>5 DEF Bad
  <2> QED BY <1>2, <1>3, <1>7, <2>4, <2>5, <2>6
<1> QED BY <1>6, <1>8 DEF T

-----------------------------------------------------------------------------
(* The steps of the kernel.                                                *)

\* Where the kernel is, and what it has made sure of.
Place ==
    /\ pc \in {"user", "check", "pick", "idle"}
    /\ pc \in {"user", "check"} => k.cur # IDLE /\ k.rts[k.cur] = {}
    /\ pc = "user" => k.left[k.cur] > 0 /\ k.cur \notin k.defer
    /\ pc = "pick" /\ k.cur # IDLE => k.rts[k.cur] # {}
    /\ pc = "idle" => k.cur = IDLE

KOrder == Sound(k) /\ Place

\* An entry of the kernel while p runs.
LEMMA EnterFacts ==
    ASSUME KOrder, NEW p, Runs(p), NEW t \in 0 .. 1, NEW u, u = Charged(t)
    PROVE  /\ p \in Proc /\ p = k.cur /\ k.rts[p] = {} /\ p \notin k.defer
           /\ Sound(u) /\ Keeps(k, u) /\ u.cur = p /\ u.rts = k.rts
           /\ u.got = k.got /\ u.defer = k.defer /\ u.int = k.int /\ u.notified = k.notified
<1>1. /\ pc = "user" /\ p = k.cur /\ k.rts[p] = {} /\ p \notin k.defer /\ p # IDLE
      /\ k \in Table /\ Sound(k)
  BY DEF KOrder, Place, Runs, Sound, Orderly
<1>2. p \in Proc /\ k.left[p] \in Nat
  BY <1>1, Fields
<1>3. CASE p \notin Metered
  <2>1. u = k
    BY <1>1, <1>3 DEF Charged
  <2> QED BY <1>1, <1>2, <2>1 DEF Keeps
<1>4. CASE p \in Metered
  <2> DEFINE v == IF k.left[p] > t THEN k.left[p] - t ELSE 0
  <2>1. v \in Nat
    <3> DEFINE n == k.left[p]
    <3>1. n \in Nat /\ t \in Int
      BY <1>2
    <3> HIDE DEF n
    <3>2. (IF n > t THEN n - t ELSE 0) \in Nat
      BY <3>1
    <3> QED BY <3>2 DEF n
  <2>2. u = [k EXCEPT !.left[p] = v]
    BY <1>1, <1>2, <1>4 DEF Charged, Table
  <2> HIDE DEF v
  <2>3. /\ Sound(u) /\ Keeps(k, u) /\ SameLists(k, u)
        /\ u.got = k.got /\ u.defer = k.defer /\ u.int = k.int /\ u.notified = k.notified
    BY <1>1, <1>2, <2>1, <2>2, LeftFacts
  <2> QED BY <1>1, <1>2, <2>3 DEF SameLists
<1> QED BY <1>3, <1>4

\* The way out of the kernel.
LEMMA LeaveFacts ==
    ASSUME KOrder, Sound(k'), Leaves
    PROVE  KOrder'
BY DEF KOrder, Leaves, Place, Runnable

\* A list of deferred calls.
LEMMA DeferFacts ==
    ASSUME NEW s, Sound(s), NEW D \in SUBSET Proc,
           \A p \in D : s.got[p] = NoMsg /\ "RECEIVING" \notin s.rts[p],
           NEW t, t = [s EXCEPT !.defer = D]
    PROVE  Sound(t) /\ Keeps(s, t) /\ SameLists(s, t) /\ t.got = s.got /\ t.defer = D
<1>1. s \in Table /\ Orderly(s) /\ Msgs(s)
  BY DEF Sound, Orderly
<1>2. /\ t \in Table /\ SameLists(s, t) /\ t.left = s.left
      /\ t.got = s.got /\ t.defer = D
      /\ t.int = s.int /\ t.notified = s.notified /\ t.sendmsg = s.sendmsg
  BY <1>1 DEF Table, SameLists
<1>3. Orderly(t)
  BY <1>1, <1>2, SameListsFacts
<1>4. Msgs(t)
  BY <1>1, <1>2 DEF Msgs, MsgOk, SameLists
<1>5. Keeps(s, t)
  BY <1>2 DEF Keeps, Known
<1> QED BY <1>2, <1>3, <1>4, <1>5 DEF Sound

\* What may be left of a message that is dealt with.
Rest(s, p, m) ==
    \/ m = NoMsg
    \/ m.type = "HARDWARE" /\ "RECEIVING" \notin s.rts[p] /\ p \notin s.defer

Took(s, t, p, m) == \A x \in Proc : t.got[x] = IF x = p THEN m ELSE s.got[x]

LEMMA GotFacts ==
    ASSUME NEW s, Sound(s), NEW p \in Proc, NEW m \in Message, Rest(s, p, m), NEW t, t = [s EXCEPT !.got[p] = m]
    PROVE  Sound(t) /\ Took(s, t, p, m) /\ t.int = s.int /\ t.notified = s.notified
<1>1. s \in Table /\ Orderly(s) /\ Msgs(s)
  BY DEF Sound, Orderly
<1>2. /\ t \in Table /\ SameLists(s, t) /\ t.left = s.left
      /\ \A x \in Proc : t.got[x] = IF x = p THEN m ELSE s.got[x]
      /\ t.int = s.int /\ t.notified = s.notified /\ t.sendmsg = s.sendmsg /\ t.defer = s.defer
  BY <1>1 DEF Table, SameLists
<1>3. Orderly(t)
  BY <1>1, <1>2, SameListsFacts
<1>4. ASSUME NEW x \in Proc PROVE MsgOk(t, x)
  <2>1. MsgOk(s, x) /\ t.rts = s.rts
    BY <1>1, <1>2 DEF Msgs, SameLists
  <2>2. CASE x = p
    <3>1. t.got[x] = m
      BY <1>2, <2>2
    <3>2. NoMsg.type = "CALL" /\ NoMsg.arg = {}
      BY DEF NoMsg
    <3> QED BY <1>2, <2>1, <2>2, <3>1, <3>2 DEF MsgOk, Rest
  <2>3. CASE x # p
    BY <1>2, <2>1, <2>3 DEF MsgOk
  <2> QED BY <2>2, <2>3
<1> QED BY <1>2, <1>3, <1>4 DEF Sound, Msgs, Took

\* A call that is made.
LEMMA PerformedFacts ==
    ASSUME NEW s, Sound(s), NEW p \in Proc, p = s.cur, s.rts[p] = {},
           s.got[p] = NoMsg, p \notin s.defer,
           NEW t, t \in Performed(s, p)
    PROVE  Sound(t) /\ Keeps(s, t) /\ Steady(s, t)
<1>1. CASE p \in Server
  <2>1. t = ReceiveAny(s, p)
    BY <1>1 DEF Performed
  <2> QED BY <1>1, <2>1, ReceiveFacts
<1>2. CASE p \notin Server
  <2>1. PICK d \in Asks[p] : t = Sendrec(s, p, d)
    BY <1>2 DEF Performed
  <2>2. d \in Server /\ d # p
    BY <1>2, SchedAssumption
  <2> QED BY <2>1, <2>2, SendrecFacts
<1> QED BY <1>1, <1>2

LEMMA PickNewStep ==
    ASSUME KOrder, PickNew
    PROVE  KOrder' /\ Keeps(k, k')
<1>1. /\ pc = "pick" /\ k \in Table /\ Listed(k, Ready(k)) /\ Msgs(k)
      /\ k.cur # IDLE => k.cur \in Proc /\ k.rts[k.cur] # {}
  BY Fields DEF PickNew, KOrder, Place, Sound, Orderly
<1> DEFINE s == IF k.cur = IDLE THEN k ELSE Requeue(k, k.cur)
<1>2. /\ s \in Table /\ Listed(s, Ready(s)) /\ Kept(k, s)
      /\ \A x \in Proc : s.rts[x] \subseteq k.rts[x]
  <2>1. CASE k.cur = IDLE
    BY <1>1, <2>1 DEF Kept
  <2>2. CASE k.cur # IDLE
    <3>1. s = Requeue(k, k.cur)
      BY <2>2
    <3> DEFINE p == k.cur
    <3>2. p \in Proc /\ k.rts[p] # {} /\ s = Requeue(k, p) /\ p = k.cur
      BY <1>1, <2>2, <3>1
    <3> HIDE DEF s, p
    <3> QED BY <1>1, <3>2, RequeueFacts
  <2> QED BY <2>1, <2>2
<1>3. k' = [s EXCEPT !.cur = pick_proc(s)] /\ pc' = IF k'.cur = IDLE THEN "idle" ELSE "check"
  BY DEF PickNew
<1> HIDE DEF s
<1>4. /\ Orderly(k') /\ (k'.cur # IDLE => k'.rts[k'.cur] = {})
      /\ k'.rts = s.rts /\ k'.got = s.got /\ k'.defer = s.defer /\ k'.sendmsg = s.sendmsg
      /\ k'.int = s.int /\ k'.notified = s.notified
  BY <1>2, <1>3, PickFacts
<1>5. /\ k'.got = k.got /\ k'.defer = k.defer /\ k'.sendmsg = k.sendmsg
      /\ k'.int = k.int /\ k'.notified = k.notified
  BY <1>2, <1>4 DEF Kept
<1>6. ASSUME NEW x \in Proc PROVE MsgOk(k', x)
  <2>1. MsgOk(k, x) /\ ("RECEIVING" \in k'.rts[x] => "RECEIVING" \in k.rts[x])
    BY <1>1, <1>2, <1>4 DEF Msgs
  <2> QED BY <1>5, <2>1 DEF MsgOk
<1>7. Place'
  BY <1>3, <1>4 DEF Place
<1>8. Keeps(k, k')
  BY <1>5 DEF Keeps, Known
<1> QED BY <1>4, <1>6, <1>7, <1>8 DEF KOrder, Sound, Msgs

LEMMA CheckStep ==
    ASSUME KOrder, Check
    PROVE  KOrder' /\ Keeps(k, k')
<1> DEFINE p == k.cur
<1>1. /\ pc = "check" /\ p \in Proc /\ k.rts[p] = {} /\ Sound(k) /\ MsgOk(k, p)
      /\ k.defer \in SUBSET Proc
  <2>1. pc = "check" /\ p # IDLE /\ k.rts[p] = {} /\ Sound(k) /\ k \in Table
    BY DEF Check, KOrder, Place, Sound, Orderly
  <2>2. p \in Proc /\ k.defer \in SUBSET Proc
    BY <2>1, Fields
  <2> QED BY <2>1, <2>2 DEF Sound, Msgs
<1>2. \E s : /\ k' = TimeCheck(s, p) /\ Sound(s) /\ Keeps(k, s) /\ p = s.cur /\ p \notin s.defer
  <2>1. CASE p \in k.defer
    <3> DEFINE D == k.defer \ {p}
               u == [k EXCEPT !.defer = D]
    <3>1. PICK s \in Performed(u, p) : k' = TimeCheck(s, p)
      BY <2>1 DEF Check
    <3>2. D \in SUBSET Proc /\ u = [k EXCEPT !.defer = D] /\ p \notin D
      BY <1>1
    <3>3. \A x \in D : k.got[x] = NoMsg /\ "RECEIVING" \notin k.rts[x]
      BY <1>1 DEF Sound, Msgs, MsgOk
    <3> HIDE DEF D, u
    <3>4. Sound(u) /\ Keeps(k, u) /\ SameLists(k, u) /\ u.got = k.got /\ u.defer = D
      BY <1>1, <3>2, <3>3, DeferFacts
    <3>5. Sound(s) /\ Keeps(u, s) /\ Steady(u, s)
      <4>1. p = u.cur /\ u.rts[p] = {} /\ u.got[p] = NoMsg /\ p \notin u.defer
        BY <1>1, <2>1, <3>2, <3>4 DEF SameLists, MsgOk
      <4> HIDE DEF p
      <4> QED BY <1>1, <3>1, <3>4, <4>1, PerformedFacts
    <3> QED BY <3>1, <3>2, <3>4, <3>5 DEF Keeps, Steady, SameLists
  <2>2. CASE p \notin k.defer
    BY <1>1, <2>2 DEF Check, Keeps
  <2> QED BY <2>1, <2>2
<1>3. PICK s : /\ k' = TimeCheck(s, p) /\ Sound(s) /\ Keeps(k, s) /\ p = s.cur /\ p \notin s.defer
  BY <1>2
<1>4. pc' = IF k'.rts[p] = {} THEN "user" ELSE "pick"
  BY DEF Check, Runnable
<1> HIDE DEF p
<1>5. /\ Sound(k') /\ Keeps(s, k') /\ k'.cur = p /\ p \notin k'.defer
      /\ k'.rts[p] = {} => k'.left[p] > 0
  BY <1>1, <1>3, TimeFacts
<1>6. Place'
  <2>1. p # IDLE
    BY <1>1, SchedAssumption
  <2> QED BY <1>4, <1>5, <2>1 DEF Place
<1>7. Keeps(k, k')
  BY <1>3, <1>5 DEF Keeps
<1> QED BY <1>5, <1>6, <1>7 DEF KOrder

LEMMA TickStep ==
    ASSUME KOrder, NEW p, Tick(p)
    PROVE  KOrder' /\ Keeps(k, k')
<1>1. PICK t \in 0 .. 1 : k' = Charged(t)
  BY DEF Tick
<1>2. Sound(k') /\ Keeps(k, k')
  BY <1>1, EnterFacts DEF Tick
<1> QED BY <1>2, LeaveFacts DEF Tick

LEMMA CallStep ==
    ASSUME KOrder, NEW p, Call(p)
    PROVE  KOrder' /\ Keeps(k, k')
<1>1. Runs(p) /\ k.got[p] = NoMsg /\ Leaves
  BY DEF Call
<1>2. PICK t \in 0 .. 1 :
        LET s == Charged(t)
        IN  IF p \in Traced
            THEN k' = [RTS_SET(s, p, {"STOPPED"}) EXCEPT !.defer = @ \cup {p}]
            ELSE k' \in Performed(s, p)
  BY DEF Call
<1> DEFINE s == Charged(t)
<1>3. s = Charged(t) /\ IF p \in Traced
                        THEN k' = [RTS_SET(s, p, {"STOPPED"}) EXCEPT !.defer = @ \cup {p}]
                        ELSE k' \in Performed(s, p)
  BY <1>2
<1> HIDE DEF s
<1>4. /\ p \in Proc /\ k.rts[p] = {} /\ p \notin s.defer
      /\ Sound(s) /\ Keeps(k, s) /\ s.cur = p /\ s.rts[p] = {} /\ s.got[p] = NoMsg
  BY <1>1, <1>3, EnterFacts
<1>5. Sound(k') /\ Keeps(s, k')
  <2>1. CASE p \in Traced
    <3> DEFINE g == "STOPPED"
               u == RTS_SET(s, p, {g})
    <3>1. g \in Flag /\ g # "RECEIVING" /\ u = RTS_SET(s, p, {g})
          /\ k' = [u EXCEPT !.defer = u.defer \cup {p}]
      BY <1>3, <2>1 DEF Flag
    <3> HIDE DEF g, u
    <3>2. Sound(u) /\ Keeps(s, u) /\ Kept(s, u) /\ Sets(s, u, p, {g})
      BY <1>4, <3>1, BlockFacts
    <3>3. u.defer \in SUBSET Proc /\ Msgs(u)
      <4>1. u \in Table
        BY <3>2 DEF Sound, Orderly
      <4> QED BY <3>2, <4>1, Fields DEF Sound
    <3>4. u.got[p] = NoMsg /\ "RECEIVING" \notin u.rts[p]
      BY <1>4, <3>1, <3>2 DEF Kept, Sets
    <3> DEFINE D == u.defer \cup {p}
    <3>5. D \in SUBSET Proc /\ k' = [u EXCEPT !.defer = D]
      BY <1>4, <3>1, <3>3
    <3>6. \A x \in D : u.got[x] = NoMsg /\ "RECEIVING" \notin u.rts[x]
      BY <3>3, <3>4 DEF Msgs, MsgOk
    <3> HIDE DEF D
    <3>7. Sound(k') /\ Keeps(u, k')
      BY <3>2, <3>5, <3>6, DeferFacts
    <3> QED BY <3>2, <3>7 DEF Keeps
  <2>2. CASE p \notin Traced
    <3>1. k' \in Performed(s, p)
      BY <1>3, <2>2
    <3> QED BY <1>4, <3>1, PerformedFacts
  <2> QED BY <2>1, <2>2
<1>6. Keeps(k, k')
  BY <1>4, <1>5 DEF Keeps
<1> QED BY <1>1, <1>5, <1>6, LeaveFacts

\* A message is told from no message by its parts.
LEMMA NoMsgIs ==
    ASSUME NEW m \in Message, m.from = IDLE, m.type = "CALL", m.arg = {}
    PROVE  m = NoMsg
BY DEF Message, NoMsg

LEMMA ReplyStep ==
    ASSUME KOrder, NEW p, Reply(p)
    PROVE  KOrder' /\ Keeps(k, k')
<1>1. Runs(p) /\ k.got[p] # NoMsg /\ k.got[p].type = "CALL" /\ Leaves
  BY DEF Reply
<1> DEFINE d == k.got[p].from
<1>2. PICK t \in 0 .. 1 : k' = [Answer(Charged(t), d) EXCEPT !.got[p] = NoMsg]
  BY DEF Reply
<1> DEFINE s == Charged(t)
           u == Answer(s, d)
<1>3. s = Charged(t) /\ u = Answer(s, d) /\ k' = [u EXCEPT !.got[p] = NoMsg]
  BY <1>2
<1> HIDE DEF s, u
<1>4. /\ p \in Proc /\ k.rts[p] = {} /\ k \in Table /\ MsgOk(k, p)
      /\ Sound(s) /\ Keeps(k, s) /\ s.cur = p /\ s.rts[p] = {} /\ s.got = k.got
  <2>1. /\ p \in Proc /\ k.rts[p] = {}
        /\ Sound(s) /\ Keeps(k, s) /\ s.cur = p /\ s.rts = k.rts /\ s.got = k.got
    BY <1>1, <1>3, EnterFacts
  <2> QED BY <2>1 DEF KOrder, Sound, Orderly, Msgs
<1>5. d \in Proc /\ k.got[p].arg = {}
  <2>1. k.got[p] \in Message /\ k.got[p].arg = {}
    BY <1>1, <1>4, Fields DEF MsgOk
  <2>2. d \in Proc \cup {IDLE}
    BY <2>1 DEF Message
  <2>3. d # IDLE
    BY <1>1, <2>1, NoMsgIs
  <2> QED BY <2>1, <2>2, <2>3
<1> HIDE DEF d
<1>6. Sound(u) /\ Keeps(s, u) /\ u.got = s.got
  <2>1. CASE d = s.cur
    BY <1>3, <1>4, <2>1 DEF Answer, WILLRECEIVE, Keeps
  <2>2. CASE d # s.cur
    BY <1>3, <1>4, <1>5, <2>2, AnswerFacts
  <2> QED BY <2>1, <2>2
<1>7. /\ Sound(k') /\ k'.int = u.int /\ k'.notified = u.notified
      /\ \A x \in Proc : k'.got[x] = IF x = p THEN NoMsg ELSE u.got[x]
  <2> DEFINE m == NoMsg
  <2>1. m \in Message /\ m = NoMsg /\ Rest(u, p, m) /\ k' = [u EXCEPT !.got[p] = m]
    BY <1>3 DEF NoMsg, Message, Kind, Rest
  <2> HIDE DEF m
  <2>2. Sound(k') /\ Took(u, k', p, m) /\ k'.int = u.int /\ k'.notified = u.notified
    BY <1>4, <1>6, <2>1, GotFacts
  <2> QED BY <2>1, <2>2 DEF Took
<1>8. ASSUME NEW h \in Hook, Known(k, h) PROVE Known(k', h)
  <2>1. Known(u, h) /\ Owner[h] \in Proc /\ (Owner[h] = p => h \notin u.got[p].arg)
    BY <1>4, <1>5, <1>6, <1>8, KernelAssumption, SchedAssumption DEF Keeps
  <2> QED BY <1>7, <2>1 DEF Known
<1> QED BY <1>1, <1>7, <1>8, LeaveFacts DEF Keeps

LEMMA ScheduleStep ==
    ASSUME KOrder, Schedule
    PROVE  KOrder' /\ Keeps(k, k')
<1> DEFINE p == k.got[SCHED].from
<1>1. Runs(SCHED) /\ k.got[SCHED].type = "NO_QUANTUM" /\ Leaves
  BY DEF Schedule
<1>2. PICK t \in 0 .. 1, q \in UserQueue :
        k' = [sched_proc(Charged(t), p, q) EXCEPT !.got[SCHED] = NoMsg]
  BY DEF Schedule
<1> DEFINE s == Charged(t)
           u == sched_proc(s, p, q)
<1>3. /\ s = Charged(t) /\ u = sched_proc(s, p, q) /\ k' = [u EXCEPT !.got[SCHED] = NoMsg]
      /\ q \in Queue
  BY <1>2, SchedAssumption
<1> HIDE DEF s, u
<1>4. /\ SCHED \in Proc /\ MsgOk(k, SCHED)
      /\ Sound(s) /\ Keeps(k, s) /\ s.cur = SCHED
  <2> DEFINE c == SCHED
  <2>1. Runs(c)
    BY <1>1
  <2> HIDE DEF c
  <2>2. c \in Proc /\ Sound(s) /\ Keeps(k, s) /\ s.cur = c
    BY <1>3, <2>1, EnterFacts
  <2> QED BY <2>2 DEF c, KOrder, Sound, Msgs
<1>5. p \in Proc /\ p # s.cur
  BY <1>1, <1>4, SchedAssumption DEF MsgOk
<1> HIDE DEF p
<1>6. Sound(u) /\ Keeps(s, u)
  BY <1>3, <1>4, <1>5, SchedFacts
<1>7. /\ Sound(k') /\ k'.int = u.int /\ k'.notified = u.notified
      /\ \A x \in Proc : k'.got[x] = IF x = SCHED THEN NoMsg ELSE u.got[x]
  <2> DEFINE m == NoMsg
             c == SCHED
  <2>1. m \in Message /\ m = NoMsg /\ c \in Proc /\ Rest(u, c, m)
        /\ k' = [u EXCEPT !.got[c] = m]
    BY <1>3, <1>4 DEF NoMsg, Message, Kind, Rest
  <2> HIDE DEF m, c
  <2>2. Sound(k') /\ Took(u, k', c, m) /\ k'.int = u.int /\ k'.notified = u.notified
    BY <1>6, <2>1, GotFacts
  <2> QED BY <2>1, <2>2 DEF c, Took
<1>8. ASSUME NEW h \in Hook, Known(k, h) PROVE Known(k', h)
  <2>1. Known(u, h) /\ Owner[h] \in Proc /\ Owner[h] # SCHED
    BY <1>4, <1>6, <1>8, KernelAssumption, SchedAssumption DEF Keeps
  <2> QED BY <1>7, <2>1 DEF Known
<1> QED BY <1>1, <1>7, <1>8, LeaveFacts DEF Keeps

LEMMA BalanceStep ==
    ASSUME KOrder, NEW p, Balance(p)
    PROVE  KOrder' /\ Keeps(k, k')
<1>1. Runs(SCHED) /\ p \in Scheduled /\ Leaves
  BY DEF Balance
<1>2. PICK t \in 0 .. 1, q \in UserQueue : k' = sched_proc(Charged(t), p, q)
  BY DEF Balance
<1> DEFINE s == Charged(t)
<1>3. s = Charged(t) /\ k' = sched_proc(s, p, q) /\ q \in Queue
  BY <1>2, SchedAssumption
<1> HIDE DEF s
<1>4. Sound(s) /\ Keeps(k, s) /\ s.cur = SCHED
  <2> DEFINE c == SCHED
  <2>1. Runs(c)
    BY <1>1
  <2> HIDE DEF c
  <2>2. Sound(s) /\ Keeps(k, s) /\ s.cur = c
    BY <1>3, <2>1, EnterFacts
  <2> QED BY <2>2 DEF c
<1>5. p \in Proc /\ p # s.cur
  BY <1>1, <1>4, SchedAssumption
<1>6. Sound(k') /\ Keeps(s, k')
  BY <1>3, <1>4, <1>5, SchedFacts
<1>7. Keeps(k, k')
  BY <1>4, <1>6 DEF Keeps
<1> QED BY <1>1, <1>6, <1>7, LeaveFacts

LEMMA StopStep ==
    ASSUME KOrder, NEW m, NEW p \in Proc, Stop(m, p) \/ Continue(m, p)
    PROVE  KOrder' /\ Keeps(k, k')
<1> DEFINE g == "STOPPED"
<1>1. Runs(m) /\ Leaves /\ g \in Flag /\ g # "RECEIVING"
  BY DEF Stop, Continue, Flag
<1>2. PICK t \in 0 .. 1 : \/ k' = RTS_SET(Charged(t), p, {g})
                          \/ g \in k.rts[p] /\ k' = RTS_UNSET(Charged(t), p, {g})
  BY DEF Stop, Continue
<1> DEFINE s == Charged(t)
<1>3. /\ s = Charged(t)
      /\ \/ k' = RTS_SET(s, p, {g})
         \/ g \in k.rts[p] /\ k' = RTS_UNSET(s, p, {g})
  BY <1>2
<1> HIDE DEF s, g
<1>4. Sound(s) /\ Keeps(k, s) /\ s.cur = m /\ k.rts[m] = {}
  BY <1>1, <1>3, EnterFacts
<1>5. Sound(k') /\ Keeps(s, k')
  <2>1. CASE k' = RTS_SET(s, p, {g})
    BY <1>1, <1>4, <2>1, BlockFacts
  <2>2. CASE g \in k.rts[p] /\ k' = RTS_UNSET(s, p, {g})
    <3>1. p # s.cur
      BY <1>4, <2>2
    <3> QED BY <1>1, <1>4, <2>2, <3>1, UnblockFacts
  <2> QED BY <1>3, <2>1, <2>2
<1>6. Keeps(k, k')
  BY <1>4, <1>5 DEF Keeps
<1> QED BY <1>1, <1>5, <1>6, LeaveFacts

\* The hooks of a line in some order.
LEMMA Orders ==
    ASSUME NEW S \in SUBSET Hook, NEW order \in SetToSeqs(S)
    PROVE  order \in Seq(Hook) /\ \A h \in S : \E i \in 1 .. Len(order) : order[i] = h
<1> DEFINE n == Cardinality(S)
<1>1. IsFiniteSet(S) /\ n \in Nat
  BY KernelAssumption, FS_Subset, FS_CardinalityType
<1>2. order \in [1 .. n -> S] /\ \A i, j \in 1 .. n : i # j => order[i] # order[j]
  BY DEF SetToSeqs
<1>3. order \in Injection(1 .. n, S)
  BY <1>2 DEF Injection, IsInjective
<1>4. IsFiniteSet(1 .. n) /\ Cardinality(1 .. n) = n
  BY <1>1, FS_Interval
<1>5. order \in Surjection(1 .. n, S)
  BY <1>1, <1>3, <1>4, FS_Injection
<1> HIDE DEF n
<1>6. order \in Seq(Hook) /\ Len(order) = n
  <2>1. order \in [1 .. n -> Hook]
    BY <1>2
  <2> QED BY <1>1, <2>1, SeqDef, LenProperties
<1> QED BY <1>5, <1>6 DEF Surjection

LEMMA IrqStep ==
    ASSUME KOrder, IrqTypeOK, NEW l \in Line, Irq(l)
    PROVE  KOrder' /\ Keeps(k, k') /\ \A h \in irq_handlers[l] : Known(k', h)
<1>1. pc \in {"user", "idle"} /\ Leaves
  BY DEF Irq
<1>2. PICK t \in 0 .. 1, order \in SetToSeqs(irq_handlers[l]) :
        k' = LET after[n \in 0 .. Len(order)] ==
                     IF n = 0 THEN Charged(t) ELSE Notify(after[n - 1], Owner[order[n]], order[n])
             IN  after[Len(order)]
  BY DEF Irq
<1> DEFINE s == Charged(t)
<1>3. s = Charged(t) /\ k' = LET after[n \in 0 .. Len(order)] ==
                                    IF n = 0 THEN s ELSE Notify(after[n - 1], Owner[order[n]], order[n])
                            IN  after[Len(order)]
  BY <1>2
<1>4. order \in Seq(Hook) /\ \A h \in irq_handlers[l] : \E i \in 1 .. Len(order) : order[i] = h
  <2>1. irq_handlers[l] \in SUBSET Hook
    BY DEF IrqTypeOK
  <2> QED BY <1>2, <2>1, Orders
<1> HIDE DEF s
<1>5. Sound(s) /\ Keeps(k, s) /\ Halts(s)
  <2>1. CASE pc = "user"
    <3> DEFINE p == k.cur
    <3>1. Runs(p)
      BY <2>1 DEF Runs
    <3> HIDE DEF p
    <3>2. Sound(s) /\ Keeps(k, s) /\ s.cur = p /\ s.rts[p] = {}
      BY <1>3, <3>1, EnterFacts
    <3> QED BY <3>2 DEF Halts
  <2>2. CASE pc = "idle"
    <3>1. k.cur = IDLE /\ IDLE \notin Metered
      BY <2>2, SchedAssumption DEF KOrder, Place
    <3>2. s = k
      BY <1>3, <3>1 DEF Charged
    <3> QED BY <3>1, <3>2 DEF KOrder, Halts, Keeps
  <2> QED BY <1>1, <2>1, <2>2
<1>6. /\ Sound(k') /\ Halts(k') /\ Keeps(s, k')
      /\ \A i \in 1 .. Len(order) : Known(k', order[i])
  BY <1>3, <1>4, <1>5, HandlersFacts
<1>7. Keeps(k, k')
  BY <1>5, <1>6 DEF Keeps
<1> QED BY <1>1, <1>4, <1>6, <1>7, LeaveFacts

LEMMA ServeStep ==
    ASSUME KOrder, NEW h \in Hook, Serve(h)
    PROVE  KOrder' /\ \A g \in Hook : g # h /\ Known(k, g) => Known(k', g)
<1> DEFINE p == Owner[h]
           old == k.got[p]
           rest == old.arg \ {h}
           m == IF rest = {} THEN NoMsg ELSE [old EXCEPT !.arg = rest]
<1>1. Runs(p) /\ h \in old.arg /\ Leaves
  BY DEF Serve
<1>2. PICK t \in 0 .. 1 :
        k' = [Charged(t) EXCEPT !.got[p] = IF rest = {} THEN NoMsg ELSE [@ EXCEPT !.arg = rest]]
  BY DEF Serve
<1> DEFINE s == Charged(t)
<1>3. /\ s = Charged(t)
      /\ k' = [s EXCEPT !.got[p] = IF rest = {} THEN NoMsg ELSE [@ EXCEPT !.arg = rest]]
  BY <1>2
<1> HIDE DEF s, p
<1>4. /\ p \in Proc /\ k \in Table /\ MsgOk(k, p)
      /\ Sound(s) /\ Keeps(k, s) /\ s.rts[p] = {} /\ p \notin s.defer
      /\ s.got = k.got /\ s.int = k.int /\ s.notified = k.notified
  <2>1. /\ p \in Proc /\ p \notin k.defer /\ s.defer = k.defer
        /\ Sound(s) /\ Keeps(k, s) /\ k.rts[p] = {} /\ s.rts = k.rts
        /\ s.got = k.got /\ s.int = k.int /\ s.notified = k.notified
    BY <1>1, <1>3, EnterFacts
  <2> QED BY <2>1 DEF KOrder, Sound, Orderly, Msgs
<1>5. old \in Message /\ old.type = "HARDWARE"
  BY <1>1, <1>4, Fields DEF MsgOk
<1>6. m \in Message /\ m.arg = rest /\ Rest(s, p, m)
  <2>1. CASE rest = {}
    BY <2>1 DEF NoMsg, Message, Kind, Rest
  <2>2. CASE rest # {}
    <3>1. m = [old EXCEPT !.arg = rest] /\ rest \in SUBSET Bit
      BY <1>5, <2>2 DEF Message
    <3> HIDE DEF rest, m, old
    <3> QED BY <1>4, <1>5, <3>1 DEF Message, Rest
  <2> QED BY <2>1, <2>2
<1>7. k' = [s EXCEPT !.got[p] = m]
  <2>1. s.got[p] = old /\ s \in Table
    BY <1>4 DEF Sound, Orderly
  <2> HIDE DEF rest, old
  <2> QED BY <1>3, <1>4, <2>1 DEF Table
<1> HIDE DEF m
<1>8. Sound(k') /\ Took(s, k', p, m) /\ k'.int = s.int /\ k'.notified = s.notified
  BY <1>4, <1>6, <1>7, GotFacts
<1>9. ASSUME NEW g \in Hook, g # h, Known(k, g) PROVE Known(k', g)
  <2>1. Owner[g] \in Proc
    BY KernelAssumption, SchedAssumption
  <2>2. CASE Owner[g] = p
    <3>1. k'.got[p] = m /\ k'.int = k.int /\ k'.notified = k.notified
      BY <1>4, <1>8 DEF Took
    <3> QED BY <1>6, <1>9, <2>2, <3>1 DEF Known
  <2>3. CASE Owner[g] # p
    BY <1>4, <1>8, <1>9, <2>1, <2>3 DEF Known, Took
  <2> QED BY <2>2, <2>3
<1> QED BY <1>1, <1>8, <1>9, LeaveFacts

LEMMA IrqCallStep ==
    ASSUME KOrder, NEW h \in Hook, IrqCall(h)
    PROVE  KOrder' /\ Keeps(k, k')
<1>1. Runs(Owner[h]) /\ Leaves
  BY DEF IrqCall
<1>2. PICK t \in 0 .. 1 : k' = Charged(t)
  BY DEF IrqCall
<1>3. Sound(k') /\ Keeps(k, k')
  <2> DEFINE p == Owner[h]
  <2>1. Runs(p)
    BY <1>1
  <2> HIDE DEF p
  <2> QED BY <1>2, <2>1, EnterFacts
<1> QED BY <1>1, <1>3, LeaveFacts

-----------------------------------------------------------------------------
(* The kernel as a whole.                                                  *)

\* The active hooks their drivers know of.
Ack ==
    \A h \in Hook : Registered(h) /\ id[h] \in irq_actids[LineOf[h]] => h \in off \/ Known(k, h)

\* The scheduler's part of a step.
LEMMA SchedulingStep ==
    ASSUME KOrder, Scheduling
    PROVE  KOrder' /\ Keeps(k, k')
<1>1. CASE Switch
  BY <1>1, PickNewStep, CheckStep DEF Switch
<1>2. CASE Schedule
  BY <1>2, ScheduleStep
<1>3. ASSUME NEW p \in Proc, UserStep(p) PROVE KOrder' /\ Keeps(k, k')
  <2>1. CASE Tick(p)
    BY <2>1, TickStep
  <2>2. CASE Call(p)
    BY <2>2, CallStep
  <2>3. CASE Reply(p)
    BY <2>3, ReplyStep
  <2>4. CASE Balance(p)
    BY <2>4, BalanceStep
  <2>5. ASSUME NEW o \in Proc, Stop(p, o) \/ Continue(p, o) PROVE KOrder' /\ Keeps(k, k')
    BY <2>5, StopStep
  <2> QED BY <1>3, <2>1, <2>2, <2>3, <2>4, <2>5 DEF UserStep
<1> QED BY <1>1, <1>2, <1>3 DEF Scheduling

LEMMA HooksStep ==
    ASSUME KOrder, NEW h \in Hook, Hooks(h)
    PROVE  KOrder' /\ Keeps(k, k')
<1>1. IrqCall(h)
  BY DEF Hooks, SetHook, RemoveHook, DisableHook, EnableHook
<1> QED BY <1>1, IrqCallStep

LEMMA OrderKept == KOrder /\ KInv /\ [KNext]_kvars => KOrder'
<1> SUFFICES ASSUME KOrder, KInv, [KNext]_kvars PROVE KOrder'
  OBVIOUS
<1>1. CASE Scheduling
  BY <1>1, SchedulingStep
<1>2. ASSUME NEW h \in Hook, Raise(h) PROVE KOrder'
  BY <1>2 DEF Raise, vars, KOrder, Place
<1>3. ASSUME NEW h \in Hook, Serve(h) PROVE KOrder'
  BY <1>3, ServeStep
<1>4. ASSUME NEW h \in Hook, Hooks(h) PROVE KOrder'
  BY <1>4, HooksStep
<1>5. ASSUME NEW l \in Line, Irq(l) PROVE KOrder'
  BY <1>5, IrqStep DEF KInv, IrqInv
<1>6. CASE UNCHANGED kvars
  BY <1>6 DEF kvars, KOrder, Place
<1> QED BY <1>1, <1>2, <1>3, <1>4, <1>5, <1>6 DEF KNext

\* What the running process has to do with pick_proc.
LEMMA PickedFirst ==
    ASSUME NEW s \in Table, NEW p \in Proc, s.head[s.prio[p]] = p,
           \A q \in Queue : q < s.prio[p] => s.head[q] = NULL
    PROVE  pick_proc(s) = p
<1> DEFINE busy == {q \in Queue : s.head[q] # NULL}
           n == s.prio[p]
<1>1. n \in Queue /\ p # NULL
  BY SchedAssumption DEF Table
<1>2. n \in busy
  BY <1>1
<1>3. \A q \in Queue : q \in Int /\ n \in Int
  BY <1>1 DEF Queue
<1>4. \A q \in busy : n <= q
  <2>1. \A q \in Queue : ~(q < n) => n <= q
    <3> HIDE DEF n
    <3> QED BY <1>3
  <2> QED BY <2>1
<1>5. Min(busy) \in busy /\ \A q \in busy : Min(busy) <= q
  <2> HIDE DEF busy, n
  <2> QED BY <1>2, <1>4 DEF Min
<1>6. Min(busy) = n
  <2> DEFINE m == Min(busy)
  <2>1. m \in busy /\ m <= n /\ n <= m
    BY <1>2, <1>4, <1>5
  <2>2. m \in Int /\ n \in Int
    BY <1>3, <2>1
  <2> HIDE DEF m, n
  <2> QED BY <2>1, <2>2 DEF m
<1>7. pick_proc(s) = s.head[Min(busy)]
  BY <1>2 DEF pick_proc
<1> QED BY <1>6, <1>7

LEMMA OrderLists == KOrder => ListsMatch
<1> SUFFICES ASSUME KOrder, NEW q \in Queue
             PROVE  LET list == ReadyList(k, q)
                    IN  /\ Len(list) = Cardinality(ToSet(list))
                        /\ ToSet(list) = {p \in Proc : Runnable(k, p) /\ k.prio[p] = q}
                        /\ list # << >> => k.tail[q] = Last(list)
  BY DEF ListsMatch
<1>1. PICK l : OnQueue(k, q, l, Ready(k))
  BY DEF KOrder, Sound, Orderly, Listed
<1>2. Path(k, q, l) /\ l \in Seq(Proc) /\ IsInjective(l)
  BY <1>1 DEF OnQueue, Path
<1>3. ReadyList(k, q) = l
  BY <1>2, Walked
<1>4. Len(l) = Cardinality(ToSet(l))
  BY <1>2, ShortLists
<1>5. ToSet(l) = Range(l)
  BY DEF ToSet, Range
<1>6. Range(l) = {p \in Proc : Runnable(k, p) /\ k.prio[p] = q}
  BY <1>1 DEF OnQueue, Ready, Runnable
<1>7. l # <<>> => k.tail[q] = Last(l)
  BY <1>1 DEF OnQueue, Last
<1> QED BY <1>3, <1>4, <1>5, <1>6, <1>7

LEMMA OrderTurn == KOrder => RunsInTurn
<1> SUFFICES ASSUME KOrder, pc = "user"
             PROVE  /\ Runnable(k, k.cur) /\ k.left[k.cur] > 0
                    /\ k.head[k.prio[k.cur]] = k.cur
                    /\ k.cur \in Preemptible => k.cur = pick_proc(k)
  BY DEF RunsInTurn
<1>1. k \in Table /\ Turn(k) /\ k.cur # IDLE /\ k.rts[k.cur] = {} /\ k.left[k.cur] > 0
  BY DEF KOrder, Place, Sound, Orderly
<1>2. k.cur \in Proc
  BY <1>1, Fields
<1>3. k.head[k.prio[k.cur]] = k.cur
  BY <1>1 DEF Turn
<1>4. ASSUME k.cur \in Preemptible PROVE k.cur = pick_proc(k)
  <2> DEFINE p == k.cur
  <2>1. \A q \in Queue : q < k.prio[p] => k.head[q] = NULL
    BY <1>1, <1>4 DEF Turn
  <2>2. p \in Proc /\ k.head[k.prio[p]] = p /\ k \in Table
    BY <1>1, <1>2, <1>3
  <2> HIDE DEF p
  <2>3. pick_proc(k) = p
    BY <2>1, <2>2, PickedFirst
  <2> QED BY <2>3 DEF p
<1> QED BY <1>1, <1>3, <1>4 DEF Runnable

LEMMA AckSet ==
    ASSUME Ack, KInv, KOrder, NEW h \in Hook, SetHook(h)
    PROVE  Ack'
<1> DEFINE l == LineOf[h]
           used == {id[g] : g \in irq_handlers[l]}
<1>1. put_irq_handler(h) /\ off' = off /\ Keeps(k, k')
  BY HooksStep DEF SetHook, env, Hooks
<1>2. PICK i \in Id \ used :
        /\ irq_handlers' = [irq_handlers EXCEPT ![l] = @ \cup {h}]
        /\ id' = [id EXCEPT ![h] = i]
        /\ irq_actids' = [irq_actids EXCEPT ![l] = @ \ {i}]
  BY <1>1 DEF put_irq_handler
<1> SUFFICES ASSUME NEW g \in Hook, Registered(g)', id'[g] \in irq_actids'[LineOf[g]]
             PROVE  g \in off' \/ Known(k', g)
  BY DEF Ack
<1>3. l \in Line /\ LineOf[g] \in Line /\ IrqTypeOK
  BY IrqAssumption DEF KInv, IrqInv
<1>4. g # h /\ id'[g] = id[g]
  BY <1>2, <1>3 DEF IrqTypeOK
<1>5. g \in irq_handlers[LineOf[g]] /\ id[g] \in irq_actids[LineOf[g]]
  BY <1>2, <1>3, <1>4 DEF IrqTypeOK, Registered
<1>6. g \in off \/ Known(k, g)
  BY <1>5 DEF Ack, Registered
<1> QED BY <1>1, <1>6 DEF Keeps

LEMMA AckRemove ==
    ASSUME Ack, KInv, KOrder, NEW h \in Hook, RemoveHook(h)
    PROVE  Ack'
<1> DEFINE l == LineOf[h]
           kept == {g \in irq_handlers[l] : id[g] # id[h]}
<1>1. rm_irq_handler(h) /\ off' = off \ {h} /\ Registered(h) /\ Keeps(k, k')
  BY HooksStep DEF RemoveHook, Hooks
<1>2. l \in Line /\ h \in irq_handlers[l] /\ h \notin kept
  BY <1>1, IrqAssumption DEF Registered
<1>3. /\ irq_handlers' = [irq_handlers EXCEPT ![l] = kept]
      /\ irq_actids' = [irq_actids EXCEPT ![l] = irq_actids[l] \ {id[h]}]
      /\ id' = id
  BY <1>1, <1>2 DEF rm_irq_handler
<1> SUFFICES ASSUME NEW g \in Hook, Registered(g)', id'[g] \in irq_actids'[LineOf[g]]
             PROVE  g \in off' \/ Known(k', g)
  BY DEF Ack
<1>4. LineOf[g] \in Line /\ IrqTypeOK
  BY IrqAssumption DEF KInv, IrqInv
<1>5. g # h
  BY <1>2, <1>3, <1>4 DEF IrqTypeOK, Registered
<1>6. g \in irq_handlers[LineOf[g]] /\ id[g] \in irq_actids[LineOf[g]]
  BY <1>2, <1>3, <1>4 DEF IrqTypeOK, Registered
<1>7. g \in off \/ Known(k, g)
  BY <1>6 DEF Ack, Registered
<1> QED BY <1>1, <1>5, <1>7 DEF Keeps

LEMMA AckDisable ==
    ASSUME Ack, KInv, KOrder, NEW h \in Hook, DisableHook(h)
    PROVE  Ack'
<1>1. disable_irq(h) /\ off' = off \cup {h} /\ Registered(h) /\ Keeps(k, k')
  BY HooksStep DEF DisableHook, Hooks
<1>2. LineOf[h] \in Line /\ h \in irq_handlers[LineOf[h]] /\ IrqTypeOK /\ HooksApart
  BY <1>1, IrqAssumption DEF Registered, KInv, IrqInv
<1>3. /\ irq_handlers' = irq_handlers /\ id' = id
      /\ \A m \in Line : irq_actids'[m] \subseteq
             irq_actids[m] \cup IF m = LineOf[h] THEN {id[h]} ELSE {}
  BY <1>1, <1>2 DEF disable_irq, IrqTypeOK
<1> SUFFICES ASSUME NEW g \in Hook, g # h, Registered(g)', id'[g] \in irq_actids'[LineOf[g]]
             PROVE  g \in off' \/ Known(k', g)
  BY <1>1 DEF Ack
<1>4. LineOf[g] \in Line /\ g \in irq_handlers[LineOf[g]]
  BY <1>3, IrqAssumption DEF Registered
<1>5. LineOf[g] = LineOf[h] => id[g] # id[h]
  BY <1>2, <1>4 DEF HooksApart
<1>6. id[g] \in irq_actids[LineOf[g]]
  BY <1>3, <1>4, <1>5
<1>7. g \in off \/ Known(k, g)
  BY <1>4, <1>6 DEF Ack, Registered
<1> QED BY <1>1, <1>7 DEF Keeps

\* The hook h is enabled.
LEMMA AckEnabled ==
    ASSUME Ack, KInv, NEW h \in Hook, enable_irq(h), off \subseteq off' \cup {h},
           \A g \in Hook : g # h /\ Known(k, g) => Known(k', g)
    PROVE  Ack'
<1>1. LineOf[h] \in Line /\ IrqTypeOK
  BY IrqAssumption DEF KInv, IrqInv
<1>2. /\ irq_handlers' = irq_handlers /\ id' = id
      /\ irq_actids' = [irq_actids EXCEPT ![LineOf[h]] = @ \ {id[h]}]
  BY DEF enable_irq
<1> SUFFICES ASSUME NEW g \in Hook, Registered(g)', id'[g] \in irq_actids'[LineOf[g]]
             PROVE  g \in off' \/ Known(k', g)
  BY DEF Ack
<1>3. LineOf[g] \in Line /\ g \in irq_handlers[LineOf[g]]
  BY <1>2, IrqAssumption DEF Registered
<1>4. g # h /\ id[g] \in irq_actids[LineOf[g]]
  BY <1>1, <1>2, <1>3 DEF IrqTypeOK
<1>5. g \in off \/ Known(k, g)
  BY <1>3, <1>4 DEF Ack, Registered
<1> QED BY <1>4, <1>5

LEMMA AckServe ==
    ASSUME Ack, KInv, KOrder, NEW h \in Hook, Serve(h)
    PROVE  Ack'
<1>1. /\ off' = off
      /\ IF Registered(h) /\ h \notin off THEN enable_irq(h) ELSE UNCHANGED irq
  BY DEF Serve
<1>2. \A g \in Hook : g # h /\ Known(k, g) => Known(k', g)
  BY ServeStep
<1>3. CASE Registered(h) /\ h \notin off
  BY <1>1, <1>2, <1>3, AckEnabled
<1>4. CASE ~(Registered(h) /\ h \notin off)
  BY <1>1, <1>2, <1>4 DEF Ack, irq, Registered
<1> QED BY <1>3, <1>4

LEMMA AckIrq ==
    ASSUME Ack, KInv, KOrder, NEW l \in Line, Irq(l)
    PROVE  Ack'
<1>1. IrqTypeOK
  BY DEF KInv, IrqInv
<1>2. Keeps(k, k') /\ \A h \in irq_handlers[l] : Known(k', h)
  BY <1>1, IrqStep
<1>3. irq_handle(l, irq_handlers[l] \cap Reenable) /\ off' = off
  BY DEF Irq, env
<1>4. /\ irq_handlers' = irq_handlers /\ id' = id
      /\ \A m \in Line : m # l => irq_actids'[m] = irq_actids[m]
  BY <1>1, <1>3 DEF irq_handle, IrqTypeOK
<1> SUFFICES ASSUME NEW g \in Hook, Registered(g)', id'[g] \in irq_actids'[LineOf[g]]
             PROVE  g \in off' \/ Known(k', g)
  BY DEF Ack
<1>5. LineOf[g] \in Line /\ g \in irq_handlers[LineOf[g]]
  BY <1>4, IrqAssumption DEF Registered
<1>6. CASE LineOf[g] = l
  BY <1>2, <1>5, <1>6
<1>7. CASE LineOf[g] # l
  <2>1. g \in off \/ Known(k, g)
    BY <1>4, <1>5, <1>7 DEF Ack, Registered
  <2> QED BY <1>2, <1>3, <2>1 DEF Keeps
<1> QED BY <1>6, <1>7

LEMMA AckKept == Ack /\ KInv /\ KOrder /\ [KNext]_kvars => Ack'
<1> SUFFICES ASSUME Ack, KInv, KOrder, [KNext]_kvars PROVE Ack'
  OBVIOUS
<1>1. CASE Scheduling
  <2>1. Keeps(k, k')
    BY <1>1, SchedulingStep
  <2>2. UNCHANGED <<irq_handlers, id, irq_actids, off>>
    BY <1>1 DEF Scheduling, irq, env
  <2> QED BY <2>1, <2>2 DEF Ack, Keeps, Registered
<1>2. ASSUME NEW h \in Hook, Raise(h) PROVE Ack'
  BY <1>2 DEF Raise, vars, irq, Ack, Registered
<1>3. ASSUME NEW h \in Hook, Serve(h) PROVE Ack'
  BY <1>3, AckServe
<1>4. ASSUME NEW h \in Hook, Hooks(h) PROVE Ack'
  <2>1. CASE SetHook(h)
    BY <2>1, AckSet
  <2>2. CASE RemoveHook(h)
    BY <2>2, AckRemove
  <2>3. CASE DisableHook(h)
    BY <2>3, AckDisable
  <2>4. CASE EnableHook(h)
    <3>1. enable_irq(h) /\ off' = off \ {h} /\ Keeps(k, k')
      BY <2>4, HooksStep DEF EnableHook, Hooks
    <3>2. \A g \in Hook : g # h /\ Known(k, g) => Known(k', g)
      BY <3>1 DEF Keeps
    <3>3. off \subseteq off' \cup {h}
      BY <3>1
    <3> QED BY <3>1, <3>2, <3>3, AckEnabled
  <2> QED BY <1>4, <2>1, <2>2, <2>3, <2>4 DEF Hooks
<1>5. ASSUME NEW l \in Line, Irq(l) PROVE Ack'
  BY <1>5, AckIrq
<1>6. CASE UNCHANGED kvars
  BY <1>6 DEF kvars, irq, Ack, Registered
<1> QED BY <1>1, <1>2, <1>3, <1>4, <1>5, <1>6 DEF KNext

\* The invariant of the kernel: the hooks' own, the table's with the place the
\* kernel is at, and what the drivers know.  At every exit of the kernel the
\* process that runs, the ready lists and the pending messages agree.
THEOREM KernelOrder == KSpec => [](KInv /\ KOrder /\ Ack)
<1>1. KInit => KInv /\ KOrder /\ Ack
  <2> SUFFICES ASSUME KInit PROVE KInv /\ KOrder /\ Ack
    OBVIOUS
  <2>1. KInv
    BY InitHolds DEF KInit, KInv, OffRegistered
  <2>2. KOrder
    BY BootFacts DEF KInit, Init, KOrder, Place
  <2>3. Ack
    BY IrqAssumption DEF KInit, IrqInit, Ack
  <2> QED BY <2>1, <2>2, <2>3
<1>2. (KInv /\ KOrder /\ Ack) /\ [KNext]_kvars => (KInv /\ KOrder /\ Ack)'
  BY KStep, OffKept, NextKeeps, OrderKept, AckKept DEF KInv
<1> QED BY <1>1, <1>2, PTL DEF KSpec

\* The ready lists hold exactly the runnable processes, each once and in its
\* priority's list, with rdy_tail at the last, however a call wakes a process
\* that preempts the caller and whoever is stopped or moved (RTS_SET, RTS_UNSET
\* and sched_proc; runqueues_ok in debug.c asks the same of the lists).
THEOREM KernelListsMatch == KSpec => []ListsMatch
<1>1. KInv /\ KOrder /\ Ack => ListsMatch
  BY OrderLists
<1> QED BY <1>1, KernelOrder, PTL

\* Whoever runs may run, has time left and is the one pick_proc would choose,
\* unless it cannot be preempted (the assertions of switch_to_user).
THEOREM KernelRunsInTurn == KSpec => []RunsInTurn
<1>1. KInv /\ KOrder /\ Ack => RunsInTurn
  BY OrderTurn
<1> QED BY <1>1, KernelOrder, PTL

\* No line stays masked for a driver that has not heard of it: an active hook
\* was disabled by its driver, or its bit is on the way or arrived, although
\* notifications to a busy driver are merged into one (mini_notify, irq_handle).
THEOREM KernelActiveIsKnown == KSpec => []ActiveIsKnown
<1>1. KInv /\ KOrder /\ Ack => ActiveIsKnown
  BY DEF Ack, ActiveIsKnown, Known
<1> QED BY <1>1, KernelOrder, PTL
=============================================================================
