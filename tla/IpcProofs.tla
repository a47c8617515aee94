----------------------------- MODULE IpcProofs -----------------------------
(***************************************************************************)
(* Theorems about Ipc.tla: for any number of processes and any sequence of *)
(* calls, deliveries, notifications and exits.                             *)
(***************************************************************************)
EXTENDS Ipc, QueueLemmas

-----------------------------------------------------------------------------
(* Types.                                                                  *)

LEMMA MessageTypes ==
    /\ NoMsg \in Messages
    /\ \A s \in Source : Message(s, "SEND") \in Messages /\ Message(s, "NOTIFY") \in Messages
    /\ \A s \in Proc, e \in BOOLEAN :
           Message(s, IF e THEN "NOREPLY" ELSE "SENDA") \in Messages
BY DEF Messages, Message, Source

\* Whatever a receive finds, for the fields it may be entered with.
LEMMA ReceiveTypes ==
    ASSUME TypeOK, NEW p \in Proc, NEW src \in Source \cup {ANY},
           NEW g \in [Proc -> Source \cup {ANY, NONE}],
           NEW m \in [Proc -> Messages], NEW r \in SUBSET Proc,
           mini_receive(p, src, g, m, r), UNCHANGED <<dead, panicked>>
    PROVE  TypeOK'
<1> USE DEF TypeOK
<1>1. CASE SourceDead(p, src, g, m, r)
  BY <1>1 DEF SourceDead
<1>2. CASE TakesNotification(p, src, g, m, r)
  <2>1. \A s \in Notified(p, src, r) : s \in Source BY DEF Notified
  <2>2. delivermsg' \in [Proc -> Messages]
    BY <1>2, <2>1, MessageTypes DEF TakesNotification
  <2>3. pending' \in [Proc -> SUBSET Source]
    BY <1>2 DEF TakesNotification
  <2> QED BY <1>2, <2>2, <2>3 DEF TakesNotification
<1>3. CASE TakesAsyn(p, src, g, m, r)
  <2>1. PICK x \in AsynSenders(p, src, r) : \E e \in Waiting(x, p) :
             /\ asyn' = [asyn EXCEPT ![x] = @ \ {e}]
             /\ delivermsg' = [m EXCEPT ![p] =
                    Message(x, IF e.noreply THEN "NOREPLY" ELSE "SENDA")]
    BY <1>3 DEF TakesAsyn
  <2>2. x \in Proc BY DEF AsynSenders
  <2>3. PICK e \in Waiting(x, p) :
             /\ asyn' = [asyn EXCEPT ![x] = @ \ {e}]
             /\ delivermsg' = [m EXCEPT ![p] =
                    Message(x, IF e.noreply THEN "NOREPLY" ELSE "SENDA")]
    BY <2>1
  <2>4. e.noreply \in BOOLEAN BY <2>2 DEF Waiting, Entry
  <2>5. delivermsg' \in [Proc -> Messages] BY <2>2, <2>3, <2>4, MessageTypes
  <2>6. asyn' \in [Proc -> SUBSET Entry] BY <2>2, <2>3
  <2> QED BY <1>3, <2>5, <2>6 DEF TakesAsyn
<1>4. CASE TakesSender(p, src, g, m, r)
  <2>1. PICK i \in Places(p, src) :
             /\ sendto' = [sendto EXCEPT ![callers[p][i]] = NONE]
             /\ callers' = [callers EXCEPT ![p] = RemoveAt(@, i)]
             /\ delivermsg' = [m EXCEPT ![p] = Message(callers[p][i], "SEND")]
    BY <1>4 DEF TakesSender
  <2>2. callers[p] \in Seq(Proc) OBVIOUS
  <2>3. i \in 1 .. Len(callers[p]) BY <2>2, LenProperties DEF Places
  <2>4. callers[p][i] \in Proc BY <2>2, <2>3, ElementOfSeq
  <2>5. RemoveAt(callers[p], i) \in Seq(Proc) BY <2>2, <2>3, RemoveAtFacts, Zenon
  <2>6. callers' \in [Proc -> Seq(Proc)] BY <2>1, <2>5
  <2>7. delivermsg' \in [Proc -> Messages] BY <2>1, <2>4, MessageTypes DEF Source
  <2> QED BY <1>4, <2>1, <2>4, <2>6, <2>7 DEF TakesSender, FlagAfter
<1>5. CASE Blocks(p, src, g, m, r)
  BY <1>5 DEF Blocks, FlagAfter
<1> QED BY <1>1, <1>2, <1>3, <1>4, <1>5 DEF mini_receive

LEMMA QueuesTypes ==
    ASSUME TypeOK, NEW p \in Proc, NEW d \in Proc, Queues(p, d)
    PROVE  /\ sendto' \in [Proc -> Proc \cup {NONE}]
           /\ callers' \in [Proc -> Seq(Proc)]
<1>1. Append(callers[d], p) \in Seq(Proc)
  BY AppendFacts DEF TypeOK
<1> QED BY <1>1 DEF TypeOK, Queues

LEMMA SendaTypes ==
    ASSUME TypeOK, NEW p \in Proc, NEW T \in SUBSET Entry, Senda(p, T)
    PROVE  TypeOK'
<1> USE DEF TypeOK
<1> DEFINE left(took) == {e \in T \ took : e.dst \notin dead}
           sent(took, d) == CHOOSE e \in took : e.dst = d
           to(took) == {e.dst : e \in took}
<1>1. PICK took \in SUBSET Taken(p, T), kept \in BOOLEAN :
        /\ asyn' = [asyn EXCEPT ![p] = IF kept THEN left(took) ELSE {}]
        /\ asynmsg' = asynmsg \cup {e.dst : e \in left(took)}
        /\ getfrom' = [q \in Proc |-> IF q \in to(took) THEN NONE ELSE getfrom[q]]
        /\ delivermsg' = [q \in Proc |->
               IF q \in to(took)
               THEN Message(p, IF sent(took, q).noreply THEN "NOREPLY" ELSE "SENDA")
               ELSE delivermsg[q]]
  BY DEF Senda
<1>2. took \subseteq Entry BY DEF Taken
<1>3. \A e \in Entry : e.dst \in Proc /\ e.noreply \in BOOLEAN BY DEF Entry
<1>4. ASSUME NEW q \in to(took) PROVE sent(took, q) \in Entry
  <2>1. \E e \in took : e.dst = q OBVIOUS
  <2>2. (CHOOSE e \in took : e.dst = q) \in took BY <2>1, Zenon
  <2> QED BY <1>2, <2>2
<1>5. delivermsg' \in [Proc -> Messages]
  <2>1. ASSUME NEW q \in Proc PROVE delivermsg'[q] \in Messages
    <3>1. CASE q \in to(took)
      <4>1. sent(took, q) \in Entry BY <1>4, <3>1
      <4>2. sent(took, q).noreply \in BOOLEAN BY <1>3, <4>1
      <4>3. delivermsg'[q] =
                Message(p, IF sent(took, q).noreply THEN "NOREPLY" ELSE "SENDA")
        BY <1>1, <3>1, Zenon
      <4> QED BY <4>2, <4>3, MessageTypes
    <3>2. CASE q \notin to(took) BY <1>1, <3>2
    <3> QED BY <3>1, <3>2
  <2> QED BY <1>1, <2>1
<1>6. asyn' \in [Proc -> SUBSET Entry] BY <1>1
<1>7. asynmsg' \subseteq Proc BY <1>1, <1>3
<1>8. getfrom' \in [Proc -> Source \cup {ANY, NONE}] BY <1>1
<1> QED BY <1>5, <1>6, <1>7, <1>8 DEF Senda

LEMMA ExitTypes ==
    ASSUME TypeOK, NEW p \in Proc, Exit(p)
    PROVE  TypeOK'
<1> USE DEF TypeOK
<1> DEFINE on == sendto[p]
           at == {i \in DOMAIN callers[on] : callers[on][i] = p}
<1>1. /\ callers' = [d \in Proc |->
               IF d = p THEN << >>
               ELSE IF d = on /\ at # {} THEN RemoveAt(callers[on], CHOOSE i \in at : TRUE)
               ELSE callers[d]]
      /\ linked' = linked \cup Linking(callers[p])
               \cup (IF on # NONE /\ p \in Linking(callers[on]) THEN {p} ELSE {})
  BY DEF Exit
<1>2. ASSUME NEW d \in Proc PROVE callers'[d] \in Seq(Proc)
  <2>1. CASE d = p
    <3> HIDE DEF on, at
    <3>1. callers'[d] = << >> BY <1>1, <2>1
    <3> QED BY <3>1, EmptySeq
  <2>2. CASE d # p /\ d = on /\ at # {}
    <3> DEFINE k == CHOOSE i \in at : TRUE
    <3>1. k \in DOMAIN callers[on] BY <2>2
    <3>2. callers[on] \in Seq(Proc) BY <2>2
    <3>3. k \in 1 .. Len(callers[on]) BY <3>1, <3>2, LenProperties
    <3>4. callers'[d] = RemoveAt(callers[on], k) BY <1>1, <2>2
    <3> HIDE DEF k, on, at
    <3>5. RemoveAt(callers[on], k) \in Seq(Proc) BY <3>2, <3>3, RemoveAtFacts, Zenon
    <3> QED BY <3>4, <3>5
  <2>3. CASE d # p /\ ~(d = on /\ at # {}) BY <1>1, <2>3
  <2> QED BY <2>1, <2>2, <2>3
<1>3. callers' \in [Proc -> Seq(Proc)]
  <2> HIDE DEF at
  <2> QED BY <1>1, <1>2
<1>4. Linking(callers[p]) \subseteq Proc
  <2>1. callers[p] \in Seq(Proc) OBVIOUS
  <2>2. \A i \in 1 .. Len(callers[p]) - 1 : callers[p][i] \in Proc
    BY <2>1, LenProperties, ElementOfSeq
  <2> QED BY <2>2 DEF Linking
<1>5. linked' \subseteq Proc BY <1>1, <1>4
<1>6. dead' \subseteq Proc /\ asyn' \in [Proc -> SUBSET Entry] BY DEF Exit
<1>7. /\ sendto' \in [Proc -> Proc \cup {NONE}]
      /\ getfrom' \in [Proc -> Source \cup {ANY, NONE}]
      /\ pending' \in [Proc -> SUBSET Source]
  BY DEF Exit
<1> QED BY <1>3, <1>5, <1>6, <1>7 DEF Exit

LEMMA StepCases ==
    ASSUME [Next]_vars
    PROVE  \/ UNCHANGED vars
           \/ \E p, d \in Proc : SendHands(p, d) \/ SendBlocks(p, d) \/ AssertFails(p, d)
           \/ \E p, d \in Proc : SendrecHands(p, d) \/ SendrecBlocks(p, d)
                                  \/ SendrecFails(p, d)
           \/ \E p \in Proc, src \in Source \cup {ANY} : Receive(p, src)
           \/ \E p \in Proc, T \in SUBSET Entry : Senda(p, T)
           \/ \E p \in Proc : Deliver(p) \/ Exit(p)
           \/ \E s \in Source, d \in Proc : Notify(s, d)
BY DEF Next, Call

\* The types, for every set of processes and every privilege.
THEOREM TypeCorrect == Spec => []TypeOK
<1>1. Init => TypeOK
  <2>1. << >> \in Seq(Proc) BY EmptySeq
  <2> QED BY <2>1, MessageTypes DEF Init, TypeOK
<1>2. TypeOK /\ [Next]_vars => TypeOK'
  <2> SUFFICES ASSUME TypeOK, [Next]_vars PROVE TypeOK'
    OBVIOUS
  <2>1. CASE UNCHANGED vars
    BY <2>1 DEF vars, blocking, TypeOK
  <2>2. ASSUME NEW p \in Proc, NEW d \in Proc, SendHands(p, d) PROVE TypeOK'
    BY <2>2, MessageTypes DEF TypeOK, SendHands, Woken, Got, Source
  <2>3. ASSUME NEW p \in Proc, NEW d \in Proc, SendBlocks(p, d) PROVE TypeOK'
    <3>1. Queues(p, d) BY <2>3 DEF SendBlocks
    <3> QED BY <2>3, <3>1, QueuesTypes DEF TypeOK, SendBlocks
  <2>4. ASSUME NEW p \in Proc, NEW d \in Proc, AssertFails(p, d) PROVE TypeOK'
    BY <2>4 DEF TypeOK, AssertFails, blocking
  <2>5. ASSUME NEW p \in Proc, NEW d \in Proc, SendrecHands(p, d) PROVE TypeOK'
    <3> DEFINE g == Woken(d)
               m == Got(d, p, "SEND")
               r == (replyPend \cup {p}) \ {d}
    <3>1. g \in [Proc -> Source \cup {ANY, NONE}] BY DEF TypeOK, Woken
    <3>2. m \in [Proc -> Messages] BY MessageTypes DEF TypeOK, Got, Source
    <3>3. r \in SUBSET Proc BY DEF TypeOK
    <3>4. mini_receive(p, d, g, m, r) /\ UNCHANGED <<dead, panicked>>
      BY <2>5 DEF SendrecHands
    <3>5. d \in Source \cup {ANY} BY DEF Source
    <3> HIDE DEF g, m, r
    <3> QED BY <3>1, <3>2, <3>3, <3>4, <3>5, ReceiveTypes
  <2>6. ASSUME NEW p \in Proc, NEW d \in Proc, SendrecBlocks(p, d) PROVE TypeOK'
    <3>1. Queues(p, d) BY <2>6 DEF SendrecBlocks
    <3> QED BY <2>6, <3>1, QueuesTypes DEF TypeOK, SendrecBlocks, Source
  <2>7. ASSUME NEW p \in Proc, NEW d \in Proc, SendrecFails(p, d) PROVE TypeOK'
    BY <2>7 DEF TypeOK, SendrecFails, blocking
  <2>8. ASSUME NEW p \in Proc, NEW src \in Source \cup {ANY}, Receive(p, src) PROVE TypeOK'
    <3>1. replyPend \ {p} \in SUBSET Proc BY DEF TypeOK
    <3>2. mini_receive(p, src, getfrom, delivermsg, replyPend \ {p})
          /\ UNCHANGED <<dead, panicked>>
      BY <2>8 DEF Receive
    <3>3. /\ getfrom \in [Proc -> Source \cup {ANY, NONE}]
          /\ delivermsg \in [Proc -> Messages]
      BY DEF TypeOK
    <3> QED BY <3>1, <3>2, <3>3, ReceiveTypes
  <2>9. ASSUME NEW p \in Proc, NEW T \in SUBSET Entry, Senda(p, T) PROVE TypeOK'
    BY <2>9, SendaTypes
  <2>10. ASSUME NEW p \in Proc, Deliver(p) PROVE TypeOK'
    BY <2>10, MessageTypes DEF TypeOK, Deliver, blocking
  <2>11. ASSUME NEW p \in Proc, Exit(p) PROVE TypeOK'
    BY <2>11, ExitTypes
  <2>12. ASSUME NEW s \in Source, NEW d \in Proc, Notify(s, d) PROVE TypeOK'
    <3>1. CASE WILLRECEIVE(d, s) /\ d \notin replyPend
      BY <2>12, <3>1, MessageTypes DEF TypeOK, Notify, Woken, Got
    <3>2. CASE ~(WILLRECEIVE(d, s) /\ d \notin replyPend)
      <4>1. /\ pending' = [pending EXCEPT ![d] = @ \cup {s}]
            /\ UNCHANGED <<delivermsg, getfrom>>
            /\ UNCHANGED <<sendto, callers, linked, replyPend, asynmsg, asyn, dead, panicked>>
        BY <2>12, <3>2, Zenon DEF Notify
      <4>2. pending[d] \cup {s} \in SUBSET Source BY DEF TypeOK
      <4>3. pending' \in [Proc -> SUBSET Source] BY <4>1, <4>2 DEF TypeOK
      <4> QED BY <4>1, <4>3 DEF TypeOK
    <3> QED BY <3>1, <3>2
  <2> QED BY StepCases, <2>1, <2>2, <2>3, <2>4, <2>5, <2>6, <2>7, <2>8, <2>9,
             <2>10, <2>11, <2>12
<1> QED BY <1>1, <1>2, PTL DEF Spec

-----------------------------------------------------------------------------
(* What a step does to the processes that wait.  Every step is one of      *)
(* five: receivers are woken (Eases); a sender joins a queue (Joins);      *)
(* a receiver takes a sender off its queue (Frees); a receiver starts to   *)
(* wait (Waits); a process exits.                                          *)

\* g is getfrom, but some of those that were receiving no longer are.
Wakes(g) ==
    /\ g \in [Proc -> Source \cup {ANY, NONE}]
    /\ \A q \in Proc : g[q] = getfrom[q] \/ (g[q] = NONE /\ sendto[q] = NONE)

Eases == Wakes(getfrom') /\ UNCHANGED <<sendto, callers, dead>>

Joins(p, d) ==
    /\ p # d /\ p \notin dead
    /\ sendto[p] = NONE /\ getfrom[p] = NONE
    /\ Queues(p, d)
    /\ getfrom' \in {getfrom, [getfrom EXCEPT ![p] = d]}
    /\ UNCHANGED dead

Frees(p, i) ==
    /\ sendto[p] = NONE /\ i \in DOMAIN callers[p]
    /\ sendto' = [sendto EXCEPT ![callers[p][i]] = NONE]
    /\ callers' = [callers EXCEPT ![p] = RemoveAt(@, i)]
    /\ Wakes(getfrom')
    /\ UNCHANGED dead

Waits(p, src, g) ==
    /\ Wakes(g)
    /\ sendto[p] = NONE /\ p \notin dead
    /\ src # p /\ src \notin dead
    /\ Places(p, src) = {}
    /\ ~deadlock("RECEIVE", BlockedOn(g), p, src)
    /\ getfrom' = [g EXCEPT ![p] = src]
    /\ UNCHANGED <<sendto, callers, dead>>

LEMMA ReceiveEffects ==
    ASSUME TypeOK, NEW p \in Proc, NEW src \in Source \cup {ANY}, NEW g, NEW m, NEW r,
           Wakes(g), sendto[p] = NONE, p \notin dead, src # p,
           mini_receive(p, src, g, m, r), UNCHANGED <<dead, panicked>>
    PROVE  \/ Eases
           \/ \E i \in Nat : Frees(p, i)
           \/ Waits(p, src, g)
<1>1. CASE SourceDead(p, src, g, m, r)
  BY <1>1 DEF SourceDead, Eases
<1>2. CASE TakesNotification(p, src, g, m, r)
  BY <1>2 DEF TakesNotification, Eases
<1>3. CASE TakesAsyn(p, src, g, m, r)
  BY <1>3 DEF TakesAsyn, Eases
<1>4. CASE TakesSender(p, src, g, m, r)
  <2>1. PICK i \in Places(p, src) :
             /\ sendto' = [sendto EXCEPT ![callers[p][i]] = NONE]
             /\ callers' = [callers EXCEPT ![p] = RemoveAt(@, i)]
    BY <1>4 DEF TakesSender
  <2>2. i \in DOMAIN callers[p] BY DEF Places
  <2>3. callers[p] \in Seq(Proc) BY DEF TypeOK
  <2>4. i \in Nat BY <2>2, <2>3, LenProperties
  <2>5. Frees(p, i) BY <1>4, <2>1, <2>2 DEF TakesSender, Frees
  <2> QED BY <2>4, <2>5
<1>5. CASE Blocks(p, src, g, m, r) /\ src \notin dead
  BY <1>5 DEF Blocks, Eases, Waits
<1> QED BY <1>1, <1>2, <1>3, <1>4, <1>5 DEF mini_receive

\* A receiver that is woken while it was ready to take what came.
LEMMA WokenWakes ==
    ASSUME TypeOK, NEW d \in Proc, sendto[d] = NONE
    PROVE  Wakes(Woken(d))
BY DEF TypeOK, Wakes, Woken

LEMMA Effects ==
    ASSUME IpcAssumption, TypeOK, [Next]_vars
    PROVE  \/ Eases
           \/ \E p, d \in Proc : Joins(p, d)
           \/ \E p \in Proc, i \in Nat : Frees(p, i)
           \/ \E p \in Proc, src \in Source \cup {ANY}, g \in [Proc -> Source \cup {ANY, NONE}] :
                  Waits(p, src, g)
           \/ \E p \in Proc : Exit(p)
<1> DEFINE Same == UNCHANGED <<sendto, getfrom, callers, dead>>
<1>0. Wakes(getfrom)
  BY DEF TypeOK, Wakes
<1>1. Same => Eases
  BY <1>0 DEF Eases
<1>2. CASE UNCHANGED vars
  BY <1>1, <1>2 DEF vars, blocking
<1>3. ASSUME NEW p \in Proc, NEW d \in Proc, SendHands(p, d) PROVE Eases
  <2>1. sendto[d] = NONE BY <1>3 DEF SendHands, WILLRECEIVE
  <2> QED BY <1>3, <2>1, WokenWakes DEF SendHands, Eases
<1>4. ASSUME NEW p \in Proc, NEW d \in Proc, SendBlocks(p, d) PROVE Joins(p, d)
  BY <1>4 DEF SendBlocks, Joins, Runs, IpcAssumption
<1>5. ASSUME NEW p \in Proc, NEW d \in Proc, AssertFails(p, d) \/ SendrecFails(p, d)
      PROVE  Eases
  BY <1>1, <1>5 DEF AssertFails, SendrecFails, blocking
<1>6. ASSUME NEW p \in Proc, NEW d \in Proc, SendrecHands(p, d)
      PROVE  Eases \/ (\E i \in Nat : Frees(p, i)) \/ Waits(p, d, Woken(d))
  <2>1. /\ sendto[d] = NONE /\ sendto[p] = NONE /\ p \notin dead /\ d # p
        /\ mini_receive(p, d, Woken(d), Got(d, p, "SEND"), (replyPend \cup {p}) \ {d})
        /\ UNCHANGED <<dead, panicked>>
    BY <1>6 DEF SendrecHands, WILLRECEIVE, Runs, IpcAssumption
  <2>2. d \in Source \cup {ANY} BY DEF Source
  <2> QED BY <2>1, <2>2, WokenWakes, ReceiveEffects
<1>7. ASSUME NEW p \in Proc, NEW d \in Proc, SendrecBlocks(p, d) PROVE Joins(p, d)
  BY <1>7 DEF SendrecBlocks, Joins, Runs, IpcAssumption
<1>8. ASSUME NEW p \in Proc, NEW src \in Source \cup {ANY}, Receive(p, src)
      PROVE  Eases \/ (\E i \in Nat : Frees(p, i)) \/ Waits(p, src, getfrom)
  <2>1. /\ sendto[p] = NONE /\ p \notin dead /\ src # p
        /\ mini_receive(p, src, getfrom, delivermsg, replyPend \ {p})
        /\ UNCHANGED <<dead, panicked>>
    BY <1>8 DEF Receive, Runs
  <2> QED BY <1>0, <2>1, ReceiveEffects
<1>9. ASSUME NEW p \in Proc, NEW T \in SUBSET Entry, Senda(p, T) PROVE Eases
  <2>1. PICK took \in SUBSET Taken(p, T) :
            getfrom' = [q \in Proc |-> IF q \in {e.dst : e \in took} THEN NONE ELSE getfrom[q]]
    BY <1>9 DEF Senda
  <2>2. \A e \in took : sendto[e.dst] = NONE BY DEF Taken, WILLRECEIVE
  <2>3. Wakes(getfrom') BY <2>1, <2>2 DEF TypeOK, Wakes
  <2> QED BY <1>9, <2>3 DEF Senda, Eases
<1>10. ASSUME NEW p \in Proc, Deliver(p) PROVE Eases
  BY <1>1, <1>10 DEF Deliver, blocking
<1>11. ASSUME NEW s \in Source, NEW d \in Proc, Notify(s, d) PROVE Eases
  <2>1. UNCHANGED <<sendto, callers, dead>> BY <1>11 DEF Notify
  <2>2. CASE WILLRECEIVE(d, s) /\ d \notin replyPend
    <3>1. getfrom' = Woken(d) BY <1>11, <2>2, Zenon DEF Notify
    <3>2. sendto[d] = NONE BY <2>2 DEF WILLRECEIVE
    <3> QED BY <2>1, <3>1, <3>2, WokenWakes DEF Eases
  <2>3. CASE ~(WILLRECEIVE(d, s) /\ d \notin replyPend)
    <3>1. UNCHANGED getfrom BY <1>11, <2>3, Zenon DEF Notify
    <3> QED BY <1>1, <2>1, <3>1
  <2> QED BY <2>2, <2>3
<1>12. Wakes(getfrom) /\ \A d \in Proc : Woken(d) \in [Proc -> Source \cup {ANY, NONE}]
  BY <1>0 DEF TypeOK, Woken
<1> QED
  <2>1. \A p, d \in Proc : Waits(p, d, Woken(d)) =>
            \E src \in Source \cup {ANY}, g \in [Proc -> Source \cup {ANY, NONE}] : Waits(p, src, g)
    BY <1>12 DEF Source
  <2>2. \A p \in Proc, src \in Source \cup {ANY} : Waits(p, src, getfrom) =>
            \E g \in [Proc -> Source \cup {ANY, NONE}] : Waits(p, src, g)
    BY DEF TypeOK
  <2> QED BY StepCases, <1>2, <1>3, <1>4, <1>5, <1>6, <1>7, <1>8, <1>9, <1>10, <1>11,
             <2>1, <2>2

-----------------------------------------------------------------------------
(* Chains of waits.  b tells for each process whom it waits for.  An action  *)
(* either takes waits away or adds one, and adds it only after deadlock()    *)
(* has found that the chain from its target does not come back.              *)

Acyclic(b) == \A S \in SUBSET Proc : S # {} => \E p \in S : b[p] \notin S

LEMMA CircleFree == NoCircle <=> Acyclic(BlockedOn(getfrom))
BY DEF NoCircle, Acyclic

LEMMA FewerWaits ==
    ASSUME NEW b, NEW c, Acyclic(b),
           \A q \in Proc : c[q] = b[q] \/ c[q] \notin Proc
    PROVE  Acyclic(c)
BY DEF Acyclic

\* The set that shows that p is out of reach of x cuts every circle through
\* the new wait of p for x down to one without it.
LEMMA OneMoreWait ==
    ASSUME NEW b, NEW c, Acyclic(b), NEW p \in Proc, NEW x,
           x \in Proc => x # p /\ ~Reaches(b, x, p),
           c[p] = x,
           \A q \in Proc \ {p} : c[q] = b[q]
    PROVE  Acyclic(c)
<1> SUFFICES ASSUME NEW S \in SUBSET Proc, S # {}, \A q \in S : c[q] \in S
             PROVE  FALSE
  BY DEF Acyclic
<1>1. p \in S
  BY DEF Acyclic
<1>2. x \in S /\ x \in Proc
  BY <1>1
<1>3. PICK T \in SUBSET Proc :
           /\ x \in T /\ p \notin T
           /\ \A q \in T : b[q] \in Proc => b[q] \in T
  BY <1>2 DEF Reaches
<1>4. S \cap T \in SUBSET Proc /\ S \cap T # {}
  BY <1>2, <1>3
<1>5. PICK q \in S \cap T : b[q] \notin S \cap T
  BY <1>4 DEF Acyclic
<1>6. b[q] \in S
  BY <1>3, <1>5
<1> QED BY <1>3, <1>5, <1>6

\* A process that waits to send and to receive waits for one other only.
SameTarget ==
    \A p \in Proc : sendto[p] # NONE /\ getfrom[p] # NONE => getfrom[p] = sendto[p]

\* The inductive invariant.  SameTarget is what it adds to the properties: a
\* SENDREC waits for one process with both halves, so that being taken off a
\* queue leaves it waiting for the taker and for nobody else.
IInv ==
    /\ TypeOK
    /\ QueuesMatch
    /\ SameTarget
    /\ NoSenderMissed
    /\ NobodyWaitsForDead
    /\ NoCircle

LEMMA EasesKeeps ==
    ASSUME IpcAssumption, IInv, TypeOK', Eases
    PROVE  IInv'
<1> USE DEF TypeOK
<1>1. /\ sendto' = sendto /\ callers' = callers /\ dead' = dead
      /\ \A q \in Proc : getfrom'[q] = getfrom[q] \/ (getfrom'[q] = NONE /\ sendto[q] = NONE)
  BY DEF Eases, Wakes
<1>2. NONE \notin Proc /\ NONE # ANY
  BY DEF IpcAssumption, Source
<1>3. QueuesMatch'
  BY <1>1 DEF IInv, QueuesMatch
<1>4. SameTarget'
  BY <1>1 DEF IInv, SameTarget
<1>5. NoSenderMissed'
  BY <1>1, <1>2 DEF IInv, NoSenderMissed, WILLRECEIVE
<1>6. \A q \in Proc : \/ BlockedOn(getfrom)'[q] = BlockedOn(getfrom)[q]
                      \/ BlockedOn(getfrom)'[q] = NONE
  BY <1>1 DEF BlockedOn
<1>7. NobodyWaitsForDead'
  BY <1>1, <1>2, <1>6 DEF IInv, NobodyWaitsForDead
<1>8. Acyclic(BlockedOn(getfrom)')
  <2>1. Acyclic(BlockedOn(getfrom))
    BY CircleFree DEF IInv
  <2>2. \A q \in Proc : BlockedOn(getfrom)'[q] = BlockedOn(getfrom)[q] \/ BlockedOn(getfrom)'[q] \notin Proc
    BY <1>2, <1>6
  <2> HIDE DEF TypeOK
  <2> QED BY <2>1, <2>2, FewerWaits, Zenon
<1> QED BY <1>3, <1>4, <1>5, <1>7, <1>8 DEF IInv, NoCircle, Acyclic

LEMMA JoinsKeeps ==
    ASSUME IpcAssumption, IInv, TypeOK', NEW p \in Proc, NEW d \in Proc, Joins(p, d)
    PROVE  IInv'
<1> USE DEF TypeOK
<1>1. /\ sendto' = [sendto EXCEPT ![p] = d]
      /\ callers' = [callers EXCEPT ![d] = Append(@, p)]
      /\ getfrom' \in {getfrom, [getfrom EXCEPT ![p] = d]}
      /\ dead' = dead
      /\ p # d /\ p \notin dead /\ d \notin dead
      /\ sendto[p] = NONE /\ getfrom[p] = NONE
      /\ ~WILLRECEIVE(d, p)
      /\ ~deadlock("SEND", BlockedOn(getfrom), p, d)
  BY DEF Joins, Queues
<1>2. NONE \notin Proc /\ NONE # ANY
  BY DEF IpcAssumption, Source
<1>3. QueuesMatch'
  <2>1. callers[d] \in Seq(Proc) /\ callers'[d] = Append(callers[d], p)
    BY <1>1
  <2>2. \A i, j \in DOMAIN callers[d] : callers[d][i] = callers[d][j] => i = j
    BY DEF IInv, QueuesMatch
  <2>0. \A q \in Proc : sendto[q] = d <=> \E i \in DOMAIN callers[d] : callers[d][i] = q
    BY Zenon DEF IInv, QueuesMatch
  <2>3. \A i \in DOMAIN callers[d] : callers[d][i] # p
    <3>1. sendto[p] # d BY <1>1, <1>2
    <3> QED BY <2>0, <3>1, Zenon
  <2>4. /\ \A i, j \in DOMAIN callers'[d] : callers'[d][i] = callers'[d][j] => i = j
        /\ \A q : (\E i \in DOMAIN callers'[d] : callers'[d][i] = q)
                      <=> q = p \/ \E i \in DOMAIN callers[d] : callers[d][i] = q
    <3>1. /\ \A i, j \in DOMAIN Append(callers[d], p) :
                 Append(callers[d], p)[i] = Append(callers[d], p)[j] => i = j
          /\ \A q : (\E i \in DOMAIN Append(callers[d], p) : Append(callers[d], p)[i] = q)
                        <=> q = p \/ \E i \in DOMAIN callers[d] : callers[d][i] = q
      BY <2>1, <2>2, <2>3, JoinQueue, Zenon
    <3> QED BY <2>1, <3>1
  <2>5. ASSUME NEW e \in Proc, e # d
        PROVE  /\ \A i, j \in DOMAIN callers'[e] : callers'[e][i] = callers'[e][j] => i = j
               /\ \A q \in Proc : sendto'[q] = e <=> \E i \in DOMAIN callers'[e] : callers'[e][i] = q
    <3>1. callers'[e] = callers[e] BY <1>1, <2>5
    <3>2. \A q \in Proc : sendto'[q] = e <=> sendto[q] = e BY <1>1, <1>2, <2>5
    <3> QED BY <3>1, <3>2 DEF IInv, QueuesMatch
  <2>6. \A q \in Proc : sendto'[q] = d <=> q = p \/ sendto[q] = d
    BY <1>1
  <2>7. \A q \in Proc : sendto'[q] = d <=> \E i \in DOMAIN callers'[d] : callers'[d][i] = q
    BY <2>0, <2>4, <2>6, Zenon
  <2>8. ASSUME NEW e \in Proc
        PROVE  /\ \A i, j \in DOMAIN callers'[e] : callers'[e][i] = callers'[e][j] => i = j
               /\ \A q \in Proc : sendto'[q] = e <=> \E i \in DOMAIN callers'[e] : callers'[e][i] = q
    <3>1. CASE e = d BY <2>4, <2>7, <3>1
    <3>2. CASE e # d BY <2>5, <3>2, Zenon
    <3> QED BY <3>1, <3>2
  <2> QED BY <2>8, Zenon DEF QueuesMatch
<1>4. SameTarget'
  BY <1>1 DEF IInv, SameTarget
<1>5. NoSenderMissed'
  BY <1>1, <1>2 DEF IInv, NoSenderMissed, WILLRECEIVE
<1>6. /\ BlockedOn(getfrom)'[p] = d
      /\ \A q \in Proc \ {p} : BlockedOn(getfrom)'[q] = BlockedOn(getfrom)[q]
  BY <1>1, <1>2 DEF BlockedOn
<1>7. NobodyWaitsForDead'
  BY <1>1, <1>6 DEF IInv, NobodyWaitsForDead
<1>8. ~Reaches(BlockedOn(getfrom), d, p)
  <2>1. ~(BlockedOn(getfrom)[d] = p /\ sendto[d] = NONE)
    BY <1>1, <1>2 DEF BlockedOn, WILLRECEIVE
  <2> QED BY <1>1, <2>1 DEF deadlock
<1>9. Acyclic(BlockedOn(getfrom)')
  <2>1. Acyclic(BlockedOn(getfrom))
    BY CircleFree DEF IInv
  <2>2. d # p /\ ~Reaches(BlockedOn(getfrom), d, p)
    BY <1>1, <1>8
  <2> HIDE DEF TypeOK
  <2> QED BY <1>6, <2>1, <2>2, OneMoreWait, Zenon
<1> QED BY <1>3, <1>4, <1>5, <1>7, <1>9 DEF IInv, NoCircle, Acyclic

LEMMA FreesKeeps ==
    ASSUME IpcAssumption, IInv, TypeOK', NEW p \in Proc, NEW i \in Nat, Frees(p, i)
    PROVE  IInv'
<1> USE DEF TypeOK
<1> DEFINE x == callers[p][i]
<1>1. /\ sendto[p] = NONE /\ i \in DOMAIN callers[p]
      /\ sendto' = [sendto EXCEPT ![x] = NONE]
      /\ callers' = [callers EXCEPT ![p] = RemoveAt(@, i)]
      /\ \A q \in Proc : getfrom'[q] = getfrom[q] \/ (getfrom'[q] = NONE /\ sendto[q] = NONE)
      /\ dead' = dead
  BY DEF Frees, Wakes
<1>2. NONE \notin Proc /\ ANY \notin Proc /\ NONE # ANY
  BY DEF IpcAssumption, Source
<1>3. callers[p] \in Seq(Proc) /\ callers'[p] = RemoveAt(callers[p], i)
  BY <1>1 DEF IInv
<1>4. x \in Proc
  BY <1>1, <1>3, LenProperties, ElementOfSeq
<1>5. \A e, q \in Proc : sendto[q] = e <=> \E j \in DOMAIN callers[e] : callers[e][j] = q
  BY Zenon DEF IInv, QueuesMatch
<1>6. sendto[x] = p
  BY <1>1, <1>4, <1>5, Zenon
<1>7. QueuesMatch'
  <2>1. \A k, j \in DOMAIN callers[p] : callers[p][k] = callers[p][j] => k = j
    BY DEF IInv, QueuesMatch
  <2>2. /\ \A k, j \in DOMAIN RemoveAt(callers[p], i) :
               RemoveAt(callers[p], i)[k] = RemoveAt(callers[p], i)[j] => k = j
        /\ \A q : (\E k \in DOMAIN RemoveAt(callers[p], i) : RemoveAt(callers[p], i)[k] = q)
                      <=> q # x /\ \E k \in DOMAIN callers[p] : callers[p][k] = q
    BY <1>1, <1>3, <2>1, LeaveQueue, Zenon
  <2>3. \A q \in Proc : sendto'[q] = p <=> q # x /\ sendto[q] = p
    BY <1>1, <1>2, <1>4
  <2>4. ASSUME NEW e \in Proc
        PROVE  /\ \A k, j \in DOMAIN callers'[e] : callers'[e][k] = callers'[e][j] => k = j
               /\ \A q \in Proc : sendto'[q] = e <=> \E j \in DOMAIN callers'[e] : callers'[e][j] = q
    <3>1. CASE e = p
      <4>0. \A q \in Proc : sendto[q] = p <=> \E k \in DOMAIN callers[p] : callers[p][k] = q
        BY <1>5, Zenon
      <4>1. \A q \in Proc : sendto'[q] = p <=>
                \E k \in DOMAIN RemoveAt(callers[p], i) : RemoveAt(callers[p], i)[k] = q
        BY <2>2, <2>3, <4>0, Zenon
      <4> QED BY <1>3, <2>2, <3>1, <4>1
    <3>2. CASE e # p
      <4>1. callers'[e] = callers[e] BY <1>1, <3>2
      <4>2. \A q \in Proc : sendto'[q] = e <=> sendto[q] = e
        BY <1>1, <1>2, <1>4, <1>6, <3>2
      <4>3. \A k, j \in DOMAIN callers[e] : callers[e][k] = callers[e][j] => k = j
        BY DEF IInv, QueuesMatch
      <4>4. \A k, j \in DOMAIN callers'[e] : callers'[e][k] = callers'[e][j] => k = j
        BY <4>1, <4>3
      <4>6. \A q \in Proc : sendto[q] = e <=> \E j \in DOMAIN callers[e] : callers[e][j] = q
        BY <1>5, Zenon
      <4>7. \A q \in Proc : sendto'[q] = e <=> \E j \in DOMAIN callers[e] : callers[e][j] = q
        BY <4>2, <4>6, Zenon
      <4>5. \A q \in Proc : sendto'[q] = e <=> \E j \in DOMAIN callers'[e] : callers'[e][j] = q
        BY <4>1, <4>7
      <4> QED BY <4>4, <4>5
    <3> QED BY <3>1, <3>2
  <2> QED BY <2>4, Zenon DEF QueuesMatch
<1> HIDE DEF x
<1>8. SameTarget'
  BY <1>1, <1>4 DEF IInv, SameTarget
<1>9. NoSenderMissed'
  <2> SUFFICES ASSUME NEW q \in Proc, NEW e \in Proc, sendto'[q] = e
               PROVE  ~(sendto'[e] = NONE /\ getfrom'[e] \in {ANY, q})
    BY DEF NoSenderMissed, WILLRECEIVE
  <2>1. sendto[q] = e /\ q # x BY <1>1, <1>2, <1>4
  <2>2. CASE e # x
    BY <1>1, <1>2, <1>4, <2>1, <2>2 DEF IInv, NoSenderMissed, WILLRECEIVE
  <2>3. CASE e = x
    <3>1. getfrom'[x] \in {NONE, p} BY <1>1, <1>2, <1>4, <1>6 DEF IInv, SameTarget
    <3>2. q # p BY <1>1, <1>2, <2>1
    <3> QED BY <1>2, <2>3, <3>1, <3>2
  <2> QED BY <2>2, <2>3
<1>10. \A q \in Proc : \/ BlockedOn(getfrom)'[q] = BlockedOn(getfrom)[q]
                       \/ BlockedOn(getfrom)'[q] = NONE
  <2>1. \A q \in Proc \ {x} : sendto'[q] = sendto[q] BY <1>1, <1>4
  <2>2. getfrom'[x] \in {NONE, p} /\ sendto'[x] = NONE
    BY <1>1, <1>2, <1>4, <1>6 DEF IInv, SameTarget
  <2> QED BY <1>1, <1>2, <1>6, <2>1, <2>2 DEF BlockedOn
<1>11. NobodyWaitsForDead'
  BY <1>1, <1>2, <1>4, <1>10 DEF IInv, NobodyWaitsForDead
<1>12. Acyclic(BlockedOn(getfrom)')
  <2>1. Acyclic(BlockedOn(getfrom))
    BY CircleFree DEF IInv
  <2>2. \A q \in Proc : BlockedOn(getfrom)'[q] = BlockedOn(getfrom)[q] \/ BlockedOn(getfrom)'[q] \notin Proc
    BY <1>2, <1>10
  <2> HIDE DEF TypeOK
  <2> QED BY <2>1, <2>2, FewerWaits, Zenon
<1> QED BY <1>7, <1>8, <1>9, <1>11, <1>12 DEF IInv, NoCircle, Acyclic

LEMMA WaitsKeeps ==
    ASSUME IpcAssumption, IInv, TypeOK', NEW p \in Proc, NEW src \in Source \cup {ANY},
           NEW g \in [Proc -> Source \cup {ANY, NONE}], Waits(p, src, g)
    PROVE  IInv'
<1> USE DEF TypeOK
<1>1. /\ \A q \in Proc : g[q] = getfrom[q] \/ (g[q] = NONE /\ sendto[q] = NONE)
      /\ sendto[p] = NONE /\ p \notin dead
      /\ src # p /\ src \notin dead
      /\ Places(p, src) = {}
      /\ ~deadlock("RECEIVE", BlockedOn(g), p, src)
      /\ getfrom' = [g EXCEPT ![p] = src]
      /\ sendto' = sendto /\ callers' = callers /\ dead' = dead
  BY DEF Waits, Wakes
<1>2. NONE \notin Proc /\ NONE # ANY /\ ANY \notin Proc
  BY DEF IpcAssumption, Source
<1>3. QueuesMatch'
  BY <1>1 DEF IInv, QueuesMatch
<1>4. SameTarget'
  BY <1>1 DEF IInv, SameTarget
<1>0. \A e, q \in Proc : sendto[q] = e <=> \E j \in DOMAIN callers[e] : callers[e][j] = q
  BY Zenon DEF IInv, QueuesMatch
<1>5. \A q \in Proc : sendto[q] = p => src \notin {ANY, q}
  <2>1. ASSUME NEW q \in Proc, sendto[q] = p PROVE src \notin {ANY, q}
    <3>2. PICK j \in DOMAIN callers[p] : callers[p][j] = q
      BY <1>0, <2>1, Zenon
    <3>3. src \in {ANY, q} => j \in Places(p, src)
      BY <3>2 DEF Places
    <3> QED BY <1>1, <3>3
  <2> QED BY <2>1
<1>6. NoSenderMissed'
  BY <1>1, <1>2, <1>5 DEF IInv, NoSenderMissed, WILLRECEIVE
<1>7. \A q \in Proc : \/ BlockedOn(g)[q] = BlockedOn(getfrom)[q]
                      \/ BlockedOn(g)[q] = NONE
  BY <1>1 DEF BlockedOn
<1>8. /\ BlockedOn(getfrom)'[p] = src
      /\ \A q \in Proc \ {p} : BlockedOn(getfrom)'[q] = BlockedOn(g)[q]
  BY <1>1 DEF BlockedOn
<1>9. NobodyWaitsForDead'
  <2>1. \A q \in Proc : BlockedOn(getfrom)[q] \notin dead /\ (q \in dead => sendto[q] = NONE)
    BY DEF IInv, NobodyWaitsForDead
  <2>2. NONE \notin dead BY <1>2 DEF IInv
  <2>3. \A q \in Proc : BlockedOn(g)[q] \notin dead BY <1>7, <2>1, <2>2, Zenon
  <2>4. ASSUME NEW q \in Proc
        PROVE  BlockedOn(getfrom)'[q] \notin dead /\ (q \in dead => sendto'[q] = NONE)
    <3>1. CASE q = p
      <4>1. BlockedOn(getfrom)'[q] \notin dead BY <1>1, <1>8, <3>1, Zenon
      <4> QED BY <1>1, <2>1, <4>1
    <3>2. CASE q # p
      <4>1. BlockedOn(getfrom)'[q] = BlockedOn(g)[q] BY <1>8, <3>2
      <4> QED BY <1>1, <2>1, <2>3, <4>1
    <3> QED BY <3>1, <3>2
  <2> QED BY <1>1, <2>4 DEF NobodyWaitsForDead
<1>10. Acyclic(BlockedOn(g))
  <2>1. Acyclic(BlockedOn(getfrom))
    BY CircleFree DEF IInv
  <2>2. \A q \in Proc : BlockedOn(g)[q] = BlockedOn(getfrom)[q] \/ BlockedOn(g)[q] \notin Proc
    BY <1>2, <1>7
  <2> HIDE DEF TypeOK
  <2> QED BY <2>1, <2>2, FewerWaits, Zenon
<1>11. ASSUME src \in Proc PROVE ~Reaches(BlockedOn(g), src, p)
  <2>1. sendto[src] # p
    BY <1>5, <1>11
  <2>2. BlockedOn(g)[src] = IF sendto[src] # NONE THEN sendto[src] ELSE g[src]
    BY <1>11 DEF BlockedOn
  <2>3. ~(BlockedOn(g)[src] = p /\ sendto[src] # NONE)
    BY <2>1, <2>2, Zenon
  <2> QED BY <1>1, <1>11, <2>3 DEF deadlock
<1>12. Acyclic(BlockedOn(getfrom)')
  <2>1. src \in Proc => src # p /\ ~Reaches(BlockedOn(g), src, p)
    BY <1>1, <1>11
  <2> HIDE DEF TypeOK
  <2> QED BY <1>8, <1>10, <2>1, OneMoreWait, Zenon
<1> QED BY <1>3, <1>4, <1>6, <1>9, <1>12 DEF IInv, NoCircle, Acyclic

LEMMA ExitKeeps ==
    ASSUME IpcAssumption, IInv, TypeOK', NEW p \in Proc, Exit(p)
    PROVE  IInv'
<1> USE DEF TypeOK
<1> DEFINE freed == {q \in Proc : BlockedOn(getfrom)[q] = p} \cup {p}
           on == sendto[p]
           at == {i \in DOMAIN callers[on] : callers[on][i] = p}
<1>1. /\ dead' = dead \cup {p}
      /\ callers' = [d \in Proc |->
             IF d = p THEN << >>
             ELSE IF d = on /\ at # {} THEN RemoveAt(callers[on], CHOOSE i \in at : TRUE)
             ELSE callers[d]]
      /\ sendto' = [q \in Proc |-> IF q \in freed THEN NONE ELSE sendto[q]]
      /\ getfrom' = [q \in Proc |-> IF q \in freed THEN NONE ELSE getfrom[q]]
  BY DEF Exit
<1>2. NONE \notin Proc /\ ANY \notin Proc /\ NONE # ANY
  BY DEF IpcAssumption, Source
<1>3. \A e, q \in Proc : sendto[q] = e <=> \E j \in DOMAIN callers[e] : callers[e][j] = q
  BY Zenon DEF IInv, QueuesMatch
<1>4. \A e \in Proc : \A k, j \in DOMAIN callers[e] : callers[e][k] = callers[e][j] => k = j
  BY DEF IInv, QueuesMatch
<1>5. \A q \in Proc : BlockedOn(getfrom)[q] = IF sendto[q] # NONE THEN sendto[q] ELSE getfrom[q]
  BY DEF BlockedOn
<1>6. \A q \in Proc : q \in freed <=> q = p \/ BlockedOn(getfrom)[q] = p
  OBVIOUS
<1>0. at = {i \in DOMAIN callers[on] : callers[on][i] = p}
  OBVIOUS
<1> HIDE DEF freed, at
<1>7. \A e, q \in Proc : sendto'[q] = e <=> e # p /\ q # p /\ sendto[q] = e
  BY <1>1, <1>2, <1>5, <1>6
<1>8. QueuesMatch'
  <2>1. ASSUME NEW e \in Proc
        PROVE  /\ \A k, j \in DOMAIN callers'[e] : callers'[e][k] = callers'[e][j] => k = j
               /\ \A q \in Proc : sendto'[q] = e <=> \E j \in DOMAIN callers'[e] : callers'[e][j] = q
    <3>1. CASE e = p
      <4>1. callers'[e] = << >> BY <1>1, <3>1
      <4>2. DOMAIN callers'[e] = {} BY <4>1
      <4>3. \A q \in Proc : sendto'[q] # e BY <1>7, <3>1
      <4> QED BY <4>2, <4>3, Zenon
    <3>2. CASE e # p /\ e = on
      <4>1. PICK k \in DOMAIN callers[e] : callers[e][k] = p
        BY <1>3, <3>2, Zenon
      <4>2. at = {k} BY <1>0, <1>4, <3>2, <4>1
      <4>3. (CHOOSE i \in at : TRUE) = k BY <4>2
      <4>4. callers'[e] = RemoveAt(callers[e], k) BY <1>1, <3>2, <4>2, <4>3
      <4>5. callers[e] \in Seq(Proc) BY DEF IInv
      <4>6. /\ \A l, j \in DOMAIN RemoveAt(callers[e], k) :
                   RemoveAt(callers[e], k)[l] = RemoveAt(callers[e], k)[j] => l = j
            /\ \A q : (\E j \in DOMAIN RemoveAt(callers[e], k) : RemoveAt(callers[e], k)[j] = q)
                          <=> q # callers[e][k] /\ \E j \in DOMAIN callers[e] : callers[e][j] = q
        <5>1. \A l, j \in DOMAIN callers[e] : callers[e][l] = callers[e][j] => l = j
          BY <1>4
        <5> QED BY <4>1, <4>5, <5>1, LeaveQueue, Zenon
      <4>7. \A q \in Proc : sendto'[q] = e <=> q # p /\ sendto[q] = e
        BY <1>7, <3>2
      <4>8. \A q \in Proc : sendto[q] = e <=> \E j \in DOMAIN callers[e] : callers[e][j] = q
        BY <1>3, Zenon
      <4>9. \A q \in Proc : sendto'[q] = e <=>
                \E j \in DOMAIN RemoveAt(callers[e], k) : RemoveAt(callers[e], k)[j] = q
        BY <4>1, <4>6, <4>7, <4>8, Zenon
      <4> QED BY <4>4, <4>6, <4>9
    <3>3. CASE e # p /\ e # on
      <4>1. callers'[e] = callers[e] BY <1>1, <3>3
      <4>2. \A q \in Proc : sendto'[q] = e <=> sendto[q] = e BY <1>7, <3>3
      <4>3. \A q \in Proc : sendto[q] = e <=> \E j \in DOMAIN callers[e] : callers[e][j] = q
        BY <1>3, Zenon
      <4>4. \A q \in Proc : sendto'[q] = e <=> \E j \in DOMAIN callers[e] : callers[e][j] = q
        BY <4>2, <4>3, Zenon
      <4>5. \A k, j \in DOMAIN callers[e] : callers[e][k] = callers[e][j] => k = j
        BY <1>4
      <4> QED BY <4>1, <4>4, <4>5
    <3> QED BY <3>1, <3>2, <3>3
  <2> QED BY <2>1, Zenon DEF QueuesMatch
<1>9. /\ \A q \in Proc : \/ sendto'[q] = sendto[q] /\ getfrom'[q] = getfrom[q]
                         \/ sendto'[q] = NONE /\ getfrom'[q] = NONE
      /\ sendto'[p] = NONE /\ getfrom'[p] = NONE
  BY <1>1, <1>6
<1>10. SameTarget'
  BY <1>9 DEF IInv, SameTarget
<1>11. NoSenderMissed'
  <2> SUFFICES ASSUME NEW q \in Proc, NEW e \in Proc, sendto'[q] = e
               PROVE  ~(sendto'[e] = NONE /\ getfrom'[e] \in {ANY, q})
    BY DEF NoSenderMissed, WILLRECEIVE
  <2>1. sendto[q] = e BY <1>7
  <2>2. ~(sendto[e] = NONE /\ getfrom[e] \in {ANY, q})
    BY <2>1 DEF IInv, NoSenderMissed, WILLRECEIVE
  <2> QED BY <1>2, <1>9, <2>2
<1>12. \A q \in Proc : BlockedOn(getfrom)'[q] =
                          IF sendto'[q] # NONE THEN sendto'[q] ELSE getfrom'[q]
  BY DEF BlockedOn
<1>13. \A q \in Proc : \/ BlockedOn(getfrom)'[q] = BlockedOn(getfrom)[q] /\ q \notin freed
                       \/ BlockedOn(getfrom)'[q] = NONE
  BY <1>1, <1>5, <1>12
<1>14. NobodyWaitsForDead'
  <2> SUFFICES ASSUME NEW q \in Proc
               PROVE  BlockedOn(getfrom)'[q] \notin dead' /\ (q \in dead' => sendto'[q] = NONE)
    BY DEF NobodyWaitsForDead
  <2>1. BlockedOn(getfrom)[q] \notin dead /\ (q \in dead => sendto[q] = NONE)
    BY DEF IInv, NobodyWaitsForDead
  <2>2. NONE \notin dead' BY <1>2
  <2>3. BlockedOn(getfrom)'[q] \notin dead'
    BY <1>1, <1>6, <1>13, <2>1, <2>2
  <2>4. q \in dead' => sendto'[q] = NONE
    BY <1>1, <1>9, <2>1
  <2> QED BY <2>3, <2>4
<1>15. Acyclic(BlockedOn(getfrom)')
  <2>1. Acyclic(BlockedOn(getfrom))
    BY CircleFree DEF IInv
  <2>2. \A q \in Proc : BlockedOn(getfrom)'[q] = BlockedOn(getfrom)[q] \/ BlockedOn(getfrom)'[q] \notin Proc
    BY <1>2, <1>13
  <2> HIDE DEF TypeOK
  <2> QED BY <2>1, <2>2, FewerWaits, Zenon
<1> QED BY <1>8, <1>10, <1>11, <1>14, <1>15 DEF IInv, NoCircle, Acyclic

LEMMA InitHolds == ASSUME IpcAssumption, Init PROVE IInv
<1>1. TypeOK
  <2>1. << >> \in Seq(Proc) OBVIOUS
  <2> QED BY <2>1 DEF Init, TypeOK, Messages
<1>2. /\ \A p \in Proc : sendto[p] = NONE /\ getfrom[p] = NONE /\ callers[p] = << >>
      /\ dead = {}
  BY DEF Init
<1>3. NONE \notin Proc
  BY DEF IpcAssumption, Source
<1>4. \A d \in Proc : DOMAIN callers[d] = {}
  BY <1>2
<1>5. QueuesMatch
  BY <1>2, <1>3, <1>4 DEF QueuesMatch
<1>6. \A q \in Proc : BlockedOn(getfrom)[q] = NONE
  BY <1>2 DEF BlockedOn
<1>7. SameTarget
  BY <1>2 DEF SameTarget
<1>8. NoSenderMissed
  BY <1>2, <1>3 DEF NoSenderMissed
<1>9. NobodyWaitsForDead
  BY <1>2 DEF NobodyWaitsForDead
<1>10. NoCircle
  <2> SUFFICES ASSUME NEW S \in SUBSET Proc, S # {}
               PROVE  \E p \in S : BlockedOn(getfrom)[p] \notin S
    BY DEF NoCircle
  <2>1. PICK p \in S : p \in Proc OBVIOUS
  <2>2. BlockedOn(getfrom)[p] \notin S BY <1>3, <1>6, <2>1
  <2> QED BY <2>2
<1> QED BY <1>7, <1>8, <1>9, <1>10, <1>1, <1>5, <1>7 DEF IInv

LEMMA StepKeeps == ASSUME IpcAssumption, IInv, TypeOK', [Next]_vars PROVE IInv'
<1>1. TypeOK
  BY DEF IInv
<1> QED BY <1>1, Effects, EasesKeeps, JoinsKeeps, FreesKeeps, WaitsKeeps, ExitKeeps

\* Whatever the calls and exits of the processes and the notifications of the
\* kernel, the queues, the waits and the dead agree.
THEOREM Invariance == Spec => []IInv
<1>1. Init => IInv
  BY InitHolds, IpcAssumption
<1>2. IInv /\ TypeOK' /\ [Next]_vars => IInv'
  BY StepKeeps, IpcAssumption
<1> QED BY <1>1, <1>2, TypeCorrect, PTL DEF Spec

\* The queue of a process holds exactly those blocked sending to it, each once.
COROLLARY QueuesCorrect == Spec => []QueuesMatch
<1>1. IInv => QueuesMatch
  BY DEF IInv
<1> QED BY <1>1, Invariance, PTL

\* No send and receive pass each other by.
COROLLARY SendersFound == Spec => []NoSenderMissed
<1>1. IInv => NoSenderMissed
  BY DEF IInv
<1> QED BY <1>1, Invariance, PTL

\* Exits included: nobody is left waiting for a process that is gone.
COROLLARY DeadForgotten == Spec => []NobodyWaitsForDead
<1>1. IInv => NobodyWaitsForDead
  BY DEF IInv
<1> QED BY <1>1, Invariance, PTL

\* The look along the chain in deadlock() is enough for groups of any size.
COROLLARY NoGroupLocked == Spec => []NoCircle
<1>1. IInv => NoCircle
  BY DEF IInv
<1> QED BY <1>1, Invariance, PTL

-----------------------------------------------------------------------------
(* Messages.                                                               *)

Clear(s, g, m) == \A q \in Proc : s[q] # NONE \/ g[q] # NONE => m[q] = NoMsg

LEMMA ReceiveClear ==
    ASSUME TypeOK, NEW p \in Proc, NEW src \in Source \cup {ANY},
           NEW g \in [Proc -> Source \cup {ANY, NONE}], NEW m \in [Proc -> Messages], NEW r,
           Clear(sendto, g, m), m[p] = NoMsg, sendto[p] = NONE, g[p] = NONE,
           mini_receive(p, src, g, m, r)
    PROVE  Clear(sendto', getfrom', delivermsg')
<1> USE DEF Clear
<1>1. CASE SourceDead(p, src, g, m, r)
  BY <1>1 DEF SourceDead
<1>2. CASE TakesNotification(p, src, g, m, r)
  BY <1>2 DEF TakesNotification
<1>3. CASE TakesAsyn(p, src, g, m, r)
  BY <1>3 DEF TakesAsyn
<1>4. CASE TakesSender(p, src, g, m, r)
  <2>1. PICK i \in Places(p, src) :
             /\ sendto' = [sendto EXCEPT ![callers[p][i]] = NONE]
             /\ delivermsg' = [m EXCEPT ![p] = Message(callers[p][i], "SEND")]
    BY <1>4 DEF TakesSender
  <2>2. \A q \in Proc : sendto'[q] # NONE => sendto[q] # NONE
    BY <2>1 DEF TypeOK
  <2>3. \A q \in Proc \ {p} : delivermsg'[q] = m[q]
    BY <2>1
  <2>4. getfrom' = g
    BY <1>4 DEF TakesSender
  <2> QED BY <2>2, <2>3, <2>4
<1>5. CASE Blocks(p, src, g, m, r)
  BY <1>5 DEF Blocks
<1> QED BY <1>1, <1>2, <1>3, <1>4, <1>5 DEF mini_receive

\* A process that blocks has had its last message copied out.
THEOREM NoMessageLost == Spec => []MessageNotOverwritten
<1> DEFINE Kept == Clear(sendto, getfrom, delivermsg)
<1>0. TypeOK => (Kept <=> MessageNotOverwritten)
  BY DEF Clear, MessageNotOverwritten, BlockedOn, TypeOK
<1>1. Init => Kept
  BY DEF Init, Clear
<1>2. TypeOK /\ Kept /\ [Next]_vars => Kept'
  <2> SUFFICES ASSUME TypeOK, Kept, [Next]_vars PROVE Kept'
    OBVIOUS
  <2> USE DEF Clear
  <2>1. CASE UNCHANGED vars
    BY <2>1 DEF vars, blocking
  <2>2. ASSUME NEW p \in Proc, NEW d \in Proc, SendHands(p, d) PROVE Kept'
    BY <2>2 DEF TypeOK, SendHands, Woken, Got, WILLRECEIVE
  <2>3. ASSUME NEW p \in Proc, NEW d \in Proc, SendBlocks(p, d) PROVE Kept'
    BY <2>3 DEF TypeOK, SendBlocks, Queues, Runs
  <2>4. ASSUME NEW p \in Proc, NEW d \in Proc, AssertFails(p, d) \/ SendrecFails(p, d)
        PROVE  Kept'
    BY <2>4 DEF AssertFails, SendrecFails, blocking
  <2>5. ASSUME NEW p \in Proc, NEW d \in Proc, SendrecHands(p, d) PROVE Kept'
    <3> DEFINE g == Woken(d)
               m == Got(d, p, "SEND")
               r == (replyPend \cup {p}) \ {d}
    <3>1. /\ g \in [Proc -> Source \cup {ANY, NONE}]
          /\ m \in [Proc -> Messages]
      BY MessageTypes DEF TypeOK, Woken, Got, Source
    <3>2. d # p /\ sendto[d] = NONE /\ sendto[p] = NONE /\ getfrom[p] = NONE /\ delivermsg[p] = NoMsg
      <4>1. <<p, d>> \in MaySend /\ Runs(p, "SENDREC") /\ WILLRECEIVE(d, p)
        BY <2>5 DEF SendrecHands
      <4> QED BY <4>1, IpcAssumption DEF Runs, WILLRECEIVE, IpcAssumption
    <3>3. Clear(sendto, g, m) /\ m[p] = NoMsg /\ g[p] = NONE
      BY <3>2 DEF TypeOK, Woken, Got
    <3>4. mini_receive(p, d, g, m, r)
      BY <2>5 DEF SendrecHands
    <3>5. d \in Source \cup {ANY} BY DEF Source
    <3> HIDE DEF g, m, r, Clear
    <3> QED BY <3>1, <3>2, <3>3, <3>4, <3>5, ReceiveClear
  <2>6. ASSUME NEW p \in Proc, NEW d \in Proc, SendrecBlocks(p, d) PROVE Kept'
    BY <2>6 DEF TypeOK, SendrecBlocks, Queues, Runs
  <2>7. ASSUME NEW p \in Proc, NEW src \in Source \cup {ANY}, Receive(p, src) PROVE Kept'
    <3>1. /\ sendto[p] = NONE /\ getfrom[p] = NONE /\ delivermsg[p] = NoMsg
          /\ mini_receive(p, src, getfrom, delivermsg, replyPend \ {p})
      BY <2>7 DEF Receive, Runs
    <3>2. /\ getfrom \in [Proc -> Source \cup {ANY, NONE}]
          /\ delivermsg \in [Proc -> Messages]
      BY DEF TypeOK
    <3> HIDE DEF Clear
    <3> QED BY <3>1, <3>2, ReceiveClear
  <2>8. ASSUME NEW p \in Proc, NEW T \in SUBSET Entry, Senda(p, T) PROVE Kept'
    <3>1. PICK took \in SUBSET Taken(p, T) :
              /\ getfrom' = [q \in Proc |-> IF q \in {e.dst : e \in took} THEN NONE ELSE getfrom[q]]
              /\ \A q \in Proc : q \notin {e.dst : e \in took} => delivermsg'[q] = delivermsg[q]
      BY <2>8 DEF Senda
    <3>2. \A q \in {e.dst : e \in took} : sendto[q] = NONE
      BY DEF Taken, WILLRECEIVE
    <3>3. sendto' = sendto
      BY <2>8 DEF Senda
    <3> QED BY <3>1, <3>2, <3>3
  <2>9. ASSUME NEW p \in Proc, Deliver(p) PROVE Kept'
    BY <2>9 DEF TypeOK, Deliver, blocking
  <2>10. ASSUME NEW p \in Proc, Exit(p) PROVE Kept'
    BY <2>10 DEF Exit
  <2>11. ASSUME NEW s \in Source, NEW d \in Proc, Notify(s, d) PROVE Kept'
    <3>1. CASE WILLRECEIVE(d, s) /\ d \notin replyPend
      BY <2>11, <3>1 DEF TypeOK, Notify, Woken, Got, WILLRECEIVE
    <3>2. CASE ~(WILLRECEIVE(d, s) /\ d \notin replyPend)
      <4>1. UNCHANGED <<sendto, delivermsg, getfrom>>
        BY <2>11, <3>2, Zenon DEF Notify
      <4> QED BY <4>1
    <3> QED BY <3>1, <3>2
  <2> QED BY StepCases, <2>1, <2>2, <2>3, <2>4, <2>5, <2>6, <2>7, <2>8, <2>9, <2>10, <2>11
<1> QED BY <1>0, <1>1, <1>2, TypeCorrect, PTL DEF Spec

-----------------------------------------------------------------------------
(* Notifications and tables: what is there for a process when it blocks.   *)

\* The four facts, for any values of the fields: a receiver from ANY is in no
\* SENDREC, while a process that sends and receives is in one; an entry has its
\* receiver's flag up; nothing in a table is for one who waits for it outside
\* a SENDREC; and nothing is pending for a receiver from ANY.
Plain(s, g, r) ==
    \A d \in Proc : /\ g[d] = ANY => d \notin r
                    /\ s[d] # NONE /\ g[d] # NONE => d \in r

Flagged(a, f) == \A x \in Proc : \A e \in a[x] : e.dst \in f

Heard(s, g, r, a) ==
    \A x, d \in Proc : s[d] = NONE /\ g[d] \in {ANY, x} /\ d \notin r => \A e \in a[x] : e.dst # d

Quiet(g, n) == \A d \in Proc : g[d] = ANY => n[d] = {}

WInv ==
    /\ Plain(sendto, getfrom, replyPend)
    /\ Flagged(asyn, asynmsg)
    /\ Heard(sendto, getfrom, replyPend, asyn)
    /\ Quiet(getfrom, pending)

\* When the scan finds no notification outside a SENDREC, none is pending.
LEMMA NoneNotified ==
    ASSUME IpcAssumption, TypeOK, NEW p \in Proc, NEW r, p \notin r, Notified(p, ANY, r) = {}
    PROVE  pending[p] = {}
<1> SUFFICES ASSUME pending[p] # {} PROVE FALSE
  OBVIOUS
<1>1. pending[p] \subseteq Source /\ \A s \in Source : PrivId[s] \in Nat
  BY DEF TypeOK, IpcAssumption
<1> DEFINE Ids == {PrivId[s] : s \in pending[p]}
<1>2. Ids \in SUBSET Nat /\ Ids # {}
  BY <1>1
<1>3. \E i \in Ids : \A j \in Ids : i <= j
  <2> HIDE DEF Ids
  <2> QED BY <1>2, LeastNat
<1>4. PICK s \in pending[p] : \A t \in pending[p] : PrivId[s] <= PrivId[t]
  BY <1>3
<1>5. s \in Notified(p, ANY, r)
  BY <1>4 DEF Notified
<1> QED BY <1>5

\* A receive looks at everything before it blocks, so it never sleeps over an
\* asynchronous message or a notification (mini_receive, proc.c).
LEMMA ReceiveHears ==
    ASSUME IpcAssumption, TypeOK, QueuesMatch,
           NEW p \in Proc, NEW src \in Source \cup {ANY},
           NEW g \in [Proc -> Source \cup {ANY, NONE}], NEW m, NEW r \in SUBSET Proc,
           sendto[p] = NONE, g[p] = NONE, src = ANY => p \notin r,
           Plain(sendto, g, r), Flagged(asyn, asynmsg), Heard(sendto, g, r, asyn),
           Quiet(g, pending),
           mini_receive(p, src, g, m, r)
    PROVE  WInv'
<1>0. ANY # NONE /\ ANY \notin Proc /\ NONE \notin Proc /\ ANY \notin Source /\ NONE \notin Source
  BY DEF IpcAssumption, Source
<1>1. CASE SourceDead(p, src, g, m, r)
  BY <1>1 DEF SourceDead, WInv
<1>2. CASE TakesNotification(p, src, g, m, r)
  <2>1. /\ getfrom' = g /\ replyPend' = r \ {p}
        /\ UNCHANGED <<sendto, asynmsg, asyn>>
        /\ \A d \in Proc : pending'[d] \subseteq pending[d]
    BY <1>2 DEF TakesNotification, TypeOK
  <2> QED BY <1>0, <2>1 DEF WInv, Plain, Flagged, Heard, Quiet
<1>3. CASE TakesAsyn(p, src, g, m, r)
  <2>1. /\ getfrom' = g /\ replyPend' = r \ {p}
        /\ UNCHANGED <<sendto, asynmsg, pending>>
        /\ \A x \in Proc : asyn'[x] \subseteq asyn[x]
    BY <1>3 DEF TakesAsyn, TypeOK
  <2> QED BY <1>0, <2>1 DEF WInv, Plain, Flagged, Heard, Quiet
<1>4. ASSUME NEW f, f = FlagAfter(p, src) PROVE Flagged(asyn, f)
  BY <1>4 DEF FlagAfter, Flagged, Waiting
<1>5. CASE TakesSender(p, src, g, m, r)
  <2>1. PICK i \in Places(p, src) : sendto' = [sendto EXCEPT ![callers[p][i]] = NONE]
    BY <1>5 DEF TakesSender
  <2> DEFINE q == callers[p][i]
  <2>2. /\ getfrom' = g /\ replyPend' = r \ {p}
        /\ asynmsg' = FlagAfter(p, src)
        /\ UNCHANGED <<pending, asyn>>
    BY <1>5 DEF TakesSender
  <2>3. i \in DOMAIN callers[p]
    BY DEF Places
  <2>4. callers[p] \in Seq(Proc)
    BY DEF TypeOK
  <2>5. q \in Proc
    BY <2>3, <2>4, LenProperties, ElementOfSeq
  <2>6. sendto[q] = p
    BY <2>3, <2>5 DEF QueuesMatch
  <2> HIDE DEF q
  <2>7. q # p /\ sendto'[q] = NONE /\ \A d \in Proc \ {q} : sendto'[d] = sendto[d]
    BY <1>0, <2>1, <2>5, <2>6 DEF TypeOK, q
  <2>8. g[q] # NONE => q \in r
    BY <1>0, <2>5, <2>6 DEF Plain
  <2>9. Plain(sendto', g, r \ {p})
    BY <1>0, <2>7 DEF Plain
  <2>10. Heard(sendto', g, r \ {p}, asyn)
    BY <1>0, <2>7, <2>8 DEF Heard
  <2> QED BY <1>4, <2>2, <2>9, <2>10 DEF WInv
<1>6. CASE Blocks(p, src, g, m, r)
  <2>1. /\ replyPend' = r
        /\ asynmsg' = FlagAfter(p, src)
        /\ UNCHANGED <<sendto, pending, asyn>>
        /\ Notified(p, src, r) = {} /\ AsynSenders(p, src, r) = {}
    BY <1>6 DEF Blocks
  <2>2. CASE getfrom' = g
    BY <1>4, <2>1, <2>2 DEF WInv
  <2>3. CASE getfrom' = [g EXCEPT ![p] = src]
    <3>1. Plain(sendto, getfrom', r)
      BY <1>0, <2>3 DEF Plain
    <3>2. Quiet(getfrom', pending)
      BY <2>1, <2>3, NoneNotified DEF Quiet
    <3>3. ASSUME NEW x \in Proc, src \in {ANY, x}, p \notin r, NEW e \in asyn[x], e.dst = p
          PROVE  FALSE
      <4>1. p \in asynmsg
        BY <3>3 DEF Flagged
      <4>2. x \in AsynSenders(p, src, r)
        BY <3>3, <4>1 DEF AsynSenders, Waiting
      <4> QED BY <2>1, <4>2
    <3>4. Heard(sendto, getfrom', r, asyn)
      BY <2>3, <3>3 DEF Heard
    <3> QED BY <1>4, <2>1, <3>1, <3>2, <3>4 DEF WInv
  <2> QED BY <1>6, <2>2, <2>3 DEF Blocks
<1> QED BY <1>1, <1>2, <1>3, <1>5, <1>6 DEF mini_receive

\* mini_senda delivers to whoever already waits for it and marks the others.
LEMMA SendaHears ==
    ASSUME IpcAssumption, TypeOK, WInv, NEW p \in Proc, NEW T \in SUBSET Entry, Senda(p, T)
    PROVE  WInv'
<1>0. ANY # NONE /\ NONE \notin Proc
  BY DEF IpcAssumption, Source
<1> DEFINE left(took) == {e \in T \ took : e.dst \notin dead}
           to(took) == {e.dst : e \in took}
<1>1. PICK took \in SUBSET Taken(p, T), kept \in BOOLEAN :
        /\ \A e \in Taken(p, T) : e.dst \in to(took)
        /\ asyn' = [asyn EXCEPT ![p] = IF kept THEN left(took) ELSE {}]
        /\ asynmsg' = asynmsg \cup {e.dst : e \in left(took)}
        /\ getfrom' = [q \in Proc |-> IF q \in to(took) THEN NONE ELSE getfrom[q]]
  BY DEF Senda
<1>2. UNCHANGED <<sendto, replyPend, pending>>
  BY DEF Senda
<1>3. \A d \in Proc : getfrom'[d] = NONE \/ (getfrom'[d] = getfrom[d] /\ d \notin to(took))
  BY <1>1
<1>4. asyn'[p] \subseteq left(took) /\ \A x \in Proc \ {p} : asyn'[x] = asyn[x]
  BY <1>1 DEF TypeOK
<1>5. Flagged(asyn', asynmsg')
  BY <1>1, <1>4 DEF Flagged, WInv
<1>6. ASSUME NEW d \in Proc, sendto[d] = NONE, getfrom'[d] \in {ANY, p}, d \notin replyPend,
             NEW e \in left(took), e.dst = d
      PROVE  FALSE
  <2>1. getfrom[d] \in {ANY, p} /\ d \notin to(took)
    BY <1>0, <1>3, <1>6
  <2>2. e \in Taken(p, T)
    BY <1>6, <2>1 DEF Taken, WILLRECEIVE
  <2> QED BY <1>1, <1>6, <2>1, <2>2
<1> HIDE DEF left, to
<1>7. Heard(sendto, getfrom', replyPend, asyn')
  BY <1>0, <1>3, <1>4, <1>6 DEF Heard, WInv
<1>8. Plain(sendto, getfrom', replyPend) /\ Quiet(getfrom', pending)
  BY <1>0, <1>3 DEF Plain, Quiet, WInv
<1> QED BY <1>2, <1>5, <1>7, <1>8 DEF WInv

\* mini_notify delivers or sets the pending bit.
LEMMA NotifyHears ==
    ASSUME IpcAssumption, TypeOK, WInv, NEW s \in Source, NEW d \in Proc, Notify(s, d)
    PROVE  WInv'
<1>0. ANY # NONE
  BY DEF IpcAssumption
<1>1. UNCHANGED <<sendto, replyPend, asynmsg, asyn>>
  BY DEF Notify
<1>2. CASE WILLRECEIVE(d, s) /\ d \notin replyPend
  <2>1. getfrom' = Woken(d) /\ pending' = pending
    BY <1>2 DEF Notify
  <2>2. getfrom'[d] = NONE /\ \A q \in Proc \ {d} : getfrom'[q] = getfrom[q]
    BY <2>1 DEF Woken, TypeOK
  <2>3. Plain(sendto, getfrom', replyPend) /\ Quiet(getfrom', pending)
    BY <1>0, <2>2 DEF Plain, Quiet, WInv
  <2>4. Heard(sendto, getfrom', replyPend, asyn)
    BY <1>0, <2>2 DEF Heard, WInv, IpcAssumption, Source
  <2> QED BY <1>1, <2>1, <2>3, <2>4 DEF WInv
<1>3. CASE ~(WILLRECEIVE(d, s) /\ d \notin replyPend)
  <2>1. pending' = [pending EXCEPT ![d] = @ \cup {s}] /\ getfrom' = getfrom
    BY <1>3, Zenon DEF Notify
  <2>2. getfrom[d] # ANY
    BY <1>0, <1>3 DEF WInv, Plain, WILLRECEIVE
  <2>3. Quiet(getfrom, pending')
    BY <2>1, <2>2 DEF Quiet, WInv, TypeOK
  <2> QED BY <1>1, <2>1, <2>3 DEF WInv
<1> QED BY <1>2, <1>3

\* Every step keeps the promise that nobody sleeps over what it waits for.
LEMMA StepHears ==
    ASSUME IpcAssumption, TypeOK, QueuesMatch, WInv, [Next]_vars
    PROVE  WInv'
<1>0. ANY # NONE /\ ANY \notin Proc /\ NONE \notin Proc
  BY DEF IpcAssumption, Source
<1>1. CASE UNCHANGED vars
  BY <1>1 DEF vars, blocking, WInv
<1>2. ASSUME NEW p \in Proc, NEW d \in Proc, SendHands(p, d) PROVE WInv'
  <2>1. /\ getfrom' = Woken(d) /\ replyPend' = replyPend \ {d}
        /\ UNCHANGED <<sendto, asynmsg, pending, asyn>>
    BY <1>2 DEF SendHands
  <2>2. getfrom'[d] = NONE /\ \A q \in Proc \ {d} : getfrom'[q] = getfrom[q]
    BY <2>1 DEF Woken, TypeOK
  <2> QED BY <1>0, <2>1, <2>2 DEF WInv, Plain, Flagged, Heard, Quiet
<1>3. ASSUME NEW p \in Proc, NEW d \in Proc, SendBlocks(p, d) PROVE WInv'
  <2>1. /\ UNCHANGED <<getfrom, replyPend, asynmsg, pending, asyn>>
        /\ sendto' = [sendto EXCEPT ![p] = d] /\ getfrom[p] = NONE
    BY <1>3 DEF SendBlocks, Queues, Runs
  <2> QED BY <1>0, <2>1 DEF WInv, Plain, Flagged, Heard, Quiet, TypeOK
<1>4. ASSUME NEW p \in Proc, NEW d \in Proc, AssertFails(p, d) PROVE WInv'
  BY <1>4 DEF AssertFails, blocking, WInv
<1>5. ASSUME NEW p \in Proc, NEW d \in Proc, SendrecHands(p, d) PROVE WInv'
  <2> DEFINE g == Woken(d)
             m == Got(d, p, "SEND")
             r == (replyPend \cup {p}) \ {d}
  <2>1. /\ p # d /\ sendto[p] = NONE /\ getfrom[p] = NONE
        /\ mini_receive(p, d, g, m, r)
    BY <1>5 DEF SendrecHands, Runs, IpcAssumption
  <2>2. g \in [Proc -> Source \cup {ANY, NONE}] /\ r \in SUBSET Proc
    BY DEF TypeOK, Woken
  <2>3. g[d] = NONE /\ \A q \in Proc \ {d} : g[q] = getfrom[q]
    BY DEF Woken, TypeOK
  <2>4. Plain(sendto, g, r) /\ Quiet(g, pending)
    BY <1>0, <2>1, <2>3 DEF Plain, Quiet, WInv
  <2>5. Heard(sendto, g, r, asyn)
    BY <1>0, <2>1, <2>3 DEF Heard, WInv
  <2>6. Flagged(asyn, asynmsg) /\ d \in Source \cup {ANY} /\ d # ANY
    BY <1>0 DEF WInv, Source
  <2> HIDE DEF g, m, r
  <2> QED BY <2>1, <2>2, <2>3, <2>4, <2>5, <2>6, ReceiveHears
<1>6. ASSUME NEW p \in Proc, NEW d \in Proc, SendrecBlocks(p, d) PROVE WInv'
  <2>1. /\ UNCHANGED <<asynmsg, pending, asyn>>
        /\ sendto' = [sendto EXCEPT ![p] = d] /\ getfrom' = [getfrom EXCEPT ![p] = d]
        /\ replyPend' = replyPend \cup {p}
    BY <1>6 DEF SendrecBlocks, Queues
  <2> QED BY <1>0, <2>1 DEF WInv, Plain, Flagged, Heard, Quiet, TypeOK
<1>7. ASSUME NEW p \in Proc, NEW d \in Proc, SendrecFails(p, d) PROVE WInv'
  <2>1. /\ UNCHANGED <<sendto, getfrom, asynmsg, pending, asyn>>
        /\ replyPend' = replyPend \cup {p} /\ getfrom[p] = NONE
    BY <1>7 DEF SendrecFails, Runs, blocking
  <2> QED BY <1>0, <2>1 DEF WInv, Plain, Flagged, Heard, Quiet
<1>8. ASSUME NEW p \in Proc, NEW src \in Source \cup {ANY}, Receive(p, src) PROVE WInv'
  <2> DEFINE r == replyPend \ {p}
  <2>1. /\ sendto[p] = NONE /\ getfrom[p] = NONE
        /\ mini_receive(p, src, getfrom, delivermsg, r)
    BY <1>8 DEF Receive, Runs
  <2>2. getfrom \in [Proc -> Source \cup {ANY, NONE}] /\ r \in SUBSET Proc
    BY DEF TypeOK
  <2>3. Plain(sendto, getfrom, r) /\ Heard(sendto, getfrom, r, asyn)
    BY <1>0, <2>1 DEF Plain, Heard, WInv
  <2>4. Flagged(asyn, asynmsg) /\ Quiet(getfrom, pending) /\ p \notin r
    BY DEF WInv
  <2> HIDE DEF r
  <2> QED BY <2>1, <2>2, <2>3, <2>4, ReceiveHears
<1>9. ASSUME NEW p \in Proc, NEW T \in SUBSET Entry, Senda(p, T) PROVE WInv'
  BY <1>9, SendaHears
<1>10. ASSUME NEW p \in Proc, Deliver(p) PROVE WInv'
  BY <1>10 DEF Deliver, blocking, WInv
<1>11. ASSUME NEW p \in Proc, Exit(p) PROVE WInv'
  <2>1. /\ UNCHANGED <<replyPend, asynmsg>>
        /\ \A x \in Proc : asyn'[x] \subseteq asyn[x] /\ pending'[x] \subseteq pending[x]
        /\ \A q \in Proc : \/ sendto'[q] = NONE /\ getfrom'[q] = NONE
                           \/ sendto'[q] = sendto[q] /\ getfrom'[q] = getfrom[q]
    BY <1>11 DEF Exit, TypeOK
  <2> QED BY <1>0, <2>1 DEF WInv, Plain, Flagged, Heard, Quiet
<1>12. ASSUME NEW s \in Source, NEW d \in Proc, Notify(s, d) PROVE WInv'
  BY <1>12, NotifyHears
<1> QED BY StepCases, <1>1, <1>2, <1>3, <1>4, <1>5, <1>6, <1>7, <1>8, <1>9, <1>10, <1>11, <1>12

\* The invariant behind the two theorems on missed messages.
LEMMA WaitsCovered == Spec => []WInv
<1>1. Init => WInv
  BY IpcAssumption DEF Init, WInv, Plain, Flagged, Heard, Quiet, IpcAssumption
<1>2. TypeOK /\ IInv /\ WInv /\ [Next]_vars => WInv'
  BY StepHears, IpcAssumption DEF IInv
<1> QED BY <1>1, <1>2, TypeCorrect, Invariance, PTL DEF Spec

\* The one flag of try_async is enough for the tables of all processes.
THEOREM AsynFound == Spec => []NoAsynMissed
<1>1. WInv => NoAsynMissed
  BY DEF WInv, Heard, NoAsynMissed, WILLRECEIVE, Waiting
<1> QED BY <1>1, WaitsCovered, PTL

\* A receive from anybody finds every notification before it blocks, and none
\* is put aside while it waits.
THEOREM NotificationsFound == Spec => []NoNotificationMissed
<1>1. WInv => NoNotificationMissed
  BY DEF WInv, Quiet, NoNotificationMissed
<1> QED BY <1>1, WaitsCovered, PTL

-----------------------------------------------------------------------------
\* p has sent its request and waits for the answer of a sendrec.
Awaits(p) == sendto[p] = NONE /\ getfrom[p] # NONE /\ p \in replyPend

\* Only the callee's answer, or its end, ends that wait.
LEMMA AnswerStep ==
    ASSUME IpcAssumption, TypeOK, WInv, [Next]_vars, NEW q \in Proc, Awaits(q),
           delivermsg'[q] # delivermsg[q]
    PROVE  delivermsg'[q] \in [from : {getfrom[q]}, call : {"SEND", "SENDA"}]
<1>0. getfrom[q] # ANY
  BY DEF WInv, Plain, Awaits
<1>1. CASE UNCHANGED vars
  BY <1>1 DEF vars
<1>2. ASSUME NEW p \in Proc, NEW d \in Proc, SendHands(p, d) \/ SendrecHands(p, d), d = q
      PROVE  getfrom[q] = p
  BY <1>0, <1>2 DEF SendHands, SendrecHands, WILLRECEIVE
<1>3. ASSUME NEW p \in Proc, NEW d \in Proc, SendHands(p, d)
      PROVE  delivermsg'[q] = Message(getfrom[q], "SEND")
  BY <1>2, <1>3 DEF SendHands, Got, TypeOK
<1>4. ASSUME NEW p \in Proc, NEW src, NEW g, NEW m \in [Proc -> Messages], NEW r, p # q,
             mini_receive(p, src, g, m, r)
      PROVE  delivermsg'[q] = m[q]
  BY <1>4 DEF mini_receive, SourceDead, TakesNotification, TakesAsyn, TakesSender, Blocks
<1>5. ASSUME NEW p \in Proc, NEW d \in Proc, SendrecHands(p, d)
      PROVE  delivermsg'[q] = Message(getfrom[q], "SEND")
  <2> DEFINE m == Got(d, p, "SEND")
  <2>1. p # q
    BY <1>5 DEF SendrecHands, Runs, Awaits
  <2>2. m \in [Proc -> Messages]
    BY MessageTypes DEF TypeOK, Got, Source
  <2>3. mini_receive(p, d, Woken(d), m, (replyPend \cup {p}) \ {d})
    BY <1>5 DEF SendrecHands
  <2>4. delivermsg'[q] = m[q]
    <3> HIDE DEF m
    <3> QED BY <1>4, <2>1, <2>2, <2>3
  <2> QED BY <1>2, <1>5, <2>4 DEF Got, TypeOK
<1>6. ASSUME NEW p \in Proc, NEW src \in Source \cup {ANY}, Receive(p, src) PROVE FALSE
  <2>1. p # q /\ mini_receive(p, src, getfrom, delivermsg, replyPend \ {p})
    BY <1>6 DEF Receive, Runs, Awaits
  <2>2. delivermsg \in [Proc -> Messages]
    BY DEF TypeOK
  <2> QED BY <1>4, <2>1, <2>2
<1>7. ASSUME NEW p \in Proc, NEW T \in SUBSET Entry, Senda(p, T)
      PROVE  delivermsg'[q] = Message(getfrom[q], "SENDA")
  <2> DEFINE sent(took, d) == CHOOSE e \in took : e.dst = d
             to(took) == {e.dst : e \in took}
  <2>1. PICK took \in SUBSET Taken(p, T) :
          delivermsg' = [o \in Proc |->
               IF o \in to(took)
               THEN Message(p, IF sent(took, o).noreply THEN "NOREPLY" ELSE "SENDA")
               ELSE delivermsg[o]]
    BY <1>7 DEF Senda
  <2>2. q \in to(took)
    BY <2>1
  <2>3. sent(took, q) \in took /\ sent(took, q).dst = q
    BY <2>2
  <2>4. WILLRECEIVE(q, p) /\ ~sent(took, q).noreply
    <3> HIDE DEF sent
    <3> QED BY <2>3 DEF Taken, Awaits
  <2>5. delivermsg'[q] = Message(p, "SENDA")
    <3>1. delivermsg'[q] = Message(p, IF sent(took, q).noreply THEN "NOREPLY" ELSE "SENDA")
      BY <2>1, <2>2
    <3> HIDE DEF sent
    <3> QED BY <3>1, <2>4
  <2> QED BY <1>0, <2>4, <2>5 DEF WILLRECEIVE
<1>8. ASSUME NEW p \in Proc, Deliver(p) PROVE FALSE
  <2>1. p # q
    BY <1>8 DEF Deliver, Awaits
  <2> QED BY <1>8, <2>1 DEF Deliver, TypeOK
<1>9. ASSUME NEW s \in Source, NEW d \in Proc, Notify(s, d) PROVE FALSE
  <2>1. CASE WILLRECEIVE(d, s) /\ d \notin replyPend
    <3>1. d # q /\ delivermsg' = Got(d, s, "NOTIFY")
      BY <1>9, <2>1 DEF Notify, Awaits
    <3> QED BY <3>1 DEF Got, TypeOK
  <2>2. CASE ~(WILLRECEIVE(d, s) /\ d \notin replyPend)
    <3>1. UNCHANGED delivermsg
      BY <1>9, <2>2, Zenon DEF Notify
    <3> QED BY <3>1
  <2> QED BY <2>1, <2>2
<1>10. ASSUME NEW p \in Proc, NEW d \in Proc,
              SendBlocks(p, d) \/ AssertFails(p, d) \/ SendrecBlocks(p, d) \/ SendrecFails(p, d)
       PROVE  FALSE
  BY <1>10 DEF SendBlocks, AssertFails, SendrecBlocks, SendrecFails
<1>11. ASSUME NEW p \in Proc, Exit(p) PROVE FALSE
  BY <1>11 DEF Exit
<1>12. \A c \in {"SEND", "SENDA"} :
           Message(getfrom[q], c) \in [from : {getfrom[q]}, call : {"SEND", "SENDA"}]
  BY DEF Message
<1> QED BY StepCases, <1>1, <1>3, <1>5, <1>6, <1>7, <1>8, <1>9, <1>10, <1>11, <1>12

\* Nobody but the process that was called, and no notification, ends a SENDREC.
THEOREM CalleeAnswers == Spec => AnsweredByCallee
<1> DEFINE Step == \A p \in Proc :
          (sendto[p] = NONE /\ getfrom[p] # NONE /\ p \in replyPend
              /\ delivermsg'[p] # delivermsg[p]) =>
          delivermsg'[p] \in [from : {getfrom[p]}, call : {"SEND", "SENDA"}]
<1>1. TypeOK /\ WInv /\ [Next]_vars => Step
  BY AnswerStep, IpcAssumption DEF Awaits
<1>2. TypeOK /\ WInv /\ [Next]_vars => [Step]_vars
  BY <1>1
<1> QED BY <1>2, TypeCorrect, WaitsCovered, PTL DEF Spec, AnsweredByCallee
=============================================================================
