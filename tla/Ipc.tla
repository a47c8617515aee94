--------------------------------- MODULE Ipc ---------------------------------
(***************************************************************************)
(* Message passing in the MINIX kernel, src/kernel/proc.c with the clean-up *)
(* of an exiting process in system.c: SEND, SENDREC, RECEIVE, NOTIFY and   *)
(* SENDA.  The kernel runs one call to its end before the next, so a call  *)
(* is one step; what interleaves are the calls of the processes.           *)
(*                                                                         *)
(* A field that is only read under a flag carries the flag: sendto[p] is   *)
(* p_sendto_e while RTS_SENDING is set and NONE otherwise, getfrom[p] the  *)
(* same for RTS_RECEIVING.  p_caller_q with the p_q_link of the processes  *)
(* on it is the sequence callers[p]; linked are the processes on no queue  *)
(* whose p_q_link is not NULL.  The table of a SENDA stays in the memory   *)
(* of its sender: asyn[p] is the set of its entries that are valid and not *)
(* done.  Contents of messages and the IPC status register are left out.   *)
(***************************************************************************)
EXTENDS Integers, SequencesExt

CONSTANTS
    Proc,           \* system processes, each with a privilege structure
    Task,           \* kernel tasks, which only send notifications
    ANY, NONE,
    PrivId,         \* priv(p)->s_id
    BITCHUNK_BITS,
    MaySend,        \* who may send to whom: s_ipc_to
    Traps,          \* the calls a process may make: s_trap_mask
    MayExit,        \* the processes that may exit
    MaxAsyn         \* bound: entries of a SENDA table

Source == Proc \cup Task
Calls == {"SEND", "SENDREC", "RECEIVE", "NOTIFY", "SENDA"}

\* set_sendto_bit never lets a process send to itself.
ASSUME IpcAssumption ==
    /\ ANY \notin Source /\ NONE \notin Source /\ ANY # NONE
    /\ Proc \cap Task = {}
    /\ PrivId \in [Source -> Nat]
    /\ \A s, t \in Source : PrivId[s] = PrivId[t] => s = t
    /\ BITCHUNK_BITS \in Nat \ {0}
    /\ MaySend \subseteq Source \X Proc
    /\ \A p \in Proc : <<p, p>> \notin MaySend
    /\ Traps \in [Proc -> SUBSET Calls]
    /\ MayExit \subseteq Proc
    /\ MaxAsyn \in Nat

VARIABLES
    sendto, getfrom,
    callers,
    linked,
    delivermsg,     \* the message to copy out before a process runs
    replyPend,      \* the processes with MF_REPLY_PEND
    asynmsg,        \* the processes with MF_ASYNMSG
    pending,        \* s_notify_pending
    asyn,
    dead,           \* the processes with RTS_NO_ENDPOINT
    panicked        \* TRUE once an assertion stopped the kernel

blocking == <<sendto, getfrom, callers, linked>>
vars == <<blocking, delivermsg, replyPend, asynmsg, pending, asyn, dead, panicked>>

NoMsg == [from |-> NONE, call |-> NONE]
\* Mutant: m_source is not filled in.
MessageUnsigned(s, call) == [from |-> NONE, call |-> call]

Message(s, call) == [from |-> s, call |-> call]
Entry == [dst : Proc, noreply : BOOLEAN]

Init ==
    /\ sendto = [p \in Proc |-> NONE]
    /\ getfrom = [p \in Proc |-> NONE]
    /\ callers = [p \in Proc |-> << >>]
    /\ linked = {}
    /\ delivermsg = [p \in Proc |-> NoMsg]
    /\ replyPend = {}
    /\ asynmsg = {}
    /\ pending = [p \in Proc |-> {}]
    /\ asyn = [p \in Proc |-> {}]
    /\ dead = {}
    /\ panicked = FALSE

-----------------------------------------------------------------------------
(* Who waits for whom.                                                     *)

\* Mutant: a process runs on before its message is copied out.
RunsUndelivered(p, c) ==
    /\ ~panicked
    /\ p \notin dead
    /\ sendto[p] = NONE /\ getfrom[p] = NONE
    /\ c \in Traps[p]

\* Nothing keeps p from running: it is about to make call c.
Runs(p, c) ==
    /\ ~panicked
    /\ p \notin dead
    /\ sendto[p] = NONE /\ getfrom[p] = NONE
    /\ delivermsg[p] = NoMsg
    /\ c \in Traps[p]

WILLRECEIVE(t, s) == sendto[t] = NONE /\ getfrom[t] \in {ANY, s}

\* P_BLOCKEDON, for given values of p_getfrom_e.
BlockedOn(g) == [p \in Proc |-> IF sendto[p] # NONE THEN sendto[p] ELSE g[p]]

\* Following b from x comes to y: y is in every set that holds x and that
\* nobody in it points out of.
Reaches(b, x, y) ==
    \A S \in SUBSET Proc :
        x \in S /\ (\A p \in S : b[p] \in Proc => b[p] \in S) => y \in S

\* Mutant: a group of two is always let pass.
deadlockOfThree(function, b, cp, x) ==
    /\ x \in Proc \ {cp}
    /\ Reaches(b, x, cp)
    /\ b[x] # cp

\* A call to x that blocks cp would close a circle; a SEND and a RECEIVE that
\* meet do not.
deadlock(function, b, cp, x) ==
    /\ x \in Proc \ {cp}
    /\ Reaches(b, x, cp)
    /\ ~(b[x] = cp /\ (sendto[x] # NONE <=> function = "RECEIVE"))

-----------------------------------------------------------------------------
(* mini_send.                                                              *)

\* The fields of d, which will receive, once it got a message of s.
Got(d, s, call) == [delivermsg EXCEPT ![d] = Message(s, call)]
Woken(d) == [getfrom EXCEPT ![d] = NONE]

\* Mutant: a sender queues at a process that has exited.
QueuesAnyway(p, d) ==
    /\ ~WILLRECEIVE(d, p)
    /\ ~deadlock("SEND", BlockedOn(getfrom), p, d)
    /\ p \notin linked
    /\ sendto' = [sendto EXCEPT ![p] = d]
    /\ callers' = [callers EXCEPT ![d] = Append(@, p)]

\* d does not wait for p: p is put at the end of its queue.
Queues(p, d) ==
    /\ d \notin dead
    /\ ~WILLRECEIVE(d, p)
    /\ ~deadlock("SEND", BlockedOn(getfrom), p, d)
    /\ p \notin linked
    /\ sendto' = [sendto EXCEPT ![p] = d]
    /\ callers' = [callers EXCEPT ![d] = Append(@, p)]

\* assert(caller_ptr->p_q_link == NULL).
AssertFails(p, d) ==
    /\ Runs(p, "SEND") \/ Runs(p, "SENDREC")
    /\ <<p, d>> \in MaySend
    /\ d \notin dead
    /\ ~WILLRECEIVE(d, p)
    /\ ~deadlock("SEND", BlockedOn(getfrom), p, d)
    /\ p \in linked
    /\ panicked' = TRUE
    /\ UNCHANGED <<blocking, delivermsg, replyPend, asynmsg, pending, asyn, dead>>

\* SEND, and SENDNB as far as it succeeds.
SendHands(p, d) ==
    /\ Runs(p, "SEND")
    /\ <<p, d>> \in MaySend
    /\ WILLRECEIVE(d, p)
    /\ getfrom' = Woken(d)
    /\ delivermsg' = Got(d, p, "SEND")
    /\ replyPend' = replyPend \ {d}
    /\ UNCHANGED <<sendto, callers, linked, asynmsg, pending, asyn, dead, panicked>>

SendBlocks(p, d) ==
    /\ Runs(p, "SEND")
    /\ <<p, d>> \in MaySend
    /\ Queues(p, d)
    /\ UNCHANGED <<getfrom, linked, delivermsg, replyPend, asynmsg, pending, asyn,
                   dead, panicked>>

-----------------------------------------------------------------------------
(* mini_receive of p from src, entered with the values g of getfrom, m of  *)
(* delivermsg and r of replyPend.                                          *)

Chunk(s) == PrivId[s] \div BITCHUNK_BITS

\* The notifications p finds: of each chunk the first bit, if it is src's.
Notified(p, src, r) ==
    {s \in pending[p] : /\ p \notin r
                        /\ src \in {ANY, s}
                        /\ \A t \in pending[p] :
                               Chunk(t) = Chunk(s) => PrivId[s] <= PrivId[t]}

Waiting(x, p) == {e \in asyn[x] : e.dst = p}

\* The senders whose table has something for p now.
AsynSenders(p, src, r) ==
    {x \in Proc : /\ p \in asynmsg
                  /\ src \in {ANY, x}
                  /\ \E e \in Waiting(x, p) : ~(e.noreply /\ p \in r)}

\* Mutant: only the head of the queue is looked at.
PlacesHead(p, src) == {i \in DOMAIN callers[p] : i = 1 /\ src \in {ANY, callers[p][i]}}

\* The places of p's queue with a sender p listens to.
Places(p, src) == {i \in DOMAIN callers[p] : src \in {ANY, callers[p][i]}}

TakesNotification(p, src, g, m, r) ==
    /\ \E s \in Notified(p, src, r) :
           /\ \A t \in Notified(p, src, r) : PrivId[s] <= PrivId[t]
           /\ pending' = [pending EXCEPT ![p] = @ \ {s}]
           /\ delivermsg' = [m EXCEPT ![p] = Message(s, "NOTIFY")]
    /\ getfrom' = g
    /\ replyPend' = r \ {p}
    /\ UNCHANGED <<sendto, callers, linked, asynmsg, asyn>>

\* try_one, or try_async when src is ANY.
TakesAsyn(p, src, g, m, r) ==
    /\ Notified(p, src, r) = {}
    /\ \E x \in AsynSenders(p, src, r) :
           /\ \A y \in AsynSenders(p, src, r) : PrivId[x] <= PrivId[y]
           /\ \E e \in Waiting(x, p) :
                  /\ ~(e.noreply /\ p \in r)
                  /\ asyn' = [asyn EXCEPT ![x] = @ \ {e}]
                  /\ delivermsg' = [m EXCEPT ![p] =
                         Message(x, IF e.noreply THEN "NOREPLY" ELSE "SENDA")]
    /\ getfrom' = g
    /\ replyPend' = r \ {p}
    /\ UNCHANGED <<sendto, callers, linked, asynmsg, pending>>

\* Mutant: try_one clears the flag as well.
FlagAfterNone(p, src) == asynmsg \ {p}

\* try_async found nothing and postponed nothing.
FlagAfter(p, src) ==
    IF src = ANY /\ \A x \in Proc : Waiting(x, p) = {} THEN asynmsg \ {p} ELSE asynmsg

\* Mutant: whoever was found, the head leaves the queue.
TakesSenderTail(p, src, g, m, r) ==
    /\ Notified(p, src, r) = {}
    /\ AsynSenders(p, src, r) = {}
    /\ \E i \in Places(p, src) :
           /\ \A j \in Places(p, src) : i <= j
           /\ sendto' = [sendto EXCEPT ![callers[p][i]] = NONE]
           /\ callers' = [callers EXCEPT ![p] = Tail(@)]
           /\ delivermsg' = [m EXCEPT ![p] = Message(callers[p][i], "SEND")]
    /\ getfrom' = g
    /\ replyPend' = r \ {p}
    /\ asynmsg' = FlagAfter(p, src)
    /\ UNCHANGED <<linked, pending, asyn>>

TakesSender(p, src, g, m, r) ==
    /\ Notified(p, src, r) = {}
    /\ AsynSenders(p, src, r) = {}
    /\ \E i \in Places(p, src) :
           /\ \A j \in Places(p, src) : i <= j
           /\ sendto' = [sendto EXCEPT ![callers[p][i]] = NONE]
           /\ callers' = [callers EXCEPT ![p] = RemoveAt(@, i)]
           /\ delivermsg' = [m EXCEPT ![p] = Message(callers[p][i], "SEND")]
    /\ getfrom' = g
    /\ replyPend' = r \ {p}
    /\ asynmsg' = FlagAfter(p, src)
    /\ UNCHANGED <<linked, pending, asyn>>

\* Nothing there: p blocks, unless that would be a deadlock (ELOCKED).
Blocks(p, src, g, m, r) ==
    /\ Notified(p, src, r) = {}
    /\ AsynSenders(p, src, r) = {}
    /\ Places(p, src) = {}
    /\ getfrom' = IF deadlock("RECEIVE", BlockedOn(g), p, src) THEN g
                  ELSE [g EXCEPT ![p] = src]
    /\ delivermsg' = m
    /\ replyPend' = r
    /\ asynmsg' = FlagAfter(p, src)
    /\ UNCHANGED <<sendto, callers, linked, pending, asyn>>

\* EDEADSRCDST.
SourceDead(p, src, g, m, r) ==
    /\ src \in dead
    /\ getfrom' = g
    /\ delivermsg' = m
    /\ replyPend' = r
    /\ UNCHANGED <<sendto, callers, linked, asynmsg, pending, asyn>>

mini_receive(p, src, g, m, r) ==
    \/ SourceDead(p, src, g, m, r)
    \/ /\ src \notin dead
       /\ \/ TakesNotification(p, src, g, m, r)
          \/ TakesAsyn(p, src, g, m, r)
          \/ TakesSender(p, src, g, m, r)
          \/ Blocks(p, src, g, m, r)

\* A process that waits for itself is left out: nobody would wake it, and
\* deadlock() does not look for a group of one.
Receive(p, src) ==
    /\ Runs(p, "RECEIVE")
    /\ src # p
    /\ mini_receive(p, src, getfrom, delivermsg, replyPend \ {p})
    /\ UNCHANGED <<dead, panicked>>

-----------------------------------------------------------------------------
(* SENDREC: both halves.                                                   *)

SendrecHands(p, d) ==
    /\ Runs(p, "SENDREC")
    /\ <<p, d>> \in MaySend
    /\ WILLRECEIVE(d, p)
    /\ mini_receive(p, d, Woken(d), Got(d, p, "SEND"), (replyPend \cup {p}) \ {d})
    /\ UNCHANGED <<dead, panicked>>

\* While RTS_SENDING is set the second half only blocks; its look for a
\* deadlock follows the chain that the first half has followed.
SendrecBlocks(p, d) ==
    /\ Runs(p, "SENDREC")
    /\ <<p, d>> \in MaySend
    /\ Queues(p, d)
    /\ getfrom' = [getfrom EXCEPT ![p] = d]
    /\ replyPend' = replyPend \cup {p}
    /\ UNCHANGED <<linked, delivermsg, asynmsg, pending, asyn, dead, panicked>>

\* EDEADSRCDST, ELOCKED or EFAULT: the flag stays.
SendrecFails(p, d) ==
    /\ Runs(p, "SENDREC")
    /\ <<p, d>> \in MaySend
    /\ replyPend' = replyPend \cup {p}
    /\ UNCHANGED <<blocking, delivermsg, asynmsg, pending, asyn, dead, panicked>>

-----------------------------------------------------------------------------
(* mini_notify and mini_senda.                                             *)

\* Mutant: whatever the destination is waiting for.
NotifyWakes(s, d) ==
    /\ <<s, d>> \in MaySend
    /\ ~panicked
    /\ s \in Proc => Runs(s, "NOTIFY")
    /\ IF WILLRECEIVE(d, s)
       THEN /\ delivermsg' = Got(d, s, "NOTIFY")
            /\ getfrom' = Woken(d)
            /\ UNCHANGED pending
       ELSE /\ pending' = [pending EXCEPT ![d] = @ \cup {s}]
            /\ UNCHANGED <<delivermsg, getfrom>>
    /\ UNCHANGED <<sendto, callers, linked, replyPend, asynmsg, asyn, dead, panicked>>

\* Mutant: a receiver from anybody is not woken.
NotifyNamed(s, d) ==
    /\ <<s, d>> \in MaySend
    /\ ~panicked
    /\ s \in Proc => Runs(s, "NOTIFY")
    /\ IF sendto[d] = NONE /\ getfrom[d] = s /\ d \notin replyPend
       THEN /\ delivermsg' = Got(d, s, "NOTIFY")
            /\ getfrom' = Woken(d)
            /\ UNCHANGED pending
       ELSE /\ pending' = [pending EXCEPT ![d] = @ \cup {s}]
            /\ UNCHANGED <<delivermsg, getfrom>>
    /\ UNCHANGED <<sendto, callers, linked, replyPend, asynmsg, asyn, dead, panicked>>

\* The kernel's tasks notify at any time.
Notify(s, d) ==
    /\ <<s, d>> \in MaySend
    /\ ~panicked
    /\ s \in Proc => Runs(s, "NOTIFY")
    /\ IF WILLRECEIVE(d, s) /\ d \notin replyPend
       THEN /\ delivermsg' = Got(d, s, "NOTIFY")
            /\ getfrom' = Woken(d)
            /\ UNCHANGED pending
       ELSE /\ pending' = [pending EXCEPT ![d] = @ \cup {s}]
            /\ UNCHANGED <<delivermsg, getfrom>>
    /\ UNCHANGED <<sendto, callers, linked, replyPend, asynmsg, asyn, dead, panicked>>

\* The entries of table T that their destinations take at once.
Taken(p, T) ==
    {e \in T : WILLRECEIVE(e.dst, p) /\ ~(e.noreply /\ e.dst \in replyPend)}

\* The table replaces the one before.  Each destination takes one entry,
\* entries for the dead are done, the others stay and raise the flag.  A bad
\* entry after T ends the scan (EINVAL): the table is not kept.
Senda(p, T) ==
    /\ Runs(p, "SENDA")
    /\ Cardinality(T) <= MaxAsyn
    /\ \A e \in T : <<p, e.dst>> \in MaySend
    /\ \E took \in SUBSET Taken(p, T), kept \in BOOLEAN :
           LET left == {e \in T \ took : e.dst \notin dead}
               sent(d) == CHOOSE e \in took : e.dst = d
               to == {e.dst : e \in took}
           IN  /\ \A e \in Taken(p, T) : e.dst \in to
               /\ \A e, f \in took : e.dst = f.dst => e = f
               /\ asyn' = [asyn EXCEPT ![p] = IF kept THEN left ELSE {}]
               /\ asynmsg' = asynmsg \cup {e.dst : e \in left}
               /\ getfrom' = [q \in Proc |-> IF q \in to THEN NONE ELSE getfrom[q]]
               /\ delivermsg' = [q \in Proc |->
                      IF q \in to
                      THEN Message(p, IF sent(q).noreply THEN "NOREPLY" ELSE "SENDA")
                      ELSE delivermsg[q]]
    /\ UNCHANGED <<sendto, callers, linked, replyPend, pending, dead, panicked>>

-----------------------------------------------------------------------------
(* switch_to_user and clear_endpoint.                                      *)

\* delivermsg: the message is copied out before the process runs.
Deliver(p) ==
    /\ ~panicked
    /\ p \notin dead
    /\ sendto[p] = NONE /\ getfrom[p] = NONE
    /\ delivermsg[p] # NoMsg
    /\ delivermsg' = [delivermsg EXCEPT ![p] = NoMsg]
    /\ UNCHANGED <<blocking, replyPend, asynmsg, pending, asyn, dead, panicked>>

\* The processes of queue q that point to another one.
Linking(q) == {q[i] : i \in 1 .. Len(q) - 1}

\* clear_ipc takes p off the queue it is on; clear_ipc_refs frees the
\* processes that wait for p, and leaves their p_q_link as it is.  Nobody
\* looks at the queue of a dead process any more.
Exit(p) ==
    LET freed == {q \in Proc : BlockedOn(getfrom)[q] = p} \cup {p}
        on == sendto[p]
        at == {i \in DOMAIN callers[on] : callers[on][i] = p}
    IN  /\ ~panicked
        /\ p \in MayExit \ dead
        /\ dead' = dead \cup {p}
        /\ asyn' = [asyn EXCEPT ![p] = {}]
        /\ callers' = [d \in Proc |->
               IF d = p THEN << >>
               ELSE IF d = on /\ at # {} THEN RemoveAt(callers[on], CHOOSE i \in at : TRUE)
               ELSE callers[d]]
        /\ linked' = linked \cup Linking(callers[p])
               \cup (IF on # NONE /\ p \in Linking(callers[on]) THEN {p} ELSE {})
        /\ sendto' = [q \in Proc |-> IF q \in freed THEN NONE ELSE sendto[q]]
        /\ getfrom' = [q \in Proc |-> IF q \in freed THEN NONE ELSE getfrom[q]]
        /\ pending' = [q \in Proc |-> pending[q] \ {p}]
        /\ UNCHANGED <<delivermsg, replyPend, asynmsg, panicked>>

-----------------------------------------------------------------------------

Call(p) ==
    \/ \E d \in Proc : SendHands(p, d) \/ SendBlocks(p, d) \/ AssertFails(p, d)
    \/ \E d \in Proc : SendrecHands(p, d) \/ SendrecBlocks(p, d) \/ SendrecFails(p, d)
    \/ \E src \in Source \cup {ANY} : Receive(p, src)
    \/ \E T \in SUBSET Entry : Senda(p, T)
    \/ Deliver(p)
    \/ Exit(p)

Next ==
    \/ \E p \in Proc : Call(p)
    \/ \E s \in Source, d \in Proc : Notify(s, d)
    \/ panicked /\ UNCHANGED vars

Spec == Init /\ [][Next]_vars

-----------------------------------------------------------------------------
(* Properties.                                                             *)

Messages == [from : Source, call : {"SEND", "NOTIFY", "SENDA", "NOREPLY"}] \cup {NoMsg}

TypeOK ==
    /\ sendto \in [Proc -> Proc \cup {NONE}]
    /\ getfrom \in [Proc -> Source \cup {ANY, NONE}]
    /\ callers \in [Proc -> Seq(Proc)]
    /\ linked \subseteq Proc
    /\ delivermsg \in [Proc -> Messages]
    /\ replyPend \subseteq Proc
    /\ asynmsg \subseteq Proc
    /\ pending \in [Proc -> SUBSET Source]
    /\ asyn \in [Proc -> SUBSET Entry]
    /\ dead \subseteq Proc
    /\ panicked \in BOOLEAN

\* A process is on the queue of the process it is blocked sending to, once,
\* and on no other.
QueuesMatch ==
    \A d \in Proc :
        /\ \A i, j \in DOMAIN callers[d] : callers[d][i] = callers[d][j] => i = j
        /\ \A p \in Proc : sendto[p] = d <=> \E i \in DOMAIN callers[d] : callers[d][i] = p

\* No two processes miss each other: none is blocked sending to one that
\* would receive it.
NoSenderMissed == \A p, d \in Proc : sendto[p] = d => ~WILLRECEIVE(d, p)

\* The one flag for all tables is enough: a receiver outside a SENDREC never
\* blocks over an entry that is there for it.
NoAsynMissed ==
    \A x, d \in Proc :
        WILLRECEIVE(d, x) /\ d \notin replyPend => Waiting(x, d) = {}

\* A receiver from anybody never blocks over a notification.
NoNotificationMissed ==
    \A d \in Proc : sendto[d] = NONE /\ getfrom[d] = ANY => pending[d] = {}

\* deadlock() keeps processes from waiting for each other in a circle: of any
\* processes, one waits for none of them.
NoCircle ==
    \A S \in SUBSET Proc : S # {} => \E p \in S : BlockedOn(getfrom)[p] \notin S

\* Nobody waits for a dead process, and the dead are on no queue.
NobodyWaitsForDead ==
    \A p \in Proc : BlockedOn(getfrom)[p] \notin dead /\ (p \in dead => sendto[p] = NONE)

\* assert(!(p_misc_flags & MF_DELIVERMSG)): a process that blocks has had its
\* last message copied out, so no message is overwritten by the next.
MessageNotOverwritten ==
    \A p \in Proc : BlockedOn(getfrom)[p] # NONE => delivermsg[p] = NoMsg

\* A SENDREC is answered by the process that was called, and not by a
\* notification nor by an entry marked AMF_NOREPLY.
AnsweredByCallee ==
    [][\A p \in Proc :
          (sendto[p] = NONE /\ getfrom[p] # NONE /\ p \in replyPend
              /\ delivermsg'[p] # delivermsg[p]) =>
          delivermsg'[p] \in [from : {getfrom[p]}, call : {"SEND", "SENDA"}]]_vars
=============================================================================
