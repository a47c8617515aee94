----------------------------- MODULE LwpProofs -----------------------------
(***************************************************************************)
(* Theorems about Lwp.tla: for any number of threads and any scheduler     *)
(* that keeps the promise of lwp.h's struct scheduler, which is written    *)
(* down here and shown to be kept by a queue.  (RoundRobin does not keep   *)
(* it: see the run lwp_rr_lost.)  The second part is about RoundRobin and  *)
(* SetScheduler.tla: the ring that is changed for a queue and back.        *)
(***************************************************************************)
EXTENDS Lwp, SetScheduler, QueueLemmas

-----------------------------------------------------------------------------
(* The scheduler's promise.                                                *)

ReadyIn(s) == Range(Turns(s))

\* S is a set of scheduler states that the functions do not leave and in
\* which they do what lwp.h says of them.
KeepsPromise(S) ==
    /\ NoSched \in S /\ ReadyIn(NoSched) = {}
    /\ \A s \in S :
         /\ ReadyIn(s) \subseteq Thread
         /\ Advance(s) \in S /\ ReadyIn(Advance(s)) = ReadyIn(s)
         /\ NextOf(s) \in ReadyIn(s) \/ (NextOf(s) = NULL /\ ReadyIn(s) = {})
         /\ Qlen(s) <= 1 <=> \A t, u \in ReadyIn(s) : t = u
         /\ Qlen(s) > 1 <=> ~(Qlen(s) <= 1)
         /\ \A t \in Thread \ ReadyIn(s) :
              /\ Admit(s, t) \in S
              /\ ReadyIn(Admit(s, t)) = ReadyIn(s) \cup {t}
         /\ \A t \in ReadyIn(s) :
              /\ RemoveFrom(s, t) \in S
              /\ ReadyIn(RemoveFrom(s, t)) = ReadyIn(s) \ {t}

\* The scheduler of module FifoScheduler.
IsFifo ==
    /\ NoSched = fifo_init
    /\ \A q \in Seq(Thread) :
         /\ Turns(q) = fifo_turns(q)
         /\ Advance(q) = fifo_advance(q)
         /\ NextOf(q) = fifo_next(q, NULL)
         /\ Qlen(q) = fifo_qlen(q)
         /\ \A t \in Thread : Admit(q, t) = fifo_admit(q, t)
                              /\ RemoveFrom(q, t) = fifo_remove(q, t)

Queues == {q \in Seq(Thread) : IsInjective(q)}

\* At most one thread on a queue without repetition, by its length.
LEMMA ShortQueue ==
    ASSUME NEW q \in Seq(Thread), IsInjective(q)
    PROVE  /\ Len(q) \in Nat
           /\ Len(q) <= 1 <=> \A t, u \in Range(q) : t = u
<1>1. DOMAIN q = 1 .. Len(q) /\ Len(q) \in Nat
  BY LenProperties
<1>2. ASSUME Len(q) <= 1, NEW t \in Range(q), NEW u \in Range(q) PROVE t = u
  BY <1>1, <1>2 DEF Range
<1>3. ASSUME ~(Len(q) <= 1) PROVE \E t, u \in Range(q) : t # u
  <2>1. 1 \in DOMAIN q /\ 2 \in DOMAIN q
    BY <1>1, <1>3
  <2>2. q[1] # q[2]
    BY <2>1 DEF IsInjective
  <2> QED BY <2>1, <2>2 DEF Range
<1> QED BY <1>1, <1>2, <1>3

\* The members of a list of threads are threads.
LEMMA SeqRange == ASSUME NEW q \in Seq(Thread) PROVE Range(q) \subseteq Thread
BY ElementOfSeq, LenProperties DEF Range

\* A queue keeps the promise (fifo_* of module FifoScheduler).
LEMMA QueueKeepsPromise == ASSUME LwpAssumption, IsFifo PROVE KeepsPromise(Queues)
<1>1. NoSched \in Queues /\ ReadyIn(NoSched) = {}
  <2>1. <<>> \in Seq(Thread) /\ DOMAIN <<>> = {}
    BY EmptySeq
  <2> QED BY <2>1 DEF Queues, IsFifo, fifo_init, fifo_turns, ReadyIn, Range, IsInjective
<1>2. ASSUME NEW q \in Queues
      PROVE  /\ ReadyIn(q) = Range(q) /\ ReadyIn(q) \subseteq Thread
             /\ Qlen(q) = Len(q)
             /\ \A t \in Thread : Admit(q, t) = Append(q, t)
             /\ \A t \in Thread : RemoveFrom(q, t) = RemoveFirst(q, t)
  <2>1. q \in Seq(Thread)
    BY DEF Queues
  <2>2. Range(q) \subseteq Thread
    BY <2>1, ElementOfSeq, LenProperties DEF Range
  <2> QED BY <2>1, <2>2 DEF IsFifo, ReadyIn, fifo_turns, fifo_qlen, fifo_admit, fifo_remove
<1>3. ASSUME NEW q \in Queues
      PROVE  /\ Advance(q) \in Queues /\ ReadyIn(Advance(q)) = ReadyIn(q)
             /\ NextOf(q) \in ReadyIn(q) \/ (NextOf(q) = NULL /\ ReadyIn(q) = {})
  <2>1. q \in Seq(Thread) /\ IsInjective(q)
    BY DEF Queues
  <2>2. CASE q = <<>>
    <3>1. Advance(q) = q /\ NextOf(q) = NULL
      BY <2>1, <2>2 DEF IsFifo, fifo_advance, fifo_next
    <3>2. Range(q) = {}
      BY <2>2, EmptySeq DEF Range
    <3> QED BY <1>2, <3>1, <3>2
  <2>3. CASE q # <<>>
    <3>1. /\ Head(q) \in Thread /\ Head(q) \in Range(q) /\ Tail(q) \in Seq(Thread)
          /\ Range(q) = Range(Tail(q)) \cup {Head(q)}
          /\ IsInjective(Tail(q)) /\ Head(q) \notin Range(Tail(q))
      BY <2>1, <2>3, TailRange
    <3>2. Advance(q) = Append(Tail(q), Head(q)) /\ NextOf(q) = Head(q)
      BY <2>1, <2>3 DEF IsFifo, fifo_advance, fifo_next
    <3>3. /\ Append(Tail(q), Head(q)) \in Seq(Thread)
          /\ IsInjective(Append(Tail(q), Head(q)))
          /\ Range(Append(Tail(q), Head(q))) = Range(q)
      <4> DEFINE r == Tail(q)
                 h == Head(q)
      <4> HIDE DEF r, h
      <4>1. /\ h \in Thread /\ r \in Seq(Thread) /\ Range(q) = Range(r) \cup {h}
            /\ IsInjective(r) /\ h \notin Range(r)
        BY <3>1 DEF r, h
      <4>2. Append(r, h) \in Seq(Thread)
        BY <4>1, AppendFacts
      <4>3. IsInjective(Append(r, h)) /\ Range(Append(r, h)) = Range(r) \cup {h}
        BY <4>1, AppendRange
      <4> QED BY <4>1, <4>2, <4>3 DEF r, h
    <3>4. Advance(q) \in Queues
      BY <3>2, <3>3 DEF Queues
    <3> QED BY <1>2, <3>1, <3>2, <3>3, <3>4
  <2> QED BY <2>2, <2>3
<1>4. ASSUME NEW q \in Queues, NEW t \in Thread \ ReadyIn(q)
      PROVE  Admit(q, t) \in Queues /\ ReadyIn(Admit(q, t)) = ReadyIn(q) \cup {t}
  <2>1. Append(q, t) \in Queues /\ Range(Append(q, t)) = Range(q) \cup {t}
    BY <1>2, AppendRange, AppendFacts DEF Queues
  <2> QED BY <1>2, <2>1
<1>5. ASSUME NEW q \in Queues, NEW t \in ReadyIn(q)
      PROVE  RemoveFrom(q, t) \in Queues /\ ReadyIn(RemoveFrom(q, t)) = ReadyIn(q) \ {t}
  <2>1. RemoveFirst(q, t) \in Queues /\ Range(RemoveFirst(q, t)) = Range(q) \ {t}
    BY RemoveFirstRange DEF Queues
  <2> QED BY <1>2, <2>1
<1>6. ASSUME NEW q \in Queues
      PROVE  /\ Qlen(q) <= 1 <=> \A t, u \in ReadyIn(q) : t = u
             /\ Qlen(q) > 1 <=> ~(Qlen(q) <= 1)
  BY <1>2, ShortQueue DEF Queues
<1> QED BY <1>1, <1>2, <1>3, <1>4, <1>5, <1>6 DEF KeepsPromise

-----------------------------------------------------------------------------
(* No thread is lost.                                                      *)

Types(S) ==
    /\ sched \in S
    /\ lib \in Seq(Thread)
    /\ waiting \in Seq(Thread)
    /\ status \in [Thread -> {"none", "live", "term"}]
    /\ exited \in [Thread -> Thread \cup {NULL}]
    /\ freed \subseteq Thread
    /\ current \in Thread \cup {NULL}
    /\ at \in [Thread -> {"code", "wait"}]
    /\ yields \in [Thread -> Nat]
    /\ told \subseteq Thread

\* The waiting list holds each thread once, and only threads that are in
\* lwp_wait and have been given nobody yet.
Blocked ==
    /\ IsInjective(waiting)
    /\ \A t \in Range(waiting) : at[t] = "wait" /\ exited[t] = NULL

\* Before lwp_start, threads have been created and nothing else has happened.
Fresh ==
    process = "setup" =>
        /\ waiting = <<>> /\ current = NULL /\ freed = {} /\ told = {}
        /\ status[Main] = "none"
        /\ \A t \in Thread : status[t] # "term" /\ at[t] = "code" /\ exited[t] = NULL

\* Only a thread that is in lwp_wait has been given one.
Given == \A t \in Thread : exited[t] # NULL => at[t] = "wait"

CurrentReady == process = "running" => current \in Ready

\* The library's list holds each thread at most once, and only created ones.
Listed ==
    /\ IsInjective(lib)
    /\ \A t \in Range(lib) : status[t] # "none" /\ t # Main

LInv(S) == /\ Types(S) /\ NoThreadLost /\ Blocked /\ Fresh /\ Given /\ CurrentReady
           /\ Listed

\* What a call ends with, for a scheduler s of the promise: another thread
\* runs, or nobody is ready and the process ends.
LEMMA YieldEffects ==
    ASSUME LwpAssumption, NEW S, KeepsPromise(S), NEW s \in S, YieldWith(s)
    PROVE  \/ /\ process' = "shutdown" /\ sched' = NoSched /\ current' = current
              /\ ReadyIn(s) = {}
           \/ /\ process' = process /\ sched' \in S
              /\ current' \in ReadyIn(s) /\ ReadyIn(sched') = ReadyIn(s)
<1>1. ReadyIn(s) \subseteq Thread /\ NULL \notin Thread
  BY DEF KeepsPromise, LwpAssumption
<1>2. CASE NextOf(s) = NULL
  BY <1>1, <1>2 DEF KeepsPromise, YieldWith
<1>3. CASE NextOf(s) # NULL
  BY <1>1, <1>3 DEF KeepsPromise, YieldWith
<1> QED BY <1>2, <1>3

\* The ready threads are threads.
LEMMA ReadyThreads ==
    ASSUME NEW S, KeepsPromise(S), Types(S) PROVE Ready \subseteq Thread
BY DEF KeepsPromise, Types, Ready, ReadyIn

LEMMA LInit == ASSUME LwpAssumption, NEW S, KeepsPromise(S), Init PROVE LInv(S)
<1>1. <<>> \in Seq(Thread) /\ Range(<<>>) = {} /\ IsInjective(<<>>)
  BY EmptySeq DEF Range, IsInjective
<1>2. Types(S)
  BY <1>1 DEF KeepsPromise, Init, Types
<1>3. Ready = {}
  BY DEF KeepsPromise, Init, Ready, ReadyIn
<1> QED BY <1>1, <1>2, <1>3
         DEF Init, LInv, NoThreadLost, Blocked, Fresh, CurrentReady, Listed, Given, LwpAssumption

LEMMA CreateKeeps ==
    ASSUME LwpAssumption, NEW S, KeepsPromise(S), LInv(S), NEW new \in Thread, lwp_create(new)
    PROVE  LInv(S)'
<1>1. new \notin Ready \cup Range(waiting) /\ process \in {"setup", "running"} /\ process' = process
  BY DEF LInv, NoThreadLost, lwp_create, Runs
<1>2. sched' \in S /\ Ready' = Ready \cup {new}
  BY <1>1 DEF KeepsPromise, lwp_create, LInv, Types, Ready, ReadyIn
<1>3. /\ lib' \in Seq(Thread) /\ IsInjective(lib')
      /\ Range(lib') = Range(lib) \cup {new} /\ Range(lib) \subseteq Thread
  <2>1. new \notin Range(lib)
    BY DEF LInv, Types, Listed, lwp_create
  <2>2. lib \in Seq(Thread) /\ IsInjective(lib) /\ lib' = Append(lib, new)
    BY DEF LInv, Types, Listed, lwp_create
  <2> QED BY <2>1, <2>2, AppendFacts, AppendRange, SeqRange
<1>4. /\ status' = [status EXCEPT ![new] = "live"]
      /\ UNCHANGED <<waiting, exited, freed, current, at, yields, told>>
      /\ new # Main
  BY DEF lwp_create
<1>5. Types(S)'
  BY <1>2, <1>3, <1>4 DEF LInv, Types
<1>6. NoThreadLost'
  BY <1>1, <1>2, <1>4 DEF LInv, Types, NoThreadLost
<1>7. Blocked' /\ Fresh' /\ CurrentReady' /\ Given'
  BY <1>1, <1>2, <1>4 DEF LInv, Types, Blocked, Fresh, CurrentReady, Given, LwpAssumption
<1>8. Listed'
  BY <1>3, <1>4 DEF LInv, Types, Listed
<1> QED BY <1>5, <1>6, <1>7, <1>8 DEF LInv

LEMMA StartKeeps ==
    ASSUME LwpAssumption, NEW S, KeepsPromise(S), LInv(S), lwp_start
    PROVE  LInv(S)'
<1> DEFINE s == Admit(sched, Main)
<1>1. Main \in Thread \ Ready /\ waiting = <<>>
  BY DEF LwpAssumption, LInv, NoThreadLost, Fresh, lwp_start
<1>2. s \in S /\ ReadyIn(s) = Ready \cup {Main}
  BY <1>1 DEF KeepsPromise, LInv, Types, Ready, ReadyIn
<1>3. current' = NextOf(s) /\ sched' = Advance(s)
  BY DEF lwp_start
<1> HIDE DEF s
<1>4. sched' \in S /\ Ready' = Ready \cup {Main}
  BY <1>2, <1>3 DEF KeepsPromise, Ready, ReadyIn
<1>5. current' \in Ready' /\ Ready' \subseteq Thread
  BY <1>2, <1>3, <1>4 DEF KeepsPromise
<1>6. /\ process = "setup" /\ process' = "running"
      /\ status' = [status EXCEPT ![Main] = "live"]
      /\ UNCHANGED <<lib, waiting, exited, freed, at, yields, told>>
  BY DEF lwp_start
<1>7. Types(S)'
  BY <1>4, <1>5, <1>6 DEF LInv, Types
<1>8. Range(waiting) = {}
  BY <1>1, EmptySeq DEF Range
<1>9. NoThreadLost'
  BY <1>1, <1>4, <1>6, <1>8 DEF LInv, Types, NoThreadLost
<1>10. Listed'
  BY <1>6, SeqRange DEF LInv, Types, Listed
<1> QED BY <1>5, <1>6, <1>7, <1>8, <1>9, <1>10 DEF LInv, Blocked, Fresh, CurrentReady, Given

LEMMA YieldKeeps ==
    ASSUME LwpAssumption, NEW S, KeepsPromise(S), LInv(S), NEW t \in Thread, lwp_yield(t)
    PROVE  LInv(S)'
<1>1. process = "running" /\ sched \in S /\ ReadyIn(sched) = Ready /\ Ready # {}
  BY DEF lwp_yield, Acts, Runs, LInv, Types, CurrentReady, Ready, ReadyIn
<1>2. process' = process /\ sched' \in S /\ current' \in Ready /\ Ready' = Ready
  BY <1>1, YieldEffects DEF lwp_yield, Ready, ReadyIn
<1>3. /\ yields' = [yields EXCEPT ![t] = @ + 1]
      /\ UNCHANGED <<lib, waiting, status, exited, freed, at, told>>
  BY DEF lwp_yield
<1>4. Types(S)'
  <2>1. current' \in Thread
    BY <1>2, ReadyThreads DEF LInv
  <2>2. yields' \in [Thread -> Nat]
    BY <1>3 DEF LInv, Types
  <2> QED BY <1>2, <1>3, <2>1, <2>2 DEF LInv, Types
<1>5. NoThreadLost' /\ Blocked' /\ Listed' /\ Given'
  BY <1>1, <1>2, <1>3 DEF LInv, NoThreadLost, Blocked, Listed, Given
<1> QED BY <1>1, <1>2, <1>4, <1>5 DEF LInv, Fresh, CurrentReady

\* The running thread is ready and therefore not on the waiting list.
LEMMA RunnerNotBlocked ==
    ASSUME NEW S, LInv(S), process = "running", NEW t \in Thread, current = t
    PROVE  t \in Ready /\ status[t] = "live" /\ t \notin Range(waiting)
BY DEF LInv, Types, CurrentReady, NoThreadLost

LEMMA ExitKeeps ==
    ASSUME LwpAssumption, NEW S, KeepsPromise(S), LInv(S), NEW t \in Thread, lwp_exit(t)
    PROVE  LInv(S)'
<1> DEFINE s == RemoveFrom(sched, t)
           w == Head(waiting)
<1>1. /\ process = "running" /\ current = t
      /\ t \in Ready /\ status[t] = "live" /\ t \notin Range(waiting)
  BY RunnerNotBlocked DEF lwp_exit, Acts, Runs
<1>2. s \in S /\ ReadyIn(s) = Ready \ {t} /\ Ready \subseteq Thread
  BY <1>1, ReadyThreads DEF KeepsPromise, LInv, Types, Ready, ReadyIn
<1>3. /\ status' = [status EXCEPT ![t] = "term"]
      /\ UNCHANGED <<lib, freed, at, yields, told>>
  BY DEF lwp_exit
<1>l. Listed'
  BY <1>3, SeqRange DEF LInv, Types, Listed
<1>4. CASE waiting = <<>>
  <2>1. YieldWith(s) /\ waiting' = waiting /\ exited' = exited
    BY <1>4 DEF lwp_exit
  <2> HIDE DEF s
  <2>2. /\ sched' \in S
        /\ current' \in Thread \cup {NULL}
        /\ process' = "running" => Ready' = Ready \ {t} /\ current' \in Ready'
        /\ process' \in {"running", "shutdown"}
    BY <1>1, <1>2, <2>1, YieldEffects DEF KeepsPromise, Ready, ReadyIn
  <2>3. Types(S)'
    BY <1>3, <2>1, <2>2 DEF LInv, Types
  <2>4. NoThreadLost'
    BY <1>1, <1>3, <2>1, <2>2 DEF LInv, Types, NoThreadLost
  <2> QED BY <1>3, <1>l, <2>1, <2>2, <2>3, <2>4 DEF LInv, Blocked, Fresh, CurrentReady, Given
<1>5. CASE waiting # <<>>
  <2>1. /\ YieldWith(Admit(s, w)) /\ waiting' = Tail(waiting)
        /\ exited' = [exited EXCEPT ![w] = t]
    BY <1>5 DEF lwp_exit
  <2>2. /\ w \in Thread /\ w \in Range(waiting) /\ Tail(waiting) \in Seq(Thread)
        /\ Range(waiting) = Range(Tail(waiting)) \cup {w}
        /\ IsInjective(Tail(waiting)) /\ w \notin Range(Tail(waiting))
    BY <1>5, TailRange DEF LInv, Types, Blocked
  <2>3. status[w] = "live" /\ w \notin Ready /\ w # t
    BY <1>1, <2>2 DEF LInv, Types, NoThreadLost
  <2> HIDE DEF w, s
  <2>4. Admit(s, w) \in S /\ ReadyIn(Admit(s, w)) = (Ready \ {t}) \cup {w}
    <3>1. w \in Thread \ ReadyIn(s)
      BY <1>2, <2>2, <2>3
    <3>2. Admit(s, w) \in S /\ ReadyIn(Admit(s, w)) = ReadyIn(s) \cup {w}
      BY <1>2, <3>1 DEF KeepsPromise
    <3> QED BY <1>2, <3>2
  <2>5. /\ sched' \in S
        /\ process' = "running" /\ Ready' = (Ready \ {t}) \cup {w} /\ current' \in Ready'
    BY <1>1, <2>1, <2>4, YieldEffects DEF Ready, ReadyIn
  <2>6. Types(S)'
    BY <1>2, <1>3, <2>1, <2>2, <2>5 DEF LInv, Types
  <2>7. NoThreadLost'
    BY <1>1, <1>3, <2>1, <2>2, <2>3, <2>5 DEF LInv, Types, NoThreadLost
  <2>8. Blocked' /\ Given'
    BY <1>3, <2>1, <2>2 DEF LInv, Types, Blocked, Given
  <2> QED BY <1>l, <2>5, <2>6, <2>7, <2>8 DEF LInv, Fresh, CurrentReady
<1> QED BY <1>4, <1>5

\* Freeing a thread takes it off the list.
LEMMA ReapEffects ==
    ASSUME NEW S, LInv(S), NEW v \in Thread, Reap(v)
    PROVE  /\ lib' \in Seq(Thread) /\ IsInjective(lib') /\ Range(lib') \subseteq Range(lib)
           /\ freed' \subseteq Thread
           /\ v \notin freed => /\ process' = process
                                /\ freed' = freed \cup {v}
                                /\ Range(lib') = Range(lib) \ {v}
           /\ v \in freed => process' = "undefined"
<1>1. lib \in Seq(Thread) /\ IsInjective(lib) /\ freed \subseteq Thread
  BY DEF LInv, Types, Listed
<1>2. CASE v \in freed
  BY <1>1, <1>2 DEF Reap
<1>3. CASE v \notin freed
  <2>1. lib' = RemoveFirst(lib, v) /\ freed' = freed \cup {v} /\ process' = process
    BY <1>3 DEF Reap
  <2> QED BY <1>1, <1>3, <2>1, RemoveFirstRange
<1> QED BY <1>2, <1>3

\* The thread that lwp_wait finds is on the list and terminated.
LEMMA FoundThread ==
    ASSUME NEW S, LInv(S), NEW i \in Finished
    PROVE  lib[i] \in Thread /\ lib[i] \in Range(lib) /\ status[lib[i]] = "term"
BY ElementOfSeq, LenProperties DEF LInv, Types, Finished, Range

LEMMA ReapsKeeps ==
    ASSUME LwpAssumption, NEW S, KeepsPromise(S), LInv(S), NEW t \in Thread, WaitReaps(t)
    PROVE  LInv(S)'
<1>1. PICK i \in Finished : Reap(lib[i])
  BY DEF WaitReaps
<1>2. /\ lib[i] \in Thread
      /\ lib' \in Seq(Thread) /\ IsInjective(lib') /\ Range(lib') \subseteq Range(lib)
      /\ freed' \subseteq Thread
      /\ process' = process \/ process' = "undefined"
  BY <1>1, FoundThread, ReapEffects
<1>3. /\ process = "running" /\ told' \subseteq Thread
      /\ UNCHANGED <<sched, waiting, status, exited, current, at, yields>>
  BY DEF WaitReaps, Waits, Runs, LInv, Types
<1>4. Ready' = Ready
  BY <1>3 DEF Ready
<1>5. Types(S)' /\ Listed'
  BY <1>2, <1>3 DEF LInv, Types, Listed
<1>6. NoThreadLost' /\ Blocked' /\ Given'
  BY <1>2, <1>3, <1>4 DEF LInv, NoThreadLost, Blocked, Given
<1> QED BY <1>2, <1>3, <1>4, <1>5, <1>6 DEF LInv, Fresh, CurrentReady

LEMMA NoneKeeps ==
    ASSUME LwpAssumption, NEW S, KeepsPromise(S), LInv(S), NEW t \in Thread, WaitHasNone(t)
    PROVE  LInv(S)'
<1>1. /\ process = "running" /\ told' \subseteq Thread
      /\ UNCHANGED <<sched, lib, waiting, status, exited, freed, current, at, yields, process>>
  BY DEF WaitHasNone, Waits, Runs, LInv, Types
<1>2. Ready' = Ready
  BY <1>1 DEF Ready
<1>3. Types(S)' /\ Listed'
  BY <1>1 DEF LInv, Types, Listed
<1>4. NoThreadLost' /\ Blocked' /\ Given'
  BY <1>1, <1>2 DEF LInv, NoThreadLost, Blocked, Given
<1> QED BY <1>1, <1>2, <1>3, <1>4 DEF LInv, Fresh, CurrentReady

LEMMA BlocksKeeps ==
    ASSUME LwpAssumption, NEW S, KeepsPromise(S), LInv(S), NEW t \in Thread, WaitBlocks(t)
    PROVE  LInv(S)' /\ process' = "running"
<1> DEFINE s == RemoveFrom(sched, t)
<1>1. /\ process = "running" /\ current = t /\ at[t] = "code"
      /\ t \in Ready /\ status[t] = "live" /\ t \notin Range(waiting)
  BY RunnerNotBlocked DEF WaitBlocks, Waits, Runs
<1>2. s \in S /\ ReadyIn(s) = Ready \ {t} /\ Ready \subseteq Thread
  BY <1>1, ReadyThreads DEF KeepsPromise, LInv, Types, Ready, ReadyIn
<1>3. ReadyIn(s) # {}
  <2>1. ~(\A u, v \in Ready : u = v)
    BY DEF WaitBlocks, KeepsPromise, LInv, Types, Ready, ReadyIn
  <2> QED BY <1>2, <2>1
<1>4. /\ waiting' = Append(waiting, t) /\ at' = [at EXCEPT ![t] = "wait"]
      /\ YieldWith(s)
      /\ UNCHANGED <<lib, status, exited, freed, yields, told>>
  BY DEF WaitBlocks
<1> HIDE DEF s
<1>5. /\ process' = process /\ sched' \in S
      /\ Ready' = Ready \ {t} /\ current' \in Ready'
  BY <1>2, <1>3, <1>4, YieldEffects DEF Ready, ReadyIn
<1>6. /\ waiting' \in Seq(Thread) /\ IsInjective(waiting')
      /\ Range(waiting') = Range(waiting) \cup {t}
  BY <1>1, <1>4, AppendFacts, AppendRange DEF LInv, Types, Blocked
<1>7. exited[t] = NULL
  BY <1>1 DEF LInv, Given
<1>8. Types(S)'
  BY <1>2, <1>4, <1>5, <1>6 DEF LInv, Types
<1>9. NoThreadLost'
  BY <1>1, <1>4, <1>5, <1>6 DEF LInv, Types, NoThreadLost
<1>10. Blocked' /\ Given'
  BY <1>1, <1>4, <1>6, <1>7, SeqRange DEF LInv, Types, Blocked, Given
<1>11. Listed'
  BY <1>4 DEF LInv, Listed
<1> QED BY <1>1, <1>5, <1>8, <1>9, <1>10, <1>11 DEF LInv, Fresh, CurrentReady

LEMMA ResumesKeeps ==
    ASSUME LwpAssumption, NEW S, KeepsPromise(S), LInv(S), NEW t \in Thread, WaitResumes(t)
    PROVE  LInv(S)'
<1>1. /\ process = "running" /\ current = t /\ t \notin Range(waiting)
  BY RunnerNotBlocked DEF WaitResumes
<1>2. /\ at' = [at EXCEPT ![t] = "code"] /\ exited' = [exited EXCEPT ![t] = NULL]
      /\ UNCHANGED <<sched, waiting, status, current, yields>>
      /\ told' \subseteq Thread
  BY DEF WaitResumes, LInv, Types
<1>3. /\ lib' \in Seq(Thread) /\ IsInjective(lib') /\ Range(lib') \subseteq Range(lib)
      /\ freed' \subseteq Thread
      /\ process' = process \/ process' = "undefined"
  <2>1. CASE exited[t] = NULL
    BY <2>1 DEF WaitResumes, LInv, Types, Listed
  <2>2. CASE exited[t] # NULL
    BY <2>2, ReapEffects DEF WaitResumes, LInv, Types
  <2> QED BY <2>1, <2>2
<1>4. Ready' = Ready
  BY <1>2 DEF Ready
<1>5. Types(S)' /\ Listed'
  BY <1>2, <1>3 DEF LInv, Types, Listed
<1>6. NoThreadLost'
  BY <1>1, <1>2, <1>3, <1>4 DEF LInv, NoThreadLost
<1>7. Blocked' /\ Given'
  BY <1>1, <1>2, SeqRange DEF LInv, Types, Blocked, Given
<1> QED BY <1>1, <1>2, <1>3, <1>4, <1>5, <1>6, <1>7 DEF LInv, Fresh, CurrentReady

LEMMA LStep ==
    ASSUME LwpAssumption, NEW S, KeepsPromise(S), LInv(S), [Next]_vars
    PROVE  LInv(S)'
<1>1. CASE UNCHANGED vars
  <2>1. Ready' = Ready
    BY <1>1 DEF Ready, vars
  <2> QED BY <1>1, <2>1
       DEF vars, threadVars, LInv, Types, NoThreadLost, Blocked, Fresh, CurrentReady, Listed, Given
<1>2. CASE MainReturns
  <2>1. Ready' = Ready /\ process' = "returned" /\ UNCHANGED <<sched, threadVars, current>>
    BY <1>2 DEF Ready, MainReturns
  <2> QED BY <2>1
       DEF threadVars, LInv, Types, NoThreadLost, Blocked, Fresh, CurrentReady, Listed, Given
<1>3. CASE Ended
  BY <1>1, <1>3 DEF Ended
<1> QED BY <1>1, <1>2, <1>3, CreateKeeps, StartKeeps, YieldKeeps, ExitKeeps, ReapsKeeps,
           NoneKeeps, BlocksKeeps, ResumesKeeps DEF Next, ThreadStep

LEMMA LInvariant == ASSUME NEW S, KeepsPromise(S) PROVE Spec => []LInv(S)
<1>1. Init => LInv(S)
  BY LwpAssumption, LInit
<1>2. LInv(S) /\ [Next]_vars => LInv(S)'
  BY LwpAssumption, LStep
<1> QED BY <1>1, <1>2, PTL DEF Spec

\* Whatever threads call, in any order: on a scheduler that keeps its promise
\* a live thread is ready or blocked in lwp_wait, and no other thread is
\* (lwp_create, lwp_yield, lwp_wait and lwp_exit of lwp.c).
THEOREM NothingLost == ASSUME NEW S, KeepsPromise(S) PROVE Spec => []NoThreadLost
<1>1. LInv(S) => NoThreadLost
  BY DEF LInv
<1> QED BY <1>1, LInvariant, PTL

-----------------------------------------------------------------------------
(* One thread that waits: nothing is freed twice.  (With two, the one that *)
(* is handed to a sleeping waiter is also found on the library's list by   *)
(* the other.)                                                             *)

Waiter(t) == t \in MayWait \/ (t = Main /\ MainWaits)

OneWaiter == \A t, u \in Thread : Waiter(t) /\ Waiter(u) => t = u

\* What a waiter has been given is terminated and still there, what has been
\* freed has ended and is on no list.
CInv ==
    /\ \A t \in Thread : at[t] = "wait" => Waiter(t)
    /\ \A t \in Thread : exited[t] # NULL =>
           status[exited[t]] = "term" /\ exited[t] \notin freed
    /\ FreedOnce
    /\ Range(lib) \cap freed = {}

\* A thread that has ended is neither ready nor current.
LEMMA EndedThread ==
    ASSUME NEW S, KeepsPromise(S), LInv(S), process = "running",
           NEW t \in Thread, status[t] = "term"
    PROVE  t \notin Ready /\ t # current
BY DEF LInv, Types, NoThreadLost, CurrentReady

LEMMA CInit == ASSUME LwpAssumption, Init PROVE CInv
<1>1. Range(<<>>) = {}
  BY EmptySeq DEF Range
<1> QED BY <1>1 DEF Init, CInv, FreedOnce

LEMMA CreateClaims ==
    ASSUME LwpAssumption, NEW S, KeepsPromise(S), LInv(S), CInv, NEW new \in Thread, lwp_create(new)
    PROVE  CInv'
<1>1. /\ new \notin Ready \cup Range(waiting) /\ process' = process /\ process \in {"setup", "running"}
      /\ sched' \in S /\ Ready' = Ready \cup {new}
  <2>1. new \notin Ready \cup Range(waiting) /\ process \in {"setup", "running"} /\ process' = process
    BY DEF LInv, NoThreadLost, lwp_create, Runs
  <2>2. sched' \in S /\ Ready' = Ready \cup {new}
    BY <2>1 DEF KeepsPromise, lwp_create, LInv, Types, Ready, ReadyIn
  <2> QED BY <2>1, <2>2
<1>2. /\ status[new] = "none" /\ status' = [status EXCEPT ![new] = "live"]
      /\ UNCHANGED <<exited, freed, current, at>>
      /\ Range(lib') = Range(lib) \cup {new}
  BY AppendRange DEF lwp_create, LInv, Types
<1>3. new \notin freed
  BY <1>2 DEF CInv, FreedOnce
<1>4. FreedOnce'
  BY <1>1, <1>2, <1>3 DEF CInv, FreedOnce, LInv, Types
<1> QED BY <1>2, <1>3, <1>4 DEF CInv, LInv, Types

LEMMA StartClaims ==
    ASSUME LwpAssumption, NEW S, KeepsPromise(S), LInv(S), CInv, lwp_start
    PROVE  CInv'
<1>1. /\ freed' = {} /\ process' = "running"
      /\ \A t \in Thread : at'[t] = "code" /\ exited'[t] = NULL
  BY DEF lwp_start, LInv, Fresh
<1> QED BY <1>1 DEF CInv, FreedOnce

LEMMA YieldClaims ==
    ASSUME LwpAssumption, NEW S, KeepsPromise(S), LInv(S), CInv, NEW t \in Thread, lwp_yield(t)
    PROVE  CInv'
<1>1. process = "running" /\ sched \in S /\ ReadyIn(sched) = Ready /\ Ready # {}
  BY DEF lwp_yield, Acts, Runs, LInv, Types, CurrentReady, Ready, ReadyIn
<1>2. process' = process /\ current' \in Ready /\ Ready' = Ready
  BY <1>1, YieldEffects DEF lwp_yield, Ready, ReadyIn
<1>3. UNCHANGED <<lib, status, exited, freed, at>>
  BY DEF lwp_yield
<1> QED BY <1>2, <1>3 DEF CInv, FreedOnce

LEMMA ExitClaims ==
    ASSUME LwpAssumption, NEW S, KeepsPromise(S), LInv(S), LInv(S)', CInv, NEW t \in Thread, lwp_exit(t)
    PROVE  CInv'
<1>1. /\ process = "running" /\ current = t /\ t \in Ready /\ status[t] = "live"
  BY RunnerNotBlocked DEF lwp_exit, Acts, Runs
<1>2. /\ status' = [status EXCEPT ![t] = "term"]
      /\ UNCHANGED <<lib, freed, at>>
  BY DEF lwp_exit
<1>3. t \notin freed /\ \A u \in freed : u \in Thread /\ status'[u] = "term"
  BY <1>1, <1>2 DEF CInv, FreedOnce, LInv, Types
<1>4. \A u \in Thread : exited'[u] # NULL => exited'[u] = exited[u] \/ exited'[u] = t
  <2>1. exited' = exited \/ exited' = [exited EXCEPT ![Head(waiting)] = t]
    BY DEF lwp_exit
  <2> QED BY <2>1 DEF LInv, Types
<1>5. \A u \in Thread : exited'[u] # NULL =>
          status'[exited'[u]] = "term" /\ exited'[u] \notin freed'
  BY <1>2, <1>3, <1>4 DEF CInv, LInv, Types
<1>6. process' = "running" \/ (process' = "shutdown" /\ sched' = NoSched /\ current' = t)
  <2>1. YieldWith(RemoveFrom(sched, t)) \/ YieldWith(Admit(RemoveFrom(sched, t), Head(waiting)))
    BY DEF lwp_exit
  <2> QED BY <1>1, <2>1 DEF YieldWith
<1>7. FreedOnce'
  <2>1. CASE process' = "running"
    BY <1>2, <1>3, <2>1 DEF LInv, Types, NoThreadLost, CurrentReady, FreedOnce
  <2>2. CASE process' = "shutdown" /\ sched' = NoSched /\ current' = t
    <3>1. Ready' = {}
      BY <2>2 DEF Ready, KeepsPromise, ReadyIn
    <3> QED BY <1>2, <1>3, <2>2, <3>1 DEF FreedOnce
  <2> QED BY <1>6, <2>1, <2>2
<1> QED BY <1>2, <1>5, <1>7 DEF CInv

LEMMA ReapsClaims ==
    ASSUME LwpAssumption, OneWaiter, NEW S, KeepsPromise(S), LInv(S), LInv(S)', CInv,
           NEW t \in Thread, WaitReaps(t)
    PROVE  CInv'
<1>1. PICK i \in Finished : Reap(lib[i])
  BY DEF WaitReaps
<1> DEFINE v == lib[i]
<1>2. v \in Thread /\ v \in Range(lib) /\ status[v] = "term" /\ v \notin freed
  BY FoundThread DEF CInv
<1> HIDE DEF v
<1>3. process' = process /\ freed' = freed \cup {v} /\ Range(lib') = Range(lib) \ {v}
  BY <1>1, <1>2, ReapEffects DEF v
<1>4. /\ process = "running" /\ at[t] = "code" /\ Waiter(t)
      /\ UNCHANGED <<sched, status, exited, current, at>>
  BY DEF WaitReaps, Waits, Runs, Waiter
<1>5. \A u \in Thread : exited[u] = NULL
  BY <1>4 DEF OneWaiter, CInv, LInv, Given
<1>6. v \notin Ready /\ v # current
  BY <1>2, <1>4, EndedThread
<1>7. Ready' = Ready
  BY <1>4 DEF Ready
<1> QED BY <1>2, <1>3, <1>4, <1>5, <1>6, <1>7 DEF CInv, FreedOnce

LEMMA BlocksClaims ==
    ASSUME LwpAssumption, NEW S, KeepsPromise(S), LInv(S), LInv(S)', CInv,
           NEW t \in Thread, WaitBlocks(t)
    PROVE  CInv'
<1>1. /\ Waiter(t) /\ at' = [at EXCEPT ![t] = "wait"]
      /\ UNCHANGED <<lib, status, exited, freed>>
  BY DEF WaitBlocks, Waits, Waiter
<1>2. process' = "running"
  BY BlocksKeeps
<1>3. FreedOnce'
  BY <1>1, <1>2 DEF LInv, Types, NoThreadLost, CurrentReady, CInv, FreedOnce
<1> QED BY <1>1, <1>3 DEF CInv, LInv, Types

LEMMA ResumesClaims ==
    ASSUME LwpAssumption, OneWaiter, NEW S, KeepsPromise(S), LInv(S), LInv(S)', CInv,
           NEW t \in Thread, WaitResumes(t)
    PROVE  CInv'
<1>1. /\ process = "running" /\ at[t] = "wait"
      /\ at' = [at EXCEPT ![t] = "code"] /\ exited' = [exited EXCEPT ![t] = NULL]
      /\ UNCHANGED <<sched, status, current>>
  BY DEF WaitResumes
<1>2. Ready' = Ready
  BY <1>1 DEF Ready
<1>3. \A u \in Thread : exited'[u] = NULL
  BY <1>1 DEF OneWaiter, CInv, LInv, Types, Given
<1>4. CASE exited[t] = NULL
  <2>1. UNCHANGED <<lib, freed, process>>
    BY <1>4 DEF WaitResumes
  <2> QED BY <1>1, <1>2, <1>3, <2>1 DEF CInv, FreedOnce, LInv, Types
<1>5. CASE exited[t] # NULL
  <2> DEFINE v == exited[t]
  <2>1. v \in Thread /\ status[v] = "term" /\ v \notin freed /\ Reap(v)
    BY <1>5 DEF CInv, LInv, Types, WaitResumes
  <2> HIDE DEF v
  <2>2. process' = process /\ freed' = freed \cup {v} /\ Range(lib') = Range(lib) \ {v}
    BY <2>1, ReapEffects
  <2>3. v \notin Ready /\ v # current
    BY <1>1, <2>1, EndedThread
  <2>4. FreedOnce'
    BY <1>1, <1>2, <2>1, <2>2, <2>3 DEF CInv, FreedOnce
  <2> QED BY <1>1, <1>3, <2>2, <2>4 DEF CInv, LInv, Types
<1> QED BY <1>4, <1>5

LEMMA CStep ==
    ASSUME LwpAssumption, OneWaiter, NEW S, KeepsPromise(S), LInv(S), LInv(S)', CInv, [Next]_vars
    PROVE  CInv'
<1>1. ASSUME UNCHANGED <<sched, lib, status, exited, freed, current, at>>,
             process' = process \/ process' = "returned"
      PROVE  CInv'
  <2>1. Ready' = Ready
    BY <1>1 DEF Ready
  <2> QED BY <1>1, <2>1 DEF CInv, FreedOnce
<1>2. CASE UNCHANGED vars \/ Ended \/ MainReturns \/ \E t \in Thread : WaitHasNone(t)
  BY <1>1, <1>2 DEF vars, threadVars, Ended, MainReturns, WaitHasNone
<1> QED BY <1>2, CreateClaims, StartClaims, YieldClaims, ExitClaims, ReapsClaims,
           BlocksClaims, ResumesClaims DEF Next, ThreadStep

LEMMA CInvariant ==
    ASSUME NEW S, KeepsPromise(S), OneWaiter PROVE Spec => [](LInv(S) /\ CInv)
<1>1. Init => LInv(S) /\ CInv
  BY LwpAssumption, LInit, CInit
<1>2. LInv(S) /\ CInv /\ [Next]_vars => (LInv(S) /\ CInv)'
  BY LwpAssumption, LStep, CStep
<1> QED BY <1>1, <1>2, PTL DEF Spec

\* With one thread that waits, no thread is freed twice, while it is ready or
\* while it is the current one.
THEOREM NoDoubleFree == ASSUME NEW S, KeepsPromise(S), OneWaiter PROVE Spec => []FreedOnce
<1>1. CInv => FreedOnce
  BY DEF CInv
<1> QED BY <1>1, CInvariant, PTL

-----------------------------------------------------------------------------
(* Main alone waits: when it is told that nobody is left, nobody is.       *)

MainCollects == MainWaits /\ MayWait \subseteq {Main} /\ Main \notin MayCreate

Over == \A t \in Thread : status[t] # "none" /\ t # Main => t \in freed

\* A thread that was created is listed or freed; one in lwp_wait is in line or
\* has been given a thread; and NO_THREAD, the end of main and the end of the
\* process all come after the end of the others.
AInv ==
    /\ \A t \in Thread : status[t] # "none" /\ t # Main => t \in Range(lib) \cup freed
    /\ \A t \in Thread : at[t] = "wait" => t \in Range(waiting) \/ exited[t] # NULL
    /\ Main \in told => Over
    /\ process = "running" => status[Main] = "live" \/ Over
    /\ process \in {"returned", "shutdown"} => Over

LEMMA OnlyMainWaits ==
    ASSUME MainCollects PROVE OneWaiter /\ \A t : Waiter(t) => t = Main
BY DEF MainCollects, OneWaiter, Waiter

LEMMA AInit == ASSUME LwpAssumption, Init PROVE AInv
BY DEF Init, AInv, Over

LEMMA CreateCollects ==
    ASSUME LwpAssumption, MainCollects, NEW S, KeepsPromise(S), LInv(S), CInv, AInv,
           NEW new \in Thread, lwp_create(new)
    PROVE  AInv'
<1>1. /\ status' = [status EXCEPT ![new] = "live"] /\ new # Main
      /\ UNCHANGED <<waiting, exited, freed, at, told, process>>
      /\ Range(lib') = Range(lib) \cup {new}
  BY AppendRange DEF lwp_create, LInv, Types
<1>2. process = "setup" \/ (process = "running" /\ ~Over)
  <2>1. ASSUME NEW t \in MayCreate, Runs(t) PROVE process = "running" /\ ~Over
    <3>1. process = "running" /\ t \in Thread /\ t # Main /\ status[t] = "live"
      BY <2>1, RunnerNotBlocked DEF Runs, MainCollects, LwpAssumption
    <3> QED BY <3>1 DEF Over, CInv, FreedOnce
  <2> QED BY <2>1 DEF lwp_create
<1>3. Main \notin told
  BY <1>2 DEF AInv, LInv, Fresh
<1> QED BY <1>1, <1>2, <1>3 DEF AInv, LInv, Types, LwpAssumption

LEMMA StartCollects ==
    ASSUME LwpAssumption, NEW S, KeepsPromise(S), LInv(S), AInv, lwp_start
    PROVE  AInv'
<1>1. /\ status' = [status EXCEPT ![Main] = "live"] /\ process' = "running"
      /\ UNCHANGED <<lib, waiting, exited, freed, at, told>>
      /\ told = {}
  BY DEF lwp_start, LInv, Fresh
<1> QED BY <1>1 DEF AInv, LInv, Types, LwpAssumption

LEMMA YieldCollects ==
    ASSUME LwpAssumption, NEW S, KeepsPromise(S), LInv(S), AInv, NEW t \in Thread, lwp_yield(t)
    PROVE  AInv'
<1>1. process = "running" /\ sched \in S /\ ReadyIn(sched) # {}
  BY DEF lwp_yield, Acts, Runs, LInv, Types, CurrentReady, Ready, ReadyIn
<1>2. process' = process /\ UNCHANGED <<lib, waiting, status, exited, freed, at, told>>
  BY <1>1, YieldEffects DEF lwp_yield
<1> QED BY <1>2 DEF AInv, Over

\* The process ends in lwp_exit when the last ready thread ends and nobody waits.
LEMMA LastExit ==
    ASSUME LwpAssumption, NEW S, KeepsPromise(S), LInv(S), NEW t \in Thread, lwp_exit(t),
           process' # "running"
    PROVE  waiting = <<>> /\ Ready \subseteq {t} /\ process' = "shutdown"
<1> DEFINE s == RemoveFrom(sched, t)
           w == Head(waiting)
<1>1. process = "running" /\ t \in Ready /\ Ready \subseteq Thread
  BY RunnerNotBlocked, ReadyThreads DEF lwp_exit, Acts, Runs, LInv
<1>2. s \in S /\ ReadyIn(s) = Ready \ {t}
  BY <1>1 DEF KeepsPromise, LInv, Types, Ready, ReadyIn
<1>3. CASE waiting = <<>>
  <2>1. YieldWith(s)
    BY <1>3 DEF lwp_exit
  <2> HIDE DEF s
  <2> QED BY <1>1, <1>2, <1>3, <2>1, YieldEffects
<1>4. CASE waiting # <<>>
  <2>1. YieldWith(Admit(s, w))
    BY <1>4 DEF lwp_exit
  <2>2. w \in Thread /\ w \in Range(waiting)
    BY <1>4, TailRange DEF LInv, Types
  <2>3. w \in Thread \ ReadyIn(s)
    BY <1>1, <1>2, <2>2 DEF LInv, Types, NoThreadLost
  <2> HIDE DEF w, s
  <2>4. Admit(s, w) \in S /\ ReadyIn(Admit(s, w)) # {}
    BY <1>2, <2>3 DEF KeepsPromise
  <2> QED BY <1>1, <2>1, <2>4, YieldEffects
<1> QED BY <1>3, <1>4

LEMMA ExitCollects ==
    ASSUME LwpAssumption, MainCollects, NEW S, KeepsPromise(S), LInv(S), CInv, AInv,
           NEW t \in Thread, lwp_exit(t)
    PROVE  AInv'
<1>1. /\ process = "running" /\ t \in Ready /\ status[t] = "live"
  BY RunnerNotBlocked DEF lwp_exit, Acts, Runs
<1>2. /\ status' = [status EXCEPT ![t] = "term"]
      /\ UNCHANGED <<lib, freed, at, told>>
  BY DEF lwp_exit
<1>3. Over => Over'
  BY <1>1, <1>2 DEF Over, LInv, Types
<1>4. t = Main => Over
  BY DEF lwp_exit, Acts, MainCollects, AInv
<1>5. \A u \in Thread : at'[u] = "wait" => u \in Range(waiting') \/ exited'[u] # NULL
  <2>1. CASE waiting = <<>>
    BY <1>2, <2>1 DEF lwp_exit, AInv
  <2>2. CASE waiting # <<>>
    <3>1. /\ Head(waiting) \in Thread
          /\ Range(waiting) = Range(Tail(waiting)) \cup {Head(waiting)}
      BY <2>2, TailRange DEF LInv, Types
    <3>2. waiting' = Tail(waiting) /\ exited' = [exited EXCEPT ![Head(waiting)] = t]
      BY <2>2 DEF lwp_exit
    <3> QED BY <1>2, <3>1, <3>2 DEF AInv, LInv, Types, LwpAssumption
  <2> QED BY <2>1, <2>2
<1>6. status'[Main] = "live" \/ Over'
  BY <1>1, <1>2, <1>3, <1>4 DEF AInv, LInv, Types
<1>7. ASSUME process' # "running" PROVE Over' /\ process' = "shutdown"
  <2>1. waiting = <<>> /\ Ready \subseteq {t} /\ process' = "shutdown"
    BY <1>7, LastExit
  <2>2. Range(waiting) = {}
    BY <2>1, EmptySeq DEF Range
  <2>3. status[Main] = "live" => Main \in Ready
    BY <1>1, <2>2 DEF LInv, NoThreadLost, LwpAssumption
  <2> QED BY <1>1, <1>3, <1>4, <2>1, <2>3 DEF AInv
<1>8. \A u \in Thread : status'[u] # "none" /\ u # Main => u \in Range(lib') \cup freed'
  BY <1>1, <1>2 DEF AInv, LInv, Types
<1>9. Main \in told' => Over'
  BY <1>2, <1>3 DEF AInv
<1>10. process' = "running" => status'[Main] = "live" \/ Over'
  BY <1>6
<1>11. process' \in {"returned", "shutdown"} => Over'
  BY <1>7
<1> QED BY <1>5, <1>8, <1>9, <1>10, <1>11 DEF AInv

LEMMA ReapsCollects ==
    ASSUME LwpAssumption, NEW S, KeepsPromise(S), LInv(S), CInv, AInv, NEW t \in Thread, WaitReaps(t)
    PROVE  AInv'
<1>1. PICK i \in Finished : Reap(lib[i])
  BY DEF WaitReaps
<1> DEFINE v == lib[i]
<1>2. v \in Thread /\ v \in Range(lib) /\ v \notin freed
  BY FoundThread DEF CInv
<1> HIDE DEF v
<1>3. process' = process /\ freed' = freed \cup {v} /\ Range(lib') = Range(lib) \ {v}
  BY <1>1, <1>2, ReapEffects DEF v
<1>4. /\ told' \subseteq told
      /\ UNCHANGED <<waiting, status, exited, at>>
  BY DEF WaitReaps
<1> QED BY <1>3, <1>4 DEF AInv, Over

\* NO_THREAD at once: main alone is ready, nobody waits and nobody is to be
\* collected.
LEMMA NoneCollects ==
    ASSUME LwpAssumption, MainCollects, NEW S, KeepsPromise(S), LInv(S), CInv, AInv,
           NEW t \in Thread, WaitHasNone(t)
    PROVE  AInv'
<1>1. /\ process = "running" /\ current = t /\ t = Main /\ t \in Ready
      /\ Finished = {}
      /\ UNCHANGED <<lib, waiting, status, exited, freed, at, process>>
  BY OnlyMainWaits, RunnerNotBlocked DEF WaitHasNone, Waits, Runs, Waiter
<1>2. \A u \in Ready : u = Main
  BY <1>1 DEF WaitHasNone, KeepsPromise, LInv, Types, Ready, ReadyIn
<1>3. \A u \in Range(waiting) : u = Main
  BY OnlyMainWaits, SeqRange DEF LInv, Types, Blocked, CInv
<1>4. \A u \in Range(lib) : status[u] # "term"
  BY <1>1 DEF Finished, Range
<1>5. \A u \in Thread : status[u] = "live" => u = Main
  BY <1>1, <1>2, <1>3 DEF LInv, NoThreadLost
<1>6. Over
  BY <1>4, <1>5 DEF Over, AInv, LInv, Types
<1> QED BY <1>1, <1>6 DEF AInv, Over

LEMMA BlocksCollects ==
    ASSUME LwpAssumption, NEW S, KeepsPromise(S), LInv(S), AInv, NEW t \in Thread, WaitBlocks(t)
    PROVE  AInv'
<1>1. /\ at' = [at EXCEPT ![t] = "wait"]
      /\ UNCHANGED <<lib, status, exited, freed, told>>
      /\ Range(waiting') = Range(waiting) \cup {t}
  BY AppendRange DEF WaitBlocks, LInv, Types
<1>2. process' = "running" /\ process = "running"
  BY BlocksKeeps DEF WaitBlocks, Waits, Runs
<1> QED BY <1>1, <1>2 DEF AInv, Over, LInv, Types

LEMMA ResumesCollects ==
    ASSUME LwpAssumption, NEW S, KeepsPromise(S), LInv(S), CInv, AInv,
           NEW t \in Thread, WaitResumes(t)
    PROVE  AInv'
<1>1. /\ at' = [at EXCEPT ![t] = "code"] /\ exited' = [exited EXCEPT ![t] = NULL]
      /\ UNCHANGED <<waiting, status>>
      /\ t \notin Range(waiting) /\ at[t] = "wait"
  BY RunnerNotBlocked DEF WaitResumes
<1> DEFINE v == exited[t]
<1>2. v # NULL /\ v \in Thread /\ v \notin freed
  BY <1>1 DEF AInv, CInv, LInv, Types
<1>3. Reap(v) /\ told' \subseteq told
  BY <1>2 DEF WaitResumes
<1> HIDE DEF v
<1>4. process' = process /\ freed' = freed \cup {v} /\ Range(lib') = Range(lib) \ {v}
  BY <1>2, <1>3, ReapEffects
<1> QED BY <1>1, <1>3, <1>4 DEF AInv, Over, LInv, Types

LEMMA AStep ==
    ASSUME LwpAssumption, MainCollects, NEW S, KeepsPromise(S), LInv(S), CInv, AInv, [Next]_vars
    PROVE  AInv'
<1>1. CASE UNCHANGED vars \/ Ended
  BY <1>1 DEF vars, threadVars, Ended, AInv, Over
<1>2. CASE MainReturns
  <2>1. Over /\ UNCHANGED threadVars /\ process' = "returned"
    BY <1>2 DEF MainReturns, Acts, MainCollects, AInv
  <2> QED BY <2>1 DEF threadVars, AInv, Over
<1> QED BY <1>1, <1>2, CreateCollects, StartCollects, YieldCollects, ExitCollects,
           ReapsCollects, NoneCollects, BlocksCollects, ResumesCollects DEF Next, ThreadStep

\* When main alone waits, and creates threads only before lwp_start, the loop
\* of test_lwp.c ends only after every thread has ended and been freed, and so
\* does the process ("Wait for all threads to finish").
THEOREM MainCollectsAll == ASSUME NEW S, KeepsPromise(S), MainCollects PROVE Spec => []AllExited
<1>1. Init => LInv(S) /\ CInv /\ AInv
  BY LwpAssumption, LInit, CInit, AInit
<1>2. LInv(S) /\ CInv /\ AInv /\ [Next]_vars => (LInv(S) /\ CInv /\ AInv)'
  BY LwpAssumption, OnlyMainWaits, LStep, CStep, AStep
<1>3. AInv => AllExited
  BY DEF AInv, AllExited, Over, Created
<1> QED BY <1>1, <1>2, <1>3, PTL DEF Spec

\* On the queue that the run lwp_fifo_main uses, all three hold for any number
\* of threads (lwp.c with a scheduler that does what lwp.h says).
THEOREM OnAQueue ==
    ASSUME IsFifo, MainCollects
    PROVE  Spec => [](NoThreadLost /\ FreedOnce /\ AllExited)
<1>1. KeepsPromise(Queues)
  BY LwpAssumption, QueueKeepsPromise
<1>2. OneWaiter
  BY OnlyMainWaits
<1>3. Spec => []NoThreadLost
  BY <1>1, NothingLost
<1>4. Spec => []FreedOnce
  BY <1>1, <1>2, NoDoubleFree
<1>5. Spec => []AllExited
  BY <1>1, MainCollectsAll
<1> QED BY <1>3, <1>4, <1>5, PTL

-----------------------------------------------------------------------------
(* Changing the scheduler: module SetScheduler, with any finite number of  *)
(* threads (RoundRobinAssumption).                                         *)

Rings ==
    [head : Thread \cup {NULL}, tail : Thread \cup {NULL},
     one : [Thread -> Thread \cup {NULL}], two : [Thread -> Thread \cup {NULL}]]

\* The ring r has the threads of l, in this order from its head.
Circle(r, l) ==
    /\ r \in Rings /\ l \in Seq(Thread) /\ IsInjective(l)
    /\ r.head = IF l = <<>> THEN NULL ELSE l[1]
    /\ l # <<>> => r.tail \in Range(l)
    /\ \A i \in 1 .. Len(l) :
        /\ r.two[l[i]] = IF i = Len(l) THEN l[1] ELSE l[i + 1]
        /\ r.one[l[i]] = IF i = 1 THEN l[Len(l)] ELSE l[i - 1]

LEMMA CircleFacts ==
    ASSUME NEW r, NEW l, Circle(r, l)
    PROVE  /\ Len(l) \in Nat /\ DOMAIN l = 1 .. Len(l) /\ (l = <<>> <=> Len(l) = 0)
           /\ \A i \in 1 .. Len(l) : l[i] \in Thread /\ l[i] # NULL /\ l[i] \in Range(l)
           /\ \A i, j \in 1 .. Len(l) : l[i] = l[j] => i = j
           /\ \A t \in Range(l) : \E i \in 1 .. Len(l) : t = l[i]
           /\ r.head = NULL <=> l = <<>>
<1>1. l \in Seq(Thread) /\ IsInjective(l) /\ r.head = IF l = <<>> THEN NULL ELSE l[1]
  BY DEF Circle
<1>2. Len(l) \in Nat /\ DOMAIN l = 1 .. Len(l)
  BY <1>1, LenProperties
<1>3. l = <<>> <=> Len(l) = 0
  BY <1>1, EmptySeq
<1>4. \A i \in 1 .. Len(l) : l[i] \in Thread /\ l[i] # NULL /\ l[i] \in Range(l)
  BY <1>1, <1>2, ElementOfSeq, RoundRobinAssumption DEF Range
<1>5. l # <<>> => 1 \in 1 .. Len(l)
  BY <1>2, <1>3
<1> QED BY <1>1, <1>2, <1>3, <1>4, <1>5 DEF Range, IsInjective

\* With a finite number of threads, there is a longest ring.
LEMMA CircleShort ==
    ASSUME IsFiniteSet(Thread), NEW r, NEW l, Circle(r, l)
    PROVE  /\ Cardinality(Thread) \in Nat /\ Len(l) <= Cardinality(Thread)
BY ShortSeq DEF Circle

\* What the walk along the ring meets, once round.
LEMMA WalkFacts ==
    ASSUME IsFiniteSet(Thread), NEW r, NEW l, Circle(r, l), l # <<>>
    PROVE  \A i \in 1 .. Len(l) : Walk(r)[i] = l[i]
<1> DEFINE N == Cardinality(Thread)
           T == Range(l)
           F == [n \in 1 .. N |-> [x \in T |-> r.two[x]]]
           At(f) == f = [i \in 0 .. N |-> IF i = 0 THEN r.head ELSE r.two[f[i - 1]]]
           met == CHOOSE f : At(f)
<1>1. /\ Len(l) \in Nat /\ Len(l) <= N /\ N \in Nat /\ Len(l) # 0
      /\ \A i \in 1 .. Len(l) : l[i] \in T
      /\ \A t \in T : \E i \in 1 .. Len(l) : t = l[i]
  BY CircleFacts, CircleShort
<1>2. /\ r.head = l[1]
      /\ \A i \in 1 .. Len(l) : r.two[l[i]] = IF i = Len(l) THEN l[1] ELSE l[i + 1]
  BY DEF Circle
<1>3. r.head \in T /\ \A x \in T : r.two[x] \in T
  <2>1. 1 \in 1 .. Len(l)
    BY <1>1
  <2>2. ASSUME NEW i \in 1 .. Len(l) PROVE r.two[l[i]] \in T
    <3>1. i # Len(l) => i + 1 \in 1 .. Len(l)
      BY <1>1
    <3> QED BY <1>1, <1>2, <2>1, <3>1
  <2> QED BY <1>1, <1>2, <2>1, <2>2
<1>4. F \in [1 .. N -> [T -> T]]
  BY <1>3
<1>5. \E f : At(f)
  <2>1. PICK f : Iterates(f, N, T, r.head, F)
    <3> HIDE DEF F, N, T
    <3> QED BY <1>1, <1>3, <1>4, Recursion
  <2>2. f \in [0 .. N -> T] /\ f = [n \in 0 .. N |-> IF n = 0 THEN r.head ELSE F[n][f[n - 1]]]
    BY <2>1 DEF Iterates
  <2>3. \A n \in 0 .. N : n # 0 => n \in 1 .. N /\ n - 1 \in 0 .. N
    BY <1>1
  <2>4. ASSUME NEW n \in 0 .. N PROVE f[n] = IF n = 0 THEN r.head ELSE r.two[f[n - 1]]
    <3>1. f[n] = IF n = 0 THEN r.head ELSE F[n][f[n - 1]]
      <4> HIDE DEF F, T, N
      <4> QED BY <2>2
    <3>2. n # 0 => f[n - 1] \in T /\ n \in 1 .. N
      BY <2>2, <2>3
    <3>3. n # 0 => F[n][f[n - 1]] = r.two[f[n - 1]]
      BY <3>2
    <3> QED BY <3>1, <3>3
  <2> HIDE DEF N, T, F
  <2>5. f = [i \in 0 .. N |-> IF i = 0 THEN r.head ELSE r.two[f[i - 1]]]
    <3>1. f = [i \in 0 .. N |-> f[i]]
      BY <2>2
    <3> QED BY <2>4, <3>1
  <2> QED BY <2>5
<1>6. met = [i \in 0 .. N |-> IF i = 0 THEN r.head ELSE r.two[met[i - 1]]]
  <2> HIDE DEF N
  <2>1. At(met)
    <3> HIDE DEF At
    <3> QED BY <1>5
  <2> QED BY <2>1
<1>7. Walk(r) = [i \in 1 .. N |-> met[i - 1]]
  BY DEF Walk
<1> HIDE DEF met, N, T
<1>8. \A i \in 0 .. N : met[i] = IF i = 0 THEN r.head ELSE r.two[met[i - 1]]
  BY <1>6
<1> DEFINE Bad == {i \in 1 .. Len(l) : met[i - 1] # l[i]}
<1>9. Bad = {}
  <2>1. SUFFICES ASSUME Bad # {} PROVE FALSE
    OBVIOUS
  <2>2. Bad \in SUBSET Nat
    OBVIOUS
  <2>3. PICK i \in Bad : \A j \in Bad : i <= j
    <3> HIDE DEF Bad
    <3> QED BY <2>1, <2>2, LeastNat
  <2>4. i \in 1 .. Len(l) /\ met[i - 1] # l[i]
    OBVIOUS
  <2>5. CASE i = 1
    <3>1. met[0] = l[1]
      BY <1>1, <1>2, <1>8
    <3> QED BY <2>4, <2>5, <3>1
  <2>6. CASE i # 1
    <3>1. /\ i - 1 \in 1 .. Len(l) /\ i - 1 \in 0 .. N /\ i - 1 # 0 /\ ~(i <= i - 1)
          /\ (i - 1) + 1 = i /\ i - 1 # Len(l)
      BY <1>1, <2>4, <2>6
    <3>2. met[(i - 1) - 1] = l[i - 1]
      BY <2>3, <3>1
    <3>3. met[i - 1] = r.two[met[(i - 1) - 1]]
      BY <1>8, <3>1
    <3>4. r.two[l[i - 1]] = l[i]
      BY <1>2, <3>1
    <3> QED BY <2>4, <3>2, <3>3, <3>4
  <2> QED BY <2>5, <2>6
<1> QED
  <2>1. \A i \in 1 .. Len(l) : met[i - 1] = l[i]
    BY <1>9
  <2>2. \A i \in 1 .. Len(l) : i \in 1 .. N
    BY <1>1
  <2> QED BY <1>7, <2>1, <2>2

LEMMA TurnsFacts ==
    ASSUME IsFiniteSet(Thread), NEW r, NEW l, Circle(r, l)
    PROVE  rr_qlen(r) = Len(l) /\ rr_turns(r) = l
<1> DEFINE N == Cardinality(Thread)
           Fit(n) == Stops(r, n) /\ \A m \in 1 .. n - 1 : ~Stops(r, m)
<1>1. /\ Len(l) \in Nat /\ Len(l) <= N /\ N \in Nat /\ (l = <<>> <=> Len(l) = 0)
      /\ \A i, j \in 1 .. Len(l) : l[i] = l[j] => i = j
      /\ r.head = NULL <=> l = <<>>
      /\ DOMAIN l = 1 .. Len(l)
  BY CircleFacts, CircleShort
<1>6. Len(l) \in Nat
  BY <1>1
<1>2. rr_qlen(r) = Len(l)
  <2>1. CASE l = <<>>
    BY <1>1, <2>1 DEF rr_qlen
  <2>2. CASE l # <<>>
    <3>1. \A i \in 1 .. Len(l) : Walk(r)[i] = l[i]
      BY <2>2, WalkFacts
    <3>2. ASSUME NEW i \in 1 .. Len(l) PROVE Stops(r, i) <=> i = Len(l)
      <4>1. r.two[Walk(r)[i]] = IF i = Len(l) THEN l[1] ELSE l[i + 1]
        BY <3>1 DEF Circle
      <4>2. r.head = l[1]
        BY <2>2 DEF Circle
      <4>3. i # Len(l) => i + 1 \in 1 .. Len(l) /\ 1 \in 1 .. Len(l) /\ i + 1 # 1
        BY <1>6
      <4>4. i # Len(l) => l[i + 1] # l[1]
        BY <1>1, <4>3
      <4> QED BY <4>1, <4>2, <4>4 DEF Stops
    <3>3. Len(l) \in 1 .. Len(l) /\ Len(l) \in 1 .. N
      BY <1>1, <2>2
    <3>4. Fit(Len(l))
      <4>1. \A m \in 1 .. Len(l) - 1 : m \in 1 .. Len(l) /\ m # Len(l)
        BY <1>6
      <4> QED BY <3>2, <3>3, <4>1
    <3>5. ASSUME NEW n \in 1 .. N, Fit(n) PROVE n = Len(l)
      <4>1. CASE n <= Len(l)
        <5>1. n \in 1 .. Len(l)
          BY <1>6, <4>1
        <5> QED BY <3>2, <3>5, <5>1
      <4>2. CASE ~(n <= Len(l))
        <5>1. Len(l) \in 1 .. n - 1
          BY <1>1, <3>3, <4>2
        <5> QED BY <3>2, <3>3, <3>5, <5>1
      <4> QED BY <4>1, <4>2
    <3>6. rr_qlen(r) = CHOOSE n \in 1 .. N : Fit(n)
      BY <1>1, <2>2, CircleShort DEF rr_qlen
    <3> HIDE DEF Fit, N
    <3> QED BY <3>3, <3>4, <3>5, <3>6
  <2> QED BY <2>1, <2>2
<1>3. rr_turns(r) = [i \in 1 .. Len(l) |-> Walk(r)[i]]
  BY <1>2 DEF rr_turns
<1>4. \A i \in 1 .. Len(l) : Walk(r)[i] = l[i]
  <2>1. CASE l = <<>>
    BY <1>1, <2>1
  <2>2. CASE l # <<>>
    BY <2>2, WalkFacts
  <2> QED BY <2>1, <2>2
<1>5. l = [i \in 1 .. Len(l) |-> l[i]]
  BY <1>1 DEF Circle
<1> QED BY <1>2, <1>3, <1>4, <1>5

\* A turn.
LEMMA AdvanceFacts ==
    ASSUME NEW r, NEW l, Circle(r, l), l # <<>>,
           NEW m, m = Append(Tail(l), Head(l)), NEW s, s = rr_advance(r)
    PROVE  /\ Circle(s, m) /\ Len(m) = Len(l) /\ m[Len(m)] = l[1]
           /\ \A i \in 1 .. Len(l) - 1 : m[i] = l[i + 1]
           /\ s.tail = r.tail
<1>1. /\ l \in Seq(Thread) /\ Len(l) \in Nat /\ Len(l) # 0 /\ DOMAIN l = 1 .. Len(l)
      /\ \A i \in 1 .. Len(l) : l[i] \in Thread /\ l[i] \in Range(l)
      /\ \A i, j \in 1 .. Len(l) : l[i] = l[j] => i = j
      /\ r \in Rings /\ r.tail \in Range(l) /\ r.head = l[1] /\ r.head # NULL
      /\ \A i \in 1 .. Len(l) :
            /\ r.two[l[i]] = IF i = Len(l) THEN l[1] ELSE l[i + 1]
            /\ r.one[l[i]] = IF i = 1 THEN l[Len(l)] ELSE l[i - 1]
  <2>1. /\ r \in Rings /\ r.tail \in Range(l) /\ r.head = l[1]
        /\ \A i \in 1 .. Len(l) :
              /\ r.two[l[i]] = IF i = Len(l) THEN l[1] ELSE l[i + 1]
              /\ r.one[l[i]] = IF i = 1 THEN l[Len(l)] ELSE l[i - 1]
    BY DEF Circle
  <2>2. l \in Seq(Thread)
    BY DEF Circle
  <2>3. /\ Len(l) \in Nat /\ Len(l) # 0 /\ DOMAIN l = 1 .. Len(l)
        /\ \A i \in 1 .. Len(l) : l[i] \in Thread /\ l[i] \in Range(l)
        /\ \A i, j \in 1 .. Len(l) : l[i] = l[j] => i = j
        /\ r.head # NULL
    BY CircleFacts
  <2> QED BY <2>1, <2>2, <2>3
<1> DEFINE n == Len(l)
<1>2. n \in Nat /\ n # 0 /\ 1 \in 1 .. n /\ n \in 1 .. n
  <2>1. n \in Nat /\ n # 0
    BY <1>1
  <2> HIDE DEF n
  <2> QED BY <2>1
<1>3. /\ m \in Seq(Thread) /\ Len(m) = n /\ m[n] = l[1] /\ DOMAIN m = 1 .. n
      /\ \A i \in 1 .. n - 1 : m[i] = l[i + 1]
  <2>1. /\ Tail(l) \in Seq(Thread) /\ Len(Tail(l)) = n - 1 /\ Head(l) = l[1]
        /\ \A i \in 1 .. n - 1 : Tail(l)[i] = l[i + 1]
    <3>1. l \in Seq(Thread) /\ l # <<>>
      BY <1>1
    <3> QED BY <3>1, HeadTailProperties
  <2> DEFINE a == Tail(l)
             e == Head(l)
  <2>2. /\ a \in Seq(Thread) /\ Len(a) = n - 1 /\ e = l[1] /\ e \in Thread
        /\ \A i \in 1 .. n - 1 : a[i] = l[i + 1]
    <3>1. l[1] \in Thread
      BY <1>1, <1>2
    <3> QED BY <2>1, <3>1
  <2> HIDE DEF a, e
  <2>3. m = Append(a, e)
    BY DEF a, e
  <2>4. m \in Seq(Thread) /\ Len(m) = Len(a) + 1 /\ m[Len(a) + 1] = e
        /\ \A i \in 1 .. Len(a) : m[i] = a[i]
    <3>1. a \in Seq(Thread) /\ e \in Thread
      BY <2>2
    <3>2. /\ Append(a, e) \in Seq(Thread) /\ Len(Append(a, e)) = Len(a) + 1
          /\ \A i \in 1 .. Len(a) : Append(a, e)[i] = a[i]
          /\ Append(a, e)[Len(a) + 1] = e
      BY <3>1, AppendFacts
    <3> QED BY <2>3, <3>2
  <2> HIDE DEF n
  <2>5. Len(a) + 1 = n
    BY <1>2, <2>2
  <2> QED BY <2>2, <2>4, <2>5, LenProperties
<1>4. s = [r EXCEPT !.head = r.two[r.head]]
  BY <1>1 DEF rr_advance
<1>5. /\ s \in Rings /\ s.tail = r.tail /\ s.one = r.one /\ s.two = r.two
      /\ s.head = r.two[l[1]]
  <2>1. r.two[r.head] \in Thread \cup {NULL}
    BY <1>1, <1>2 DEF Rings
  <2> QED BY <1>1, <1>4, <2>1 DEF Rings
<1> HIDE DEF n
<1>6. \A i \in 1 .. n : i # n => i \in 1 .. n - 1 /\ i + 1 \in 1 .. n /\ i + 1 # 1 /\ (i + 1) - 1 = i
  BY <1>2
<1>7. IsInjective(m)
  <2>1. ASSUME NEW i \in 1 .. n, NEW j \in 1 .. n, m[i] = m[j] PROVE i = j
    <3>1. CASE i = n /\ j # n
      <4>1. l[1] = l[j + 1]
        BY <1>3, <1>6, <2>1, <3>1
      <4> QED BY <1>1, <1>2, <1>6, <3>1, <4>1 DEF n
    <3>2. CASE i # n /\ j = n
      <4>1. l[1] = l[i + 1]
        BY <1>3, <1>6, <2>1, <3>2
      <4> QED BY <1>1, <1>2, <1>6, <3>2, <4>1 DEF n
    <3>3. CASE i # n /\ j # n
      <4>1. l[i + 1] = l[j + 1]
        BY <1>3, <1>6, <2>1, <3>3
      <4>2. i + 1 = j + 1
        BY <1>1, <1>6, <3>3, <4>1 DEF n
      <4> QED BY <4>2, <2>1
    <3> QED BY <3>1, <3>2, <3>3
  <2> QED BY <1>3, <2>1 DEF IsInjective
<1>8. Range(m) = Range(l)
  <2>1. \A x : x \in Range(l) <=> \E i \in 1 .. n : l[i] = x
    <3>1. DOMAIN l = 1 .. n
      BY <1>1 DEF n
    <3> QED BY <3>1 DEF Range
  <2>2. \A x : x \in Range(m) <=> \E i \in 1 .. n : m[i] = x
    BY <1>3 DEF Range
  <2>3. ASSUME NEW i \in 1 .. n PROVE m[i] \in Range(l)
    BY <1>2, <1>3, <1>6, <2>1
  <2>4. ASSUME NEW i \in 1 .. n PROVE l[i] \in Range(m)
    <3>1. CASE i = 1
      BY <1>2, <1>3, <2>2, <3>1
    <3>2. CASE i # 1
      <4>1. i - 1 \in 1 .. n - 1 /\ i - 1 \in 1 .. n /\ (i - 1) + 1 = i
        BY <1>2, <3>2
      <4>2. m[i - 1] = l[i]
        BY <1>3, <4>1
      <4> QED BY <2>2, <4>1, <4>2
    <3> QED BY <3>1, <3>2
  <2> QED BY <2>1, <2>2, <2>3, <2>4
<1>9. s.head = m[1]
  <2>1. CASE n = 1
    BY <1>1, <1>2, <1>3, <1>5, <2>1 DEF n
  <2>2. CASE n # 1
    <3>1. 1 \in 1 .. n - 1
      BY <1>2, <2>2
    <3>2. m[1] = l[1 + 1]
      BY <1>3, <3>1
    <3> QED BY <1>1, <1>2, <1>5, <2>2, <3>2 DEF n
  <2> QED BY <2>1, <2>2
<1>10. ASSUME NEW i \in 1 .. n
       PROVE  /\ s.two[m[i]] = IF i = n THEN m[1] ELSE m[i + 1]
              /\ s.one[m[i]] = IF i = 1 THEN m[n] ELSE m[i - 1]
  <2>0. \A j \in 1 .. n :
            /\ s.two[l[j]] = IF j = n THEN l[1] ELSE l[j + 1]
            /\ s.one[l[j]] = IF j = 1 THEN l[n] ELSE l[j - 1]
    BY <1>1, <1>5 DEF n
  <2>1. CASE i = n
    <3>1. m[i] = l[1] /\ s.two[m[i]] = m[1]
      BY <1>3, <1>5, <1>9, <2>1
    <3>2. s.one[m[i]] = l[n]
      BY <1>2, <2>0, <3>1
    <3>3. l[n] = IF i = 1 THEN m[n] ELSE m[i - 1]
      <4>1. CASE n = 1
        BY <1>3, <2>1, <4>1
      <4>2. CASE n # 1
        <5>1. n - 1 \in 1 .. n - 1 /\ (n - 1) + 1 = n
          BY <1>2, <4>2
        <5> QED BY <1>3, <2>1, <4>2, <5>1
      <4> QED BY <4>1, <4>2
    <3> QED BY <2>1, <3>1, <3>2, <3>3
  <2>2. CASE i # n
    <3>1. m[i] = l[i + 1] /\ i + 1 \in 1 .. n /\ i + 1 # 1 /\ (i + 1) - 1 = i
      BY <1>3, <1>6, <2>2
    <3>2. s.one[m[i]] = l[i]
      BY <2>0, <3>1
    <3>3. l[i] = IF i = 1 THEN m[n] ELSE m[i - 1]
      <4>1. CASE i = 1
        BY <1>3, <4>1
      <4>2. CASE i # 1
        <5>1. i - 1 \in 1 .. n - 1 /\ (i - 1) + 1 = i
          BY <1>2, <2>2, <4>2
        <5> QED BY <1>3, <4>2, <5>1
      <4> QED BY <4>1, <4>2
    <3>4. s.two[m[i]] = IF i + 1 = n THEN l[1] ELSE l[(i + 1) + 1]
      BY <2>0, <3>1
    <3>5. m[i + 1] = IF i + 1 = n THEN l[1] ELSE l[(i + 1) + 1]
      <4>1. CASE i + 1 = n
        BY <1>3, <4>1
      <4>2. CASE i + 1 # n
        BY <1>3, <1>6, <3>1, <4>2
      <4> QED BY <4>1, <4>2
    <3> QED BY <2>2, <3>2, <3>3, <3>4, <3>5
  <2> QED BY <2>1, <2>2
<1>11. m # <<>>
  BY <1>2, <1>3, EmptySeq
<1>12. Len(m) = n /\ n = Len(l)
  BY <1>3 DEF n
<1>13. Circle(s, m)
  <2>1. /\ s \in Rings /\ m \in Seq(Thread) /\ IsInjective(m) /\ m # <<>>
        /\ s.head = m[1] /\ s.tail \in Range(m)
    BY <1>1, <1>3, <1>5, <1>7, <1>8, <1>9, <1>11
  <2>2. \A i \in 1 .. Len(m) :
            /\ s.two[m[i]] = IF i = Len(m) THEN m[1] ELSE m[i + 1]
            /\ s.one[m[i]] = IF i = 1 THEN m[Len(m)] ELSE m[i - 1]
    <3>1. \A i \in 1 .. n :
              /\ s.two[m[i]] = IF i = n THEN m[1] ELSE m[i + 1]
              /\ s.one[m[i]] = IF i = 1 THEN m[n] ELSE m[i - 1]
      BY <1>10
    <3>2. Len(m) = n
      BY <1>12
    <3> QED BY ONLY <3>1, <3>2
  <2>3. s.head = IF m = <<>> THEN NULL ELSE m[1]
    BY <2>1
  <2> QED BY <2>1, <2>2, <2>3 DEF Circle
<1> QED BY <1>3, <1>5, <1>12, <1>13

\* A ring in which nobody has had a turn since the last was admitted.
\* What rr_admit relies on: from the head of r, the threads of l follow each
\* other and the last one is the tail.  What comes after it does not matter.
Chain(r, l) ==
    /\ r \in Rings /\ l \in Seq(Thread) /\ IsInjective(l)
    /\ r.head = IF l = <<>> THEN NULL ELSE l[1]
    /\ l # <<>> => r.tail = l[Len(l)]
    /\ \A i \in 1 .. Len(l) : i # Len(l) => r.two[l[i]] = l[i + 1]
    /\ \A i \in 1 .. Len(l) : i # 1 => r.one[l[i]] = l[i - 1]

LEMMA ChainFacts ==
    ASSUME NEW r, NEW l, Chain(r, l)
    PROVE  /\ Len(l) \in Nat /\ DOMAIN l = 1 .. Len(l) /\ (l = <<>> <=> Len(l) = 0)
           /\ \A i \in 1 .. Len(l) : l[i] \in Thread /\ l[i] # NULL /\ l[i] \in Range(l)
           /\ \A i, j \in 1 .. Len(l) : l[i] = l[j] => i = j
           /\ r.head = NULL <=> l = <<>>
<1>1. l \in Seq(Thread) /\ IsInjective(l) /\ r.head = IF l = <<>> THEN NULL ELSE l[1]
  BY DEF Chain
<1>2. Len(l) \in Nat /\ DOMAIN l = 1 .. Len(l)
  BY <1>1, LenProperties
<1>3. l = <<>> <=> Len(l) = 0
  BY <1>1, EmptySeq
<1>4. \A i \in 1 .. Len(l) : l[i] \in Thread /\ l[i] # NULL /\ l[i] \in Range(l)
  BY <1>1, <1>2, ElementOfSeq, RoundRobinAssumption DEF Range
<1>5. l # <<>> => 1 \in 1 .. Len(l)
  BY <1>2, <1>3
<1> QED BY <1>1, <1>2, <1>3, <1>4, <1>5 DEF IsInjective

\* The part of a circle from its head to its tail.
LEMMA CircleChain ==
    ASSUME NEW r, NEW l, Circle(r, l), NEW j \in 0 .. Len(l),
           l = <<>> \/ (j # 0 /\ r.tail = l[j]), NEW a, a = FirstOf(l, j)
    PROVE  Chain(r, a)
<1>1. /\ l \in Seq(Thread) /\ IsInjective(l) /\ r \in Rings
      /\ r.head = IF l = <<>> THEN NULL ELSE l[1]
      /\ \A i \in 1 .. Len(l) :
            /\ r.two[l[i]] = IF i = Len(l) THEN l[1] ELSE l[i + 1]
            /\ r.one[l[i]] = IF i = 1 THEN l[Len(l)] ELSE l[i - 1]
  BY DEF Circle
<1>2. Len(l) \in Nat /\ j \in Nat /\ j <= Len(l) /\ (l = <<>> <=> Len(l) = 0)
      /\ \A i, k \in 1 .. Len(l) : l[i] = l[k] => i = k
  BY CircleFacts
<1>3. a \in Seq(Thread) /\ Len(a) = j /\ \A i \in 1 .. j : a[i] = l[i]
  BY <1>1, FirstFacts
<1>4. DOMAIN a = 1 .. j /\ (a = <<>> <=> j = 0)
  BY <1>3, LenProperties, EmptySeq
<1>5. \A i \in 1 .. j : i \in 1 .. Len(l)
  BY <1>2
<1>6. IsInjective(a)
  BY <1>2, <1>3, <1>4, <1>5 DEF IsInjective
<1>7. a = <<>> <=> l = <<>>
  BY <1>2, <1>4
<1>8. a # <<>> => 1 \in 1 .. j /\ j \in 1 .. j
  BY <1>2, <1>4
<1>9. r.head = IF a = <<>> THEN NULL ELSE a[1]
  BY <1>1, <1>3, <1>7, <1>8
<1>10. a # <<>> => r.tail = a[Len(a)]
  BY <1>3, <1>7, <1>8
<1>11. ASSUME NEW i \in 1 .. j, i # j PROVE r.two[a[i]] = a[i + 1]
  <2>1. i + 1 \in 1 .. j /\ i # Len(l)
    BY <1>2, <1>11
  <2> QED BY <1>1, <1>3, <1>5, <2>1
<1>12. ASSUME NEW i \in 1 .. j, i # 1 PROVE r.one[a[i]] = a[i - 1]
  <2>1. i - 1 \in 1 .. j
    BY <1>2, <1>12
  <2> QED BY <1>1, <1>3, <1>5, <1>12, <2>1
<1> QED BY <1>1, <1>3, <1>6, <1>9, <1>10, <1>11, <1>12 DEF Chain

\* A thread is admitted after the tail, and closes the circle.
LEMMA AdmitFacts ==
    ASSUME NEW r, NEW l, Chain(r, l), NEW t \in Thread \ Range(l),
           NEW s, s = rr_admit(r, t), NEW m, m = Append(l, t)
    PROVE  Circle(s, m) /\ s.tail = t /\ (l # <<>> => s.head = r.head)
<1> DEFINE n == Len(l)
<1>1. /\ l \in Seq(Thread) /\ IsInjective(l) /\ r \in Rings
      /\ DOMAIN l = 1 .. n /\ (l = <<>> <=> n = 0)
      /\ \A i \in 1 .. n : l[i] \in Thread /\ l[i] # NULL /\ l[i] \in Range(l)
      /\ \A i, j \in 1 .. n : l[i] = l[j] => i = j
      /\ r.head = NULL <=> l = <<>>
  <2>1. l \in Seq(Thread) /\ IsInjective(l) /\ r \in Rings
    BY DEF Chain
  <2> QED BY <2>1, ChainFacts
<1>2. n \in Nat
  BY ChainFacts
<1>3. r.head = IF l = <<>> THEN NULL ELSE l[1]
  BY DEF Chain
<1>4. ASSUME NEW i \in 1 .. n
      PROVE  /\ i # n => r.two[l[i]] = l[i + 1]
             /\ i # 1 => r.one[l[i]] = l[i - 1]
  BY DEF Chain
<1>5. /\ m \in Seq(Thread) /\ Len(m) = n + 1
      /\ (\A i \in 1 .. n : m[i] = l[i]) /\ m[n + 1] = t
  <2>1. /\ Append(l, t) \in Seq(Thread) /\ Len(Append(l, t)) = n + 1
        /\ \A i \in 1 .. n : Append(l, t)[i] = l[i]
        /\ Append(l, t)[n + 1] = t
    BY <1>1, AppendFacts
  <2> QED BY <2>1
<1>6. IsInjective(m) /\ Range(m) = Range(l) \cup {t}
  <2>1. /\ Range(Append(l, t)) = Range(l) \cup {t}
        /\ IsInjective(Append(l, t))
    BY <1>1, AppendRange
  <2> QED BY <2>1
<1> HIDE DEF n
<1>7. m # <<>>
  BY <1>2, <1>5, EmptySeq
<1>8. CASE l = <<>>
  <2>1. n = 0 /\ r.head = NULL
    BY <1>1, <1>8
  <2>2. /\ s.head = t /\ s.tail = t /\ s.one = [r.one EXCEPT ![t] = t]
        /\ s.two = [r.two EXCEPT ![t] = t] /\ s \in Rings
    BY <1>1, <2>1 DEF rr_admit, Rings
  <2>3. s.one[t] = t /\ s.two[t] = t
    BY <1>1, <2>2 DEF Rings
  <2>4. Len(m) = 1 /\ m[1] = t
    BY <1>5, <2>1
  <2>5. \A i \in 1 .. Len(m) :
            /\ s.two[m[i]] = IF i = Len(m) THEN m[1] ELSE m[i + 1]
            /\ s.one[m[i]] = IF i = 1 THEN m[Len(m)] ELSE m[i - 1]
    BY <2>3, <2>4
  <2>6. Circle(s, m)
    BY <1>5, <1>6, <1>7, <2>2, <2>4, <2>5 DEF Circle
  <2> QED BY <1>8, <2>2, <2>6
<1>9. CASE l # <<>>
  <2>1. n # 0 /\ r.head # NULL /\ r.head = l[1] /\ r.tail = l[n]
    BY <1>1, <1>3, <1>9 DEF n, Chain
  <2>2. 1 \in 1 .. n /\ n \in 1 .. n
    BY <1>2, <2>1
  <2> DEFINE h == l[1]
             e == l[n]
  <2>3. h \in Thread /\ e \in Thread /\ h # t /\ e # t
    BY <1>1, <2>2
  <2> HIDE DEF h, e
  <2>4. /\ s.head = h /\ s.tail = t
        /\ s.one = [r.one EXCEPT ![t] = e, ![h] = t]
        /\ s.two = [r.two EXCEPT ![t] = h, ![e] = t]
    BY <2>1 DEF rr_admit, h, e
  <2>5. /\ s \in Rings /\ s.one[t] = e /\ s.one[h] = t /\ s.two[t] = h /\ s.two[e] = t
        /\ \A x \in Thread : x # t /\ x # h => s.one[x] = r.one[x]
        /\ \A x \in Thread : x # t /\ x # e => s.two[x] = r.two[x]
    <3>1. r.one \in [Thread -> Thread \cup {NULL}] /\ r.two \in [Thread -> Thread \cup {NULL}]
      BY <1>1 DEF Rings
    <3>2. s = [head |-> h, tail |-> t, one |-> [r.one EXCEPT ![t] = e, ![h] = t],
               two |-> [r.two EXCEPT ![t] = h, ![e] = t]]
      BY <2>1 DEF rr_admit, h, e
    <3>3. s \in Rings
      BY <2>3, <3>1, <3>2 DEF Rings
    <3> QED BY <2>3, <2>4, <3>1, <3>3
  <2>6. m[1] = h /\ m[n] = e /\ m[n + 1] = t /\ Len(m) = n + 1
    BY <1>5, <2>2 DEF h, e
  <2>7. ASSUME NEW i \in 1 .. n + 1
        PROVE  /\ s.two[m[i]] = IF i = n + 1 THEN m[1] ELSE m[i + 1]
               /\ s.one[m[i]] = IF i = 1 THEN m[n + 1] ELSE m[i - 1]
    <3>1. CASE i = n + 1
      <4>1. i # 1 /\ i - 1 = n
        BY <1>2, <2>1, <3>1
      <4> QED BY <2>5, <2>6, <3>1, <4>1
    <3>2. CASE i # n + 1
      <4>1. i \in 1 .. n
        BY <1>2, <3>2
      <4>2. m[i] = l[i] /\ l[i] \in Thread /\ l[i] # t
        BY <1>1, <1>5, <4>1
      <4>3. s.two[m[i]] = m[i + 1]
        <5>1. CASE i = n
          BY <2>5, <2>6, <5>1
        <5>2. CASE i # n
          <6>1. i + 1 \in 1 .. n
            BY <1>2, <4>1, <5>2
          <6>2. l[i] # e
            BY <1>1, <2>2, <4>1, <5>2 DEF e
          <6>3. s.two[m[i]] = r.two[l[i]]
            BY <2>5, <4>2, <6>2
          <6>4. r.two[l[i]] = l[i + 1]
            BY <1>4, <4>1, <5>2
          <6> QED BY <6>4, <1>5, <6>1, <6>3
        <5> QED BY <5>1, <5>2
      <4>4. s.one[m[i]] = IF i = 1 THEN m[n + 1] ELSE m[i - 1]
        <5>1. CASE i = 1
          BY <2>5, <2>6, <5>1
        <5>2. CASE i # 1
          <6>1. i - 1 \in 1 .. n
            BY <1>2, <4>1, <5>2
          <6>2. l[i] # h
            BY <1>1, <2>2, <4>1, <5>2 DEF h
          <6>3. s.one[m[i]] = r.one[l[i]]
            BY <2>5, <4>2, <6>2
          <6>4. r.one[l[i]] = l[i - 1]
            BY <1>4, <4>1, <5>2
          <6> QED BY <6>4, <1>5, <5>2, <6>1, <6>3
        <5> QED BY <5>1, <5>2
      <4> QED BY <3>2, <4>3, <4>4
    <3> QED BY <3>1, <3>2
  <2>8. \A i \in 1 .. Len(m) :
            /\ s.two[m[i]] = IF i = Len(m) THEN m[1] ELSE m[i + 1]
            /\ s.one[m[i]] = IF i = 1 THEN m[Len(m)] ELSE m[i - 1]
    BY <2>6, <2>7
  <2>9. s.head = IF m = <<>> THEN NULL ELSE m[1]
    BY <1>7, <2>4, <2>6
  <2>10. s.tail \in Range(m)
    BY <1>6, <2>4
  <2>11. Circle(s, m)
    BY <1>5, <1>6, <2>5, <2>8, <2>9, <2>10 DEF Circle
  <2> QED BY <2>1, <2>4, <2>11 DEF h
<1> QED BY <1>8, <1>9

\* In particular at the end, if the tail is the last one.
LEMMA AdmitLast ==
    ASSUME NEW r, NEW l, Circle(r, l), NEW t \in Thread \ Range(l),
           l # <<>> => r.tail = l[Len(l)],
           NEW s, s = rr_admit(r, t), NEW m, m = Append(l, t)
    PROVE  Circle(s, m)
<1> DEFINE n == Len(l)
<1>1. l \in Seq(Thread) /\ n \in Nat /\ (l = <<>> <=> n = 0)
  BY CircleFacts DEF Circle
<1>2. n \in 0 .. Len(l) /\ FirstOf(l, n) = l /\ (l = <<>> \/ (n # 0 /\ r.tail = l[n]))
  BY <1>1, PartsEnds
<1> HIDE DEF n
<1>3. Chain(r, l)
  BY <1>2, CircleChain
<1> QED BY <1>3, AdmitFacts

\* Places on a circle of n from which place p is taken away.
Skip(p, i) == IF i < p THEN i ELSE i + 1
After(n, i) == IF i = n THEN 1 ELSE i + 1
Before(n, i) == IF i = 1 THEN n ELSE i - 1

LEMMA SkipFacts ==
    ASSUME NEW n \in Nat, n # 0, n # 1, NEW p \in 1 .. n, NEW i \in 1 .. n - 1
    PROVE  /\ Skip(p, i) \in 1 .. n /\ Skip(p, i) # p
           /\ After(n, i) \in 1 .. n /\ Before(n, i) \in 1 .. n
           /\ After(n - 1, i) \in 1 .. n - 1 /\ Before(n - 1, i) \in 1 .. n - 1
           /\ Skip(p, After(n - 1, i)) =
                IF Skip(p, i) = Before(n, p) THEN After(n, p) ELSE After(n, Skip(p, i))
           /\ Skip(p, Before(n - 1, i)) =
                IF Skip(p, i) = After(n, p) THEN Before(n, p) ELSE Before(n, Skip(p, i))
BY DEF Skip, After, Before

\* A thread is removed: from the ring, and from the list of its turns.
LEMMA RemoveFacts ==
    ASSUME NEW r, NEW l, Circle(r, l), NEW p \in 1 .. Len(l), NEW v, v = l[p],
           v = r.head /\ v = r.tail => Len(l) = 1,
           NEW s, s = rr_remove(r, v), NEW m, m = RemoveAt(l, p)
    PROVE  Circle(s, m)
<1> DEFINE n == Len(l)
<1>1. n \in Nat /\ n # 0 /\ l # <<>> /\ p \in 1 .. n /\ 1 \in 1 .. n /\ n \in 1 .. n
  <2>1. n \in Nat /\ p \in 1 .. n /\ (l = <<>> <=> n = 0)
    BY CircleFacts
  <2> HIDE DEF n
  <2> QED BY <2>1
<1>2. /\ l \in Seq(Thread) /\ IsInjective(l) /\ r \in Rings
      /\ r.head = l[1] /\ r.tail \in Range(l)
      /\ \A i \in 1 .. n : /\ r.two[l[i]] = l[After(n, i)]
                           /\ r.one[l[i]] = l[Before(n, i)]
  <2>1. /\ l \in Seq(Thread) /\ IsInjective(l) /\ r \in Rings
        /\ r.head = l[1] /\ r.tail \in Range(l)
    BY <1>1 DEF Circle
  <2>2. \A i \in 1 .. n :
            /\ r.two[l[i]] = IF i = n THEN l[1] ELSE l[i + 1]
            /\ r.one[l[i]] = IF i = 1 THEN l[n] ELSE l[i - 1]
    BY DEF Circle
  <2> HIDE DEF n
  <2> QED BY <2>1, <2>2 DEF After, Before
<1>3. /\ \A i \in 1 .. n : l[i] \in Thread /\ l[i] # NULL
      /\ \A i, j \in 1 .. n : l[i] = l[j] => i = j
      /\ DOMAIN l = 1 .. n
  BY CircleFacts
<1>4. /\ m \in Seq(Thread) /\ Len(m) = n - 1
      /\ \A i \in 1 .. n - 1 : m[i] = l[Skip(p, i)]
  <2>1. /\ RemoveAt(l, p) \in Seq(Thread) /\ Len(RemoveAt(l, p)) = n - 1
        /\ \A i \in 1 .. n - 1 : RemoveAt(l, p)[i] = IF i < p THEN l[i] ELSE l[i + 1]
    BY <1>1, <1>2, RemoveAtFacts
  <2> HIDE DEF n
  <2> QED BY <2>1 DEF Skip
<1>5. IsInjective(m) /\ Range(m) = Range(l) \ {v}
  <2>1. \A i, j \in DOMAIN l : l[i] = l[j] => i = j
    BY <1>3
  <2>2. p \in DOMAIN l
    BY <1>1, <1>3
  <2> DEFINE a == RemoveAt(l, p)
  <2>3. /\ \A i, j \in DOMAIN a : a[i] = a[j] => i = j
        /\ \A q : (\E i \in DOMAIN a : a[i] = q) <=> q # l[p] /\ \E i \in DOMAIN l : l[i] = q
    BY <1>2, <2>1, <2>2, LeaveQueue
  <2>4. m = a
    OBVIOUS
  <2> HIDE DEF a
  <2>5. IsInjective(m)
    BY <2>3, <2>4 DEF IsInjective
  <2>6. \A x : x \in Range(m) <=> x \in Range(l) /\ x # v
    <3>1. \A x : x \in Range(m) <=> \E i \in DOMAIN m : m[i] = x
      BY DEF Range
    <3>2. \A x : x \in Range(l) <=> \E i \in DOMAIN l : l[i] = x
      BY DEF Range
    <3> QED BY <2>3, <2>4, <3>1, <3>2
  <2> QED BY <2>5, <2>6
<1> HIDE DEF n
<1>6. CASE n = 1
  <2>1. Range(l) = {v} /\ v = l[1]
    <3>1. p = 1
      BY <1>1, <1>6
    <3> QED BY <1>3, <1>6, <3>1 DEF Range
  <2>2. s = [r EXCEPT !.head = NULL, !.tail = NULL]
    BY <1>1, <1>2, <1>3, <2>1 DEF rr_remove
  <2>3. s \in Rings /\ s.head = NULL
    BY <1>2, <2>2 DEF Rings
  <2>4. Len(m) = 0
    BY <1>4, <1>6
  <2>5. m = <<>>
    BY <1>4, <2>4, EmptySeq
  <2> QED BY <1>4, <1>5, <2>3, <2>4, <2>5 DEF Circle
<1>7. CASE n # 1
  <2> DEFINE P == Before(n, p)
             Q == After(n, p)
             pv == l[P]
             nx == l[Q]
  <2>1. /\ P \in 1 .. n /\ Q \in 1 .. n /\ P # p /\ Q # p /\ (p = 1 => Q = 2)
        /\ n - 1 \in Nat /\ n - 1 # 0 /\ 1 \in 1 .. n - 1 /\ (1 < p <=> p # 1)
    BY <1>1, <1>7 DEF Before, After
  <2> HIDE DEF P, Q
  <2>2. pv \in Thread /\ nx \in Thread /\ pv # v /\ nx # v /\ v \in Thread
    BY <1>1, <1>3, <2>1
  <2>3. r.one[v] = pv /\ r.two[v] = nx /\ r.head # NULL /\ ~(v = r.head /\ v = r.tail)
    BY <1>1, <1>2, <1>3, <1>7 DEF P, Q, n
  <2> HIDE DEF pv, nx
  <2>4. s = [head |-> IF v = r.head THEN nx ELSE r.head,
             tail |-> IF v = r.tail THEN pv ELSE r.tail,
             one |-> [r.one EXCEPT ![nx] = pv],
             two |-> [r.two EXCEPT ![pv] = nx]]
    BY <2>3 DEF rr_remove
  <2>5. r.one \in [Thread -> Thread \cup {NULL}] /\ r.two \in [Thread -> Thread \cup {NULL}]
        /\ r.head \in Thread \cup {NULL} /\ r.tail \in Thread \cup {NULL}
    BY <1>2 DEF Rings
  <2>6. s \in Rings
    <3>1. [r.one EXCEPT ![nx] = pv] \in [Thread -> Thread \cup {NULL}]
          /\ [r.two EXCEPT ![pv] = nx] \in [Thread -> Thread \cup {NULL}]
      BY <2>2, <2>5
    <3>2. /\ (IF v = r.head THEN nx ELSE r.head) \in Thread \cup {NULL}
          /\ (IF v = r.tail THEN pv ELSE r.tail) \in Thread \cup {NULL}
      BY <2>2, <2>5
    <3> QED BY <2>4, <3>1, <3>2 DEF Rings
  <2>7. /\ s.head = (IF v = r.head THEN nx ELSE r.head)
        /\ s.tail = (IF v = r.tail THEN pv ELSE r.tail)
        /\ \A x \in Thread : s.one[x] = (IF x = nx THEN pv ELSE r.one[x])
        /\ \A x \in Thread : s.two[x] = (IF x = pv THEN nx ELSE r.two[x])
    BY <2>4, <2>5
  <2>8. m # <<>>
    BY <1>4, <2>1, EmptySeq
  <2>9. s.head = m[1]
    <3>1. m[1] = l[Skip(p, 1)]
      BY <1>4, <2>1
    <3>2. CASE p = 1
      <4>1. v = r.head /\ Skip(p, 1) = Q
        BY <1>2, <2>1, <3>2 DEF Skip
      <4> QED BY <2>7, <3>1, <4>1 DEF nx
    <3>3. CASE p # 1
      <4>1. v # r.head /\ Skip(p, 1) = 1
        BY <1>1, <1>2, <1>3, <2>1, <3>3 DEF Skip
      <4> QED BY <1>2, <2>7, <3>1, <4>1
    <3> QED BY <3>2, <3>3
  <2>10. s.tail \in Range(m)
    <3>1. pv \in Range(l)
      BY <1>3, <2>1 DEF pv, Range
    <3> QED BY <1>2, <1>5, <2>2, <2>7, <3>1
  <2>11. ASSUME NEW i \in 1 .. n - 1
         PROVE  /\ s.two[m[i]] = m[After(n - 1, i)]
                /\ s.one[m[i]] = m[Before(n - 1, i)]
    <3> DEFINE k == Skip(p, i)
               a == After(n - 1, i)
               b == Before(n - 1, i)
    <3>1. /\ k \in 1 .. n /\ k # p /\ a \in 1 .. n - 1 /\ b \in 1 .. n - 1
          /\ Skip(p, a) = IF k = P THEN Q ELSE After(n, k)
          /\ Skip(p, b) = IF k = Q THEN P ELSE Before(n, k)
      BY <1>1, <1>7, SkipFacts DEF P, Q
    <3>2. m[i] = l[k] /\ m[a] = l[Skip(p, a)] /\ m[b] = l[Skip(p, b)]
      BY <1>4, <3>1
    <3> HIDE DEF k, a, b
    <3>3. l[k] \in Thread /\ (l[k] = pv <=> k = P) /\ (l[k] = nx <=> k = Q)
      BY <1>3, <2>1, <3>1 DEF pv, nx
    <3>4. r.two[l[k]] = l[After(n, k)] /\ r.one[l[k]] = l[Before(n, k)]
      BY <1>2, <3>1
    <3>5. s.two[m[i]] = m[a]
      BY <2>7, <3>1, <3>2, <3>3, <3>4 DEF nx
    <3>6. s.one[m[i]] = m[b]
      BY <2>7, <3>1, <3>2, <3>3, <3>4 DEF pv
    <3> QED BY <3>5, <3>6 DEF a, b
  <2>12. \A i \in 1 .. Len(m) :
            /\ s.two[m[i]] = IF i = Len(m) THEN m[1] ELSE m[i + 1]
            /\ s.one[m[i]] = IF i = 1 THEN m[Len(m)] ELSE m[i - 1]
    <3>1. \A i \in 1 .. n - 1 :
            /\ s.two[m[i]] = IF i = n - 1 THEN m[1] ELSE m[i + 1]
            /\ s.one[m[i]] = IF i = 1 THEN m[n - 1] ELSE m[i - 1]
      BY <2>11 DEF After, Before
    <3>2. Len(m) = n - 1
      BY <1>4
    <3> QED BY ONLY <3>1, <3>2
  <2>13. s.head = IF m = <<>> THEN NULL ELSE m[1]
    BY <2>8, <2>9
  <2> QED BY <1>4, <1>5, <2>6, <2>10, <2>12, <2>13 DEF Circle
<1> QED BY <1>6, <1>7

\* The program's scheduler.
LEMMA SameQueue ==
    ASSUME NEW q, NEW t
    PROVE  /\ fifo_admit(q, t) = Append(q, t)
           /\ fifo_remove(q, t) = RemoveFirst(q, t)
           /\ q # <<>> => fifo_advance(q) = Append(Tail(q), Head(q))
           /\ fifo_init = <<>>
BY DEF fifo_admit, fifo_remove, fifo_advance, fifo_init

\* The threads of l are moved from the scheduler old to the other; i are.
Pairs == [ring : Rings, queue : Seq(Thread)]

Between(old, l, i, s) ==
    /\ s \in Pairs
    /\ old = "rr" => Circle(s.ring, RestOf(l, i)) /\ s.queue = FirstOf(l, i)
    /\ old # "rr" => /\ Circle(s.ring, FirstOf(l, i)) /\ s.queue = RestOf(l, i)
                     /\ i # 0 => s.ring.tail = l[i]

LEMMA MoveFromRing ==
    ASSUME NEW l \in Seq(Thread), IsInjective(l), NEW i \in 0 .. Len(l), i # Len(l),
           NEW s, Between("rr", l, i, s), NEW t, t = MoveOne("rr", s)
    PROVE  Between("rr", l, i + 1, t)
<1> DEFINE e == l[i + 1]
           d == RestOf(l, i)
           m == Append(Tail(d), Head(d))
           A == rr_advance(s.ring)
           R == rr_remove(A, e)
           q == Append(FirstOf(l, i), e)
<1>1. /\ e \in Thread /\ d # <<>> /\ Head(d) = e /\ Tail(d) = RestOf(l, i + 1)
      /\ q = FirstOf(l, i + 1)
  BY PartsStep
<1>2. s \in Pairs /\ Circle(s.ring, d) /\ s.queue = FirstOf(l, i)
  BY DEF Between
<1>3. d \in Seq(Thread) /\ IsInjective(d) /\ s.ring.head = e
  <2>1. d \in Seq(Thread) /\ IsInjective(d) /\ s.ring.head = d[1]
    BY <1>1, <1>2 DEF Circle
  <2>2. Head(d) = d[1]
    BY <1>1, <2>1
  <2> QED BY <1>1, <2>1, <2>2
<1>4. /\ m \in Seq(Thread) /\ IsInjective(m) /\ Len(m) \in 1 .. Len(m) /\ m[Len(m)] = e
      /\ RemoveAt(m, Len(m)) = Tail(d)
  <2> HIDE DEF d, e
  <2> QED BY <1>1, <1>3, TurnBack
<1>5. Circle(A, m)
  <2> HIDE DEF d
  <2> QED BY <1>1, <1>2, AdvanceFacts
<1> HIDE DEF e, d, m, A
<1>6. e = A.head => Len(m) = 1
  <2>1. 1 \in 1 .. Len(m) /\ DOMAIN m = 1 .. Len(m)
    BY <1>4, LenProperties
  <2>2. m # <<>>
    BY <1>4, EmptySeq
  <2>3. A.head = m[1]
    BY <1>5, <2>2 DEF Circle
  <2> QED BY <1>4, <2>1, <2>3 DEF IsInjective
<1>7. Circle(R, RestOf(l, i + 1))
  <2>1. R = rr_remove(A, e)
    OBVIOUS
  <2> HIDE DEF R
  <2> DEFINE u == RemoveAt(m, Len(m))
             p == Len(m)
  <2>2. p \in 1 .. Len(m) /\ e = m[p] /\ u = RemoveAt(m, p)
    BY <1>4
  <2> HIDE DEF u, p
  <2>3. Circle(R, u)
    BY <1>5, <1>6, <2>1, <2>2, RemoveFacts
  <2> QED BY <1>1, <1>4, <2>3 DEF u
<1>8. t = [ring |-> R, queue |-> q]
  <2>1. rr_next(s.ring) = e /\ e # NULL
    BY <1>1, <1>3, RoundRobinAssumption DEF rr_next
  <2>2. fifo_admit(s.queue, e) = q
    BY <1>2, SameQueue
  <2> QED BY <2>1, <2>2 DEF MoveOne, A
<1> HIDE DEF R, q
<1>9. t \in Pairs
  <2>1. R \in Rings
    BY <1>7 DEF Circle
  <2>2. q \in Seq(Thread)
    <3>1. i + 1 \in 0 .. Len(l)
      BY LenProperties
    <3> QED BY <1>1, <3>1, FirstFacts
  <2> QED BY <1>8, <2>1, <2>2 DEF Pairs
<1> QED BY <1>1, <1>7, <1>8, <1>9 DEF Between

LEMMA MoveFromQueue ==
    ASSUME NEW old, old # "rr",
           NEW l \in Seq(Thread), IsInjective(l), NEW i \in 0 .. Len(l), i # Len(l),
           NEW s, Between(old, l, i, s), NEW t, t = MoveOne(old, s)
    PROVE  Between(old, l, i + 1, t)
<1> DEFINE e == l[i + 1]
           a == FirstOf(l, i)
           d == RestOf(l, i)
           m == Append(Tail(d), Head(d))
           A == rr_admit(s.ring, e)
           c == Append(a, e)
<1>1. /\ e \in Thread /\ d # <<>> /\ Head(d) = e /\ Tail(d) = RestOf(l, i + 1)
      /\ c = FirstOf(l, i + 1) /\ e \notin Range(a)
  BY PartsStep
<1>2. s \in Pairs /\ Circle(s.ring, a) /\ s.queue = d /\ (i # 0 => s.ring.tail = l[i])
  BY DEF Between
<1>3. d \in Seq(Thread) /\ IsInjective(d)
  <2>1. d \in Seq(Thread)
    BY RestFacts
  <2>2. IsInjective(d)
    BY RestInjective
  <2> QED BY <2>1, <2>2
<1>4. a \in Seq(Thread) /\ Len(a) = i /\ (\A j \in 1 .. i : a[j] = l[j]) /\ i \in Nat
  <2>1. i \in Nat
    BY LenProperties
  <2> QED BY <2>1, FirstFacts
<1> HIDE DEF e, a, d
<1>5. RemoveFirst(m, e) = Tail(d)
  BY <1>1, <1>3, TurnBack
<1>6. a # <<>> => s.ring.tail = a[Len(a)]
  <2>1. a # <<>> => i # 0
    BY <1>4, EmptySeq
  <2>2. i # 0 => i \in 1 .. i
    BY <1>4
  <2> QED BY <1>2, <1>4, <2>1, <2>2
<1>7. Circle(A, c) /\ A.tail = e
  <2>1. A = rr_admit(s.ring, e) /\ c = Append(a, e) /\ e \in Thread \ Range(a)
    BY <1>1
  <2> HIDE DEF A, c
  <2> DEFINE r == s.ring
  <2>2. Circle(r, a) /\ A = rr_admit(r, e) /\ (a # <<>> => r.tail = a[Len(a)])
    BY <1>2, <1>6, <2>1
  <2> HIDE DEF r
  <2> HIDE DEF m
  <2>3. e \in Thread \ Range(a) /\ c = Append(a, e)
    BY <2>1
  <2>4. Circle(A, c)
    BY <2>2, <2>3, AdmitLast, Zenon
  <2>5. A.tail = e
    BY <2>2 DEF rr_admit
  <2> QED BY <2>4, <2>5
<1>8. t = [ring |-> A, queue |-> Tail(d)]
  <2>1. fifo_advance(d) = m
    BY <1>1, SameQueue
  <2>2. fifo_remove(m, e) = Tail(d)
    BY <1>5, SameQueue
  <2>3. s.queue # <<>> /\ Head(s.queue) = e
    BY <1>1, <1>2
  <2>4. t = [ring |-> rr_admit(s.ring, Head(s.queue)),
             queue |-> fifo_remove(fifo_advance(s.queue), Head(s.queue))]
    BY <2>3 DEF MoveOne
  <2> QED BY <1>1, <1>2, <2>1, <2>2, <2>4
<1> HIDE DEF A, c
<1>9. t \in Pairs
  <2>1. A \in Rings
    BY <1>7 DEF Circle
  <2>2. Tail(d) \in Seq(Thread)
    BY <1>1, <1>3, HeadTailProperties
  <2> QED BY <1>8, <2>1, <2>2 DEF Pairs
<1> QED BY <1>1, <1>7, <1>8, <1>9 DEF Between, e

\* When all have been moved, nothing happens any more.
LEMMA MoveNothing ==
    ASSUME NEW old, NEW l \in Seq(Thread), NEW s, Between(old, l, Len(l), s)
    PROVE  MoveOne(old, s) = s
<1>1. RestOf(l, Len(l)) = <<>>
  BY PartsEnds
<1>2. CASE old = "rr"
  <2>1. Circle(s.ring, <<>>)
    BY <1>1, <1>2 DEF Between
  <2>2. s.ring.head = NULL
    BY <2>1 DEF Circle
  <2> QED BY <1>2, <2>2 DEF MoveOne, rr_next
<1>3. CASE old # "rr"
  <2>1. s.queue = <<>>
    BY <1>1, <1>3 DEF Between
  <2> QED BY <1>3, <2>1 DEF MoveOne
<1> QED BY <1>2, <1>3

\* The loop moves them all.
LEMMA MoveAllFacts ==
    ASSUME IsFiniteSet(Thread), NEW old, NEW l \in Seq(Thread), IsInjective(l),
           NEW s, Between(old, l, 0, s), NEW t, t = MoveAll(old, s)
    PROVE  Between(old, l, Len(l), t)
<1> DEFINE N == Cardinality(Thread)
           T == {x \in Pairs : \E i \in 0 .. Len(l) : Between(old, l, i, x)}
           F == [n \in 1 .. N |-> [x \in T |-> MoveOne(old, x)]]
           At(f) == f = [n \in 0 .. N |-> IF n = 0 THEN s ELSE MoveOne(old, f[n - 1])]
           after == CHOOSE f : At(f)
<1>1. Len(l) \in Nat /\ Len(l) <= N /\ N \in Nat
  BY ShortSeq
<1>2. N = Cardinality(Thread)
  OBVIOUS
<1>3. ASSUME NEW x, NEW i \in 0 .. Len(l), Between(old, l, i, x)
      PROVE  /\ i = Len(l) => MoveOne(old, x) = x
             /\ i # Len(l) => i + 1 \in 0 .. Len(l) /\ Between(old, l, i + 1, MoveOne(old, x))
  <2> DEFINE y == MoveOne(old, x)
  <2>1. y = MoveOne(old, x)
    OBVIOUS
  <2> HIDE DEF y
  <2>2. CASE i = Len(l)
    BY <1>3, <2>2, MoveNothing
  <2>3. CASE i # Len(l) /\ old = "rr"
    <3>1. Between("rr", l, i, x) /\ y = MoveOne("rr", x)
      BY <1>3, <2>1, <2>3
    <3>2. Between("rr", l, i + 1, y)
      BY <2>3, <3>1, MoveFromRing
    <3> QED BY <1>1, <2>1, <2>3, <3>2
  <2>4. CASE i # Len(l) /\ old # "rr"
    <3>1. Between(old, l, i + 1, y)
      BY <1>3, <2>1, <2>4, MoveFromQueue
    <3> QED BY <1>1, <2>1, <2>4, <3>1
  <2> QED BY <2>2, <2>3, <2>4
<1>4. s \in T
  <2>1. s \in Pairs /\ 0 \in 0 .. Len(l)
    BY <1>1 DEF Between
  <2> QED BY <2>1
<1>5. \A x \in T : MoveOne(old, x) \in T
  <2> SUFFICES ASSUME NEW x \in T PROVE MoveOne(old, x) \in T
    OBVIOUS
  <2>1. PICK i \in 0 .. Len(l) : Between(old, l, i, x)
    OBVIOUS
  <2>2. \A j, y : Between(old, l, j, y) => y \in Pairs
    BY DEF Between
  <2> QED BY <1>3, <2>1, <2>2
<1>6. F \in [1 .. N -> [T -> T]]
  <2> HIDE DEF T, N
  <2> QED BY <1>5
<1>7. \E f : At(f)
  <2> HIDE DEF T
  <2>1. PICK f : Iterates(f, N, T, s, F)
    <3> HIDE DEF F, N
    <3> QED BY <1>1, <1>4, <1>6, Recursion
  <2>2. f \in [0 .. N -> T] /\ f = [n \in 0 .. N |-> IF n = 0 THEN s ELSE F[n][f[n - 1]]]
    BY <2>1 DEF Iterates
  <2>3. \A n \in 0 .. N : n # 0 => n \in 1 .. N /\ n - 1 \in 0 .. N
    BY <1>1
  <2>4. ASSUME NEW n \in 0 .. N
        PROVE  f[n] = IF n = 0 THEN s ELSE MoveOne(old, f[n - 1])
    <3>1. f[n] = IF n = 0 THEN s ELSE F[n][f[n - 1]]
      <4> HIDE DEF F, N
      <4> QED BY <2>2
    <3>2. n # 0 => f[n - 1] \in T /\ n \in 1 .. N
      BY <2>2, <2>3
    <3>3. n # 0 => F[n][f[n - 1]] = MoveOne(old, f[n - 1])
      BY <3>2
    <3> QED BY <3>1, <3>3
  <2> HIDE DEF N, F
  <2>5. f = [n \in 0 .. N |-> IF n = 0 THEN s ELSE MoveOne(old, f[n - 1])]
    <3>1. f = [n \in 0 .. N |-> f[n]]
      BY <2>2
    <3> QED BY <2>4, <3>1
  <2> QED BY <2>5
<1>8. At(after)
  <2> HIDE DEF At
  <2> QED BY <1>7
<1> HIDE DEF N, T, F
<1>9. t = after[N]
  BY <1>2 DEF MoveAll
<1> DEFINE upto(n) == IF n <= Len(l) THEN n ELSE Len(l)
           Bad == {n \in 0 .. N : ~Between(old, l, upto(n), after[n])}
<1> HIDE DEF after
<1>10. \A n \in 0 .. N : after[n] = IF n = 0 THEN s ELSE MoveOne(old, after[n - 1])
  BY <1>8
<1>11. Bad = {}
  <2>1. SUFFICES ASSUME Bad # {} PROVE FALSE
    OBVIOUS
  <2>2. Bad \in SUBSET Nat
    <3> HIDE DEF upto
    <3> QED BY <1>1
  <2>3. PICK n \in Bad : \A j \in Bad : n <= j
    <3> HIDE DEF Bad
    <3> QED BY <2>1, <2>2, LeastNat
  <2>4. n \in 0 .. N /\ ~Between(old, l, upto(n), after[n])
    OBVIOUS
  <2>5. n # 0
    <3>1. upto(0) = 0 /\ 0 \in 0 .. N
      BY <1>1
    <3> QED BY <1>10, <2>4, <3>1
  <2> DEFINE k == n - 1
             i == upto(n - 1)
  <2>6. /\ k \in 0 .. N /\ ~(n <= k) /\ i \in 0 .. Len(l)
        /\ i = Len(l) => upto(n) = i
        /\ i # Len(l) => upto(n) = i + 1
    BY <1>1, <2>4, <2>5
  <2>7. Between(old, l, i, after[k])
    <3> HIDE DEF upto
    <3> QED BY <2>3, <2>6
  <2>8. after[n] = MoveOne(old, after[k])
    BY <1>10, <2>4, <2>5
  <2> HIDE DEF upto, k, i, Bad
  <2> QED BY <1>3, <2>4, <2>6, <2>7, <2>8
<1> QED
  <2>1. N \in 0 .. N /\ upto(N) = Len(l)
    BY <1>1
  <2> HIDE DEF upto
  <2>2. Between(old, l, upto(N), after[N])
    BY <1>11, <2>1
  <2> QED BY <1>9, <2>1, <2>2

\* What holds of the two schedulers between two calls: the one that is not in
\* use is empty, and the ring is a circle.  The running thread may be at both
\* ends of it only if it is alone: rr_remove takes that for an empty ring.
RingHolds(l) ==
    /\ Circle(ring, l)
    /\ which # "rr" => l = <<>>
    /\ current_thread = ring.head /\ current_thread = ring.tail => Len(l) <= 1

SchedulersHold ==
    /\ which \in {"NULL", "rr", "user"} /\ current_thread \in Thread \cup {NULL}
    /\ queue \in Seq(Thread) /\ IsInjective(queue)
    /\ which # "user" => queue = <<>>
    /\ \E l : RingHolds(l)

\* As long as no thread was removed that the ring had lost.
SetSchedulerInv == ~strayed => SchedulersHold /\ Range(ReadyNow) \subseteq admitted

\* An empty list, and an emptied ring.
LEMMA EmptyFacts ==
    /\ <<>> \in Seq(Thread) /\ Len(<<>>) = 0 /\ IsInjective(<<>>)
    /\ Circle(rr_init, <<>>)
    /\ \A r \in Rings : Circle(Emptied(r), <<>>)
    /\ \A r \in Rings : r.head = NULL => Circle(r, <<>>)
<1>1. <<>> \in Seq(Thread) /\ Len(<<>>) = 0 /\ IsInjective(<<>>)
  BY EmptySeq DEF IsInjective
<1>2. rr_init \in Rings /\ rr_init.head = NULL
  BY DEF rr_init, Rings
<1>3. ASSUME NEW r \in Rings
      PROVE  Emptied(r) \in Rings /\ Emptied(r).head = NULL
  BY DEF Emptied, Rings
<1>4. \A r \in Rings : r.head = NULL => Circle(r, <<>>)
  BY <1>1 DEF Circle
<1> QED BY <1>1, <1>2, <1>3, <1>4

\* The ready threads, in order.
LEMMA ReadyIs ==
    ASSUME IsFiniteSet(Thread), SchedulersHold, NEW l, RingHolds(l)
    PROVE  ReadyNow = IF which = "rr" THEN l ELSE queue
<1>1. rr_turns(ring) = l
  BY TurnsFacts DEF RingHolds
<1> QED BY <1>1 DEF ReadyNow, SchedulersHold

LEMMA InitHolds == ChangeInit => SchedulersHold /\ ReadyNow = <<>>
<1> SUFFICES ASSUME ChangeInit PROVE SchedulersHold /\ ReadyNow = <<>>
  OBVIOUS
<1>1. which = "NULL" /\ ring = rr_init /\ queue = <<>> /\ current_thread = NULL
  BY SameQueue DEF ChangeInit
<1>2. RingHolds(<<>>)
  BY <1>1, EmptyFacts DEF RingHolds
<1>3. ReadyNow = <<>>
  BY <1>1 DEF ReadyNow
<1> QED BY <1>1, <1>2, <1>3, EmptyFacts DEF SchedulersHold

\* admit.
LEMMA AdmitStep ==
    ASSUME IsFiniteSet(Thread), SchedulersHold, NEW t \in Thread, admit(t),
           Range(ReadyNow) \subseteq admitted
    PROVE  /\ SchedulersHold'
           /\ t \notin Range(ReadyNow)
           /\ ReadyNow' = Append(ReadyNow, t) \/ CutOff(t)
<1>1. PICK l : RingHolds(l)
  BY DEF SchedulersHold
<1>2. Circle(ring, l) /\ l \in Seq(Thread)
  BY <1>1 DEF RingHolds, Circle
<1>3. ReadyNow = IF which = "rr" THEN l ELSE queue
  BY <1>1, ReadyIs
<1>4. t \notin Range(ReadyNow) /\ current_thread' = current_thread
  BY DEF admit
<1>5. CASE which = "user"
  <2>1. which' = which /\ ring' = ring /\ queue' = Append(queue, t)
    BY <1>5, SameQueue DEF admit
  <2>2. Append(queue, t) \in Seq(Thread) /\ IsInjective(Append(queue, t))
    <3>1. queue \in Seq(Thread) /\ IsInjective(queue) /\ t \notin Range(queue)
      BY <1>3, <1>4, <1>5 DEF SchedulersHold
    <3> QED BY <3>1, AppendFacts, AppendRange
  <2>3. RingHolds(l)'
    BY <1>1, <1>4, <2>1 DEF RingHolds
  <2>4. SchedulersHold'
    BY <1>4, <1>5, <2>1, <2>2, <2>3 DEF SchedulersHold
  <2>5. ReadyNow' = queue'
    BY <1>5, <2>1 DEF ReadyNow
  <2> QED BY <1>3, <1>4, <1>5, <2>1, <2>4, <2>5
<1>6. CASE which # "user"
  <2>1. which' = "rr" /\ queue' = queue /\ ring' = rr_admit(ring, t)
    BY <1>6 DEF admit
  <2>2. queue = <<>> /\ (which = "NULL" => l = <<>>)
    BY <1>1, <1>6 DEF SchedulersHold, RingHolds
  <2>3. ReadyNow = l
    BY <1>3, <1>6, <2>2 DEF SchedulersHold
  <2>4. PICK j \in 0 .. Len(l) : l = <<>> \/ (j # 0 /\ ring.tail = l[j])
    <3>1. Len(l) \in Nat
      BY <1>2, CircleFacts
    <3>2. CASE l = <<>>
      <4>1. 0 \in 0 .. Len(l)
        BY <3>1
      <4> QED BY <3>2, <4>1
    <3>3. CASE l # <<>>
      <4>1. PICK j \in 1 .. Len(l) : ring.tail = l[j]
        BY <1>2, <3>3, CircleFacts DEF Circle
      <4>2. j \in 0 .. Len(l) /\ j # 0
        BY <3>1
      <4> QED BY <4>1, <4>2
    <3> QED BY <3>2, <3>3
  <2> DEFINE a == FirstOf(l, j)
             m == Append(a, t)
             r == ring
             s == ring'
  <2>4a. a \in Seq(Thread) /\ Len(a) = j /\ (\A i \in 1 .. j : a[i] = l[i])
    BY <1>2, FirstFacts
  <2>4b. t \notin Range(a)
    <3>1. Len(l) \in Nat /\ (\A i \in 1 .. Len(l) : l[i] \in Range(l))
      BY <1>2, CircleFacts
    <3>2. \A i \in 1 .. j : i \in 1 .. Len(l)
      BY <3>1
    <3>3. DOMAIN a = 1 .. j
      BY <2>4a, LenProperties
    <3> HIDE DEF a
    <3>4. \A x \in Range(a) : x \in Range(l)
      BY <2>4a, <3>1, <3>2, <3>3 DEF Range
    <3> QED BY <1>4, <2>3, <3>4
  <2>5. Circle(s, m) /\ s.tail = t /\ (l # <<>> => s.head = r.head)
    <3>1. /\ Circle(r, l) /\ t \in Thread \ Range(a) /\ s = rr_admit(r, t)
          /\ m = Append(a, t) /\ a = FirstOf(l, j) /\ (l = <<>> \/ (j # 0 /\ r.tail = l[j]))
      BY <1>2, <2>1, <2>4, <2>4b
    <3> HIDE DEF a, m, r, s
    <3>2. Chain(r, a)
      BY <3>1, CircleChain
    <3>3. Circle(s, m)
      BY <3>1, <3>2, AdmitFacts, Zenon
    <3>4. s.tail = t /\ (r.head # NULL => s.head = r.head)
      BY <3>1 DEF rr_admit
    <3>5. l # <<>> => r.head # NULL
      BY <3>1, CircleFacts
    <3> QED BY <3>3, <3>4, <3>5
  <2>6. s.head = s.tail => Len(m) <= 1
    <3>1. CASE l = <<>>
      <4>1. Len(m) = Len(a) + 1 /\ Len(a) = 0
        <5>1. Len(l) = 0 /\ j = 0
          BY <1>2, <3>1, EmptySeq
        <5> QED BY <2>4a, <5>1, AppendFacts
      <4> QED BY <4>1
    <3>2. CASE l # <<>>
      <4>1. r.head \in Range(l)
        <5>1. 1 \in 1 .. Len(l)
          BY <1>2, <3>2, CircleFacts
        <5> QED BY <1>2, <3>2, <5>1, CircleFacts DEF Circle
      <4>2. t \notin Range(l)
        BY <1>4, <2>3
      <4> QED BY <2>5, <3>2, <4>1, <4>2
    <3> QED BY <3>1, <3>2
  <2>7. RingHolds(m)'
    BY <2>1, <2>5, <2>6 DEF RingHolds
  <2>8. SchedulersHold'
    <3> HIDE DEF m
    <3> QED BY <1>4, <2>1, <2>2, <2>7, EmptyFacts DEF SchedulersHold
  <2>9. ReadyNow' = m
    <3>1. rr_turns(ring') = m
      BY <2>5, TurnsFacts
    <3> QED BY <2>1, <3>1 DEF ReadyNow
  <2>10. CASE l = <<>>
    <3>1. Len(l) = 0 /\ j = Len(l)
      BY <1>2, <2>10, EmptySeq
    <3>2. a = l
      BY <1>2, <3>1, PartsEnds
    <3> QED BY <1>4, <2>3, <2>8, <2>9, <3>2
  <2>11. CASE l # <<>>
    <3>1. which = "rr"
      BY <1>1, <1>6, <2>2, <2>11 DEF SchedulersHold
    <3>2. j \in DOMAIN l /\ ring.tail = l[j]
      <4>1. DOMAIN l = 1 .. Len(l) /\ Len(l) \in Nat
        BY <1>2, CircleFacts
      <4> QED BY <2>4, <2>11, <4>1
    <3>3. CutOff(t)
      BY <1>4, <2>3, <2>9, <3>1, <3>2 DEF CutOff, FirstOf
    <3> QED BY <1>4, <2>8, <3>3
  <2> QED BY <2>10, <2>11
<1> QED BY <1>5, <1>6

\* next.
LEMMA NextStep ==
    ASSUME IsFiniteSet(Thread), SchedulersHold, next
    PROVE  /\ SchedulersHold'
           /\ ReadyNow # <<>>
           /\ ReadyNow' = Append(Tail(ReadyNow), Head(ReadyNow))
<1>1. PICK l : RingHolds(l)
  BY DEF SchedulersHold
<1>2. Circle(ring, l) /\ l \in Seq(Thread)
  BY <1>1 DEF RingHolds, Circle
<1>3. ReadyNow = IF which = "rr" THEN l ELSE queue
  BY <1>1, ReadyIs
<1>4. ReadyNow # <<>> /\ current_thread' = Head(ReadyNow) /\ which' = which
  BY DEF next
<1>5. CASE which = "rr"
  <2> DEFINE m == Append(Tail(l), Head(l))
             s == ring'
  <2>1. ring' = rr_advance(ring) /\ queue' = queue /\ l # <<>> /\ current_thread' = Head(l)
    BY <1>3, <1>4, <1>5 DEF next
  <2>2. Head(l) = l[1] /\ Head(l) \in Thread
    BY <1>2, <2>1, HeadTailProperties
  <2>3. Circle(s, m) /\ Len(m) = Len(l) /\ m[Len(m)] = l[1]
    <3>1. s = rr_advance(ring) /\ m = Append(Tail(l), Head(l))
      BY <2>1
    <3> DEFINE r == ring
    <3>2. Circle(r, l) /\ l # <<>> /\ s = rr_advance(r)
      BY <1>2, <2>1
    <3> HIDE DEF m, s, r
    <3>3. Circle(s, m)
      BY <3>1, <3>2, AdvanceFacts, Zenon
    <3>4. Len(m) = Len(l)
      BY <3>1, <3>2, AdvanceFacts, Zenon
    <3>5. m[Len(m)] = l[1]
      <4>1. l[1] = Head(l) /\ l \in Seq(Thread) /\ IsInjective(l)
        BY <1>2, <2>2 DEF Circle
      <4>2. m[Len(m)] = Head(l)
        BY <3>1, <3>2, <4>1, TurnBack
      <4> QED BY <4>1, <4>2
    <3> QED BY <3>3, <3>4, <3>5
  <2> HIDE DEF m
  <2>4. current_thread' = s.head => Len(m) <= 1
    <3>1. m # <<>> /\ Len(m) \in 1 .. Len(m) /\ 1 \in 1 .. Len(m)
      <4>1. Len(l) \in Nat /\ Len(l) # 0
        BY <1>2, <2>1, CircleFacts
      <4>2. m # <<>>
        BY <2>3, <4>1, CircleFacts
      <4> QED BY <2>3, <4>1, <4>2
    <3>2. s.head = m[1]
      BY <2>3, <3>1 DEF Circle
    <3>3. \A i, j \in 1 .. Len(m) : m[i] = m[j] => i = j
      BY <2>3, CircleFacts
    <3>4. m[1] = m[Len(m)] => 1 = Len(m)
      BY <3>1, <3>3
    <3> QED BY <2>1, <2>2, <2>3, <3>2, <3>4
  <2>5. RingHolds(m)'
    BY <1>4, <1>5, <2>3, <2>4 DEF RingHolds
  <2>6. SchedulersHold'
    BY <1>4, <1>5, <2>1, <2>2, <2>5 DEF SchedulersHold
  <2>7. ReadyNow' = m
    <3>1. rr_turns(ring') = m
      BY <2>3, TurnsFacts
    <3> QED BY <1>4, <1>5, <3>1 DEF ReadyNow
  <2> QED BY <1>3, <1>4, <1>5, <2>6, <2>7 DEF m
<1>6. CASE which # "rr"
  <2>1. which = "user" /\ ring' = ring /\ queue # <<>> /\ current_thread' = Head(queue)
    BY <1>3, <1>4, <1>6 DEF next, SchedulersHold
  <2>2. queue' = Append(Tail(queue), Head(queue))
    BY <2>1, SameQueue DEF next
  <2>3. queue' \in Seq(Thread) /\ IsInjective(queue') /\ Head(queue) \in Thread
    <3> DEFINE m == Append(Tail(queue), Head(queue))
    <3>1. queue \in Seq(Thread) /\ IsInjective(queue)
      BY DEF SchedulersHold
    <3>2. m = Append(Tail(queue), Head(queue))
      OBVIOUS
    <3> HIDE DEF m
    <3>3. m \in Seq(Thread) /\ IsInjective(m) /\ Head(queue) \in Thread
      BY <2>1, <3>1, <3>2, TurnBack, TailRange
    <3> QED BY <2>2, <3>2, <3>3
  <2>4. l = <<>>
    BY <1>1, <1>6 DEF RingHolds
  <2>5. RingHolds(l)'
    BY <1>2, <1>4, <1>6, <2>1, <2>4, EmptyFacts DEF RingHolds
  <2>6. SchedulersHold'
    BY <1>4, <2>1, <2>3, <2>5 DEF SchedulersHold
  <2>7. ReadyNow' = queue'
    BY <1>4, <2>1 DEF ReadyNow
  <2> QED BY <1>3, <1>4, <1>6, <2>2, <2>6, <2>7
<1> QED BY <1>5, <1>6

\* remove.
LEMMA RemoveStep ==
    ASSUME IsFiniteSet(Thread), SchedulersHold, remove,
           current_thread \in Range(ReadyNow)
    PROVE  /\ SchedulersHold'
           /\ current_thread \in Thread
           /\ ReadyNow' = RemoveFirst(ReadyNow, current_thread)
<1>1. PICK l : RingHolds(l)
  BY DEF SchedulersHold
<1>2. Circle(ring, l) /\ l \in Seq(Thread) /\ IsInjective(l)
  BY <1>1 DEF RingHolds, Circle
<1>3. ReadyNow = IF which = "rr" THEN l ELSE queue
  BY <1>1, ReadyIs
<1>4. current_thread \in Range(ReadyNow) /\ current_thread' = NULL /\ which' = which
  BY DEF remove
<1>5. CASE which = "rr"
  <2>1. ring' = rr_remove(ring, current_thread) /\ queue' = queue /\ current_thread \in Range(l)
    BY <1>3, <1>4, <1>5 DEF remove
  <2>2. PICK p \in 1 .. Len(l) : current_thread = l[p]
    BY <1>2, <2>1, CircleFacts
  <2>3. current_thread \in Thread
    BY <1>2, <2>2, CircleFacts
  <2> DEFINE m == RemoveAt(l, p)
             v == current_thread
             r == ring
             s == ring'
  <2>4. Circle(s, m)
    <3>1. v = r.head /\ v = r.tail => Len(l) = 1
      <4>1. Len(l) \in Nat /\ Len(l) # 0
        BY <1>2, <2>2, CircleFacts
      <4>2. v = r.head /\ v = r.tail => Len(l) <= 1
        BY <1>1 DEF RingHolds
      <4>3. Len(l) <= 1 => Len(l) = 1
        <5>1. Len(l) \in Nat
          BY <4>1
        <5>2. Len(l) # 0
          BY <4>1
        <5> QED BY ONLY <5>1, <5>2
      <4> QED BY <4>2, <4>3
    <3>2. /\ Circle(r, l) /\ v = l[p]
          /\ s = rr_remove(r, v) /\ m = RemoveAt(l, p)
      BY <1>2, <2>1, <2>2
    <3> HIDE DEF m, r, s, v
    <3> QED BY <3>1, <3>2, RemoveFacts
  <2>5. m = RemoveFirst(l, current_thread)
    BY <1>2, <2>2, RemoveFirstAt
  <2> HIDE DEF m
  <2>6. NULL = s.head => Len(m) <= 1
    <3>1. NULL = s.head => Len(m) = 0
      BY <2>4, CircleFacts
    <3> QED BY <3>1
  <2>7. RingHolds(m)'
    BY <1>4, <1>5, <2>4, <2>6 DEF RingHolds
  <2>8. SchedulersHold'
    BY <1>4, <1>5, <2>1, <2>7 DEF SchedulersHold
  <2>9. ReadyNow' = m
    <3>1. rr_turns(ring') = m
      BY <2>4, TurnsFacts
    <3> QED BY <1>4, <1>5, <3>1 DEF ReadyNow
  <2> QED BY <1>3, <1>4, <1>5, <2>3, <2>5, <2>8, <2>9
<1>6. CASE which # "rr"
  <2>0. which = "user"
    <3>1. queue # <<>>
      <4>1. Range(<<>>) = {}
        BY DEF Range
      <4> QED BY <1>3, <1>4, <1>6, <4>1
    <3> QED BY <3>1 DEF SchedulersHold
  <2>1. ring' = ring /\ current_thread \in Range(queue)
    BY <1>3, <1>4, <1>6 DEF remove
  <2>2. queue' = RemoveFirst(queue, current_thread)
    BY <2>0, SameQueue DEF remove
  <2>3. /\ RemoveFirst(queue, current_thread) \in Seq(Thread) /\ IsInjective(RemoveFirst(queue, current_thread))
        /\ current_thread \in Thread
    <3>1. queue \in Seq(Thread) /\ IsInjective(queue)
      BY DEF SchedulersHold
    <3>2. current_thread \in Thread
      BY <2>1, <3>1, LenProperties, ElementOfSeq DEF Range
    <3> QED BY <3>1, <3>2, RemoveFirstRange
  <2>4. l = <<>>
    BY <1>1, <1>6 DEF RingHolds
  <2>5. RingHolds(l)'
    BY <1>2, <1>4, <1>6, <2>1, <2>4, EmptyFacts DEF RingHolds
  <2>6. SchedulersHold'
    BY <1>4, <2>0, <2>2, <2>3, <2>5 DEF SchedulersHold
  <2>7. ReadyNow' = queue'
    BY <1>4, <2>0 DEF ReadyNow
  <2> QED BY <1>3, <1>4, <1>6, <2>2, <2>3, <2>6, <2>7
<1> QED BY <1>5, <1>6

\* remove, for a thread that the scheduler has lost.
LEMMA RemoveLost ==
    ASSUME IsFiniteSet(Thread), SchedulersHold, remove, ~strayed',
           current_thread \notin Range(ReadyNow)
    PROVE  SchedulersHold' /\ ReadyNow' = ReadyNow
<1>1. PICK l : RingHolds(l)
  BY DEF SchedulersHold
<1>2. Circle(ring, l) /\ (which # "rr" => l = <<>>)
  BY <1>1 DEF RingHolds
<1>3. ReadyNow = IF which = "rr" THEN l ELSE queue
  BY <1>1, ReadyIs
<1>4. current_thread' = NULL /\ which' = which
  BY DEF remove
<1>5. which = "rr" => ring.head = NULL
  BY DEF remove
<1>6. ring' = ring
  <2>1. ring' = IF which = "rr" THEN rr_remove(ring, current_thread) ELSE ring
    BY DEF remove
  <2>2. ring.head = NULL => rr_remove(ring, current_thread) = ring
    BY DEF rr_remove
  <2> QED BY <1>5, <2>1, <2>2
<1>7. queue' = queue
  <2>1. CASE which = "user"
    <3>1. queue' = RemoveFirst(queue, current_thread)
      BY <2>1, SameQueue DEF remove
    <3>2. queue \in Seq(Thread) /\ current_thread \notin Range(queue)
      BY <1>3, <2>1 DEF SchedulersHold
    <3> QED BY <3>1, <3>2, RemoveFirstAbsent
  <2>2. CASE which # "user"
    BY <2>2 DEF remove
  <2> QED BY <2>1, <2>2
<1>8. l = <<>>
  BY <1>2, <1>5, CircleFacts
<1>9. RingHolds(l)'
  BY <1>2, <1>4, <1>6, <1>8, EmptyFacts DEF RingHolds
<1>10. SchedulersHold'
  BY <1>4, <1>7, <1>9 DEF SchedulersHold
<1>11. ReadyNow' = ReadyNow
  BY <1>4, <1>6, <1>7 DEF ReadyNow
<1> QED BY <1>10, <1>11

\* lwp_set_scheduler: the threads and their order are kept, unless NULL is
\* passed while RoundRobin is in use.
LEMMA SetStep ==
    ASSUME IsFiniteSet(Thread), SchedulersHold, NEW fun \in {"rr", "user", "NULL"},
           lwp_set_scheduler(fun)
    PROVE  /\ SchedulersHold'
           /\ \/ ReadyNow' = ReadyNow
              \/ which = "rr" /\ fun = "NULL" /\ ReadyNow' = <<>>
<1>1. PICK l : RingHolds(l)
  BY DEF SchedulersHold
<1>2. Circle(ring, l) /\ l \in Seq(Thread) /\ IsInjective(l) /\ ring \in Rings
  BY <1>1 DEF RingHolds, Circle
<1>3. ReadyNow = IF which = "rr" THEN l ELSE queue
  BY <1>1, ReadyIs
<1>4. queue \in Seq(Thread) /\ IsInjective(queue) /\ (which # "user" => queue = <<>>)
      /\ which \in {"NULL", "rr", "user"} /\ current_thread \in Thread \cup {NULL}
  BY DEF SchedulersHold
<1> DEFINE new == IF fun = "NULL" THEN "rr" ELSE fun
           start == [ring  |-> IF new = "rr" THEN Emptied(ring) ELSE ring,
                     queue |-> IF new = "user" THEN <<>> ELSE queue]
           all == MoveAll(which, start)
           moved == IF which = "NULL" THEN start ELSE all
<1>5. /\ fun # which /\ current_thread' = current_thread /\ which' = new
      /\ ring' = IF which = "rr" THEN Emptied(moved.ring) ELSE moved.ring
      /\ queue' = IF which = "user" THEN <<>> ELSE moved.queue
  <2>1. fifo_init = <<>>
    BY SameQueue
  <2> QED BY <2>1 DEF lwp_set_scheduler
<1>6. Circle(Emptied(ring), <<>>) /\ Emptied(ring) \in Rings
  <2>1. Circle(Emptied(ring), <<>>)
    BY <1>2, EmptyFacts
  <2> QED BY <2>1 DEF Circle
<1>7. all = MoveAll(which, start)
  OBVIOUS
<1> HIDE DEF all
<1>8. CASE which = "NULL"
  <2>1. l = <<>> /\ queue = <<>> /\ ReadyNow = <<>>
    BY <1>1, <1>3, <1>4, <1>8 DEF RingHolds
  <2>2. queue' = <<>> /\ ring' = IF new = "rr" THEN Emptied(ring) ELSE ring
    BY <1>5, <1>8, <2>1
  <2>3. Circle(ring', <<>>)
    BY <1>2, <1>6, <2>1, <2>2
  <2>4. RingHolds(<<>>)'
    BY <2>3, EmptyFacts DEF RingHolds
  <2>5. SchedulersHold'
    BY <1>4, <1>5, <2>2, <2>4, EmptyFacts DEF SchedulersHold
  <2>6. ReadyNow' = <<>>
    <3>1. rr_turns(ring') = <<>>
      BY <2>3, TurnsFacts
    <3> QED BY <1>5, <2>2, <3>1 DEF ReadyNow
  <2> QED BY <2>1, <2>5, <2>6
<1>9. CASE which = "rr" /\ fun = "user"
  <2>1. new = "user" /\ start = [ring |-> ring, queue |-> <<>>]
    BY <1>9
  <2>2. Between("rr", l, 0, start)
    <3>1. start \in Pairs /\ start.ring = ring /\ start.queue = <<>>
      BY <1>2, <2>1, EmptyFacts DEF Pairs
    <3>2. RestOf(l, 0) = l /\ FirstOf(l, 0) = <<>>
      BY <1>2, PartsEnds
    <3> HIDE DEF start
    <3> QED BY <1>2, <3>1, <3>2 DEF Between
  <2>3. Between("rr", l, Len(l), all)
    <3> HIDE DEF start
    <3> QED BY <1>2, <1>7, <1>9, <2>2, MoveAllFacts
  <2>4. all.ring \in Rings /\ all.queue = l
    <3>1. FirstOf(l, Len(l)) = l
      BY <1>2, PartsEnds
    <3> QED BY <2>3, <3>1 DEF Between, Pairs
  <2>5. ring' = Emptied(all.ring) /\ queue' = l /\ which' = "user"
    BY <1>5, <1>9, <2>4
  <2>6. Circle(ring', <<>>)
    BY <2>4, <2>5, EmptyFacts
  <2>7. RingHolds(<<>>)'
    BY <2>6, EmptyFacts DEF RingHolds
  <2>8. SchedulersHold'
    BY <1>2, <1>4, <1>5, <2>5, <2>7 DEF SchedulersHold
  <2>9. ReadyNow' = l
    BY <2>5 DEF ReadyNow
  <2> QED BY <1>3, <1>9, <2>8, <2>9
<1>10. CASE which = "rr" /\ fun # "user"
  <2>1. new = "rr" /\ start = [ring |-> Emptied(ring), queue |-> <<>>] /\ fun = "NULL"
    BY <1>4, <1>5, <1>10
  <2>2. Between("rr", <<>>, 0, start)
    <3>1. start \in Pairs /\ start.ring = Emptied(ring) /\ start.queue = <<>>
      BY <1>6, <2>1, EmptyFacts DEF Pairs
    <3>2. RestOf(<<>>, 0) = <<>> /\ FirstOf(<<>>, 0) = <<>>
      BY EmptyFacts, PartsEnds
    <3> HIDE DEF start
    <3> QED BY <1>6, <3>1, <3>2 DEF Between
  <2>3. Between("rr", <<>>, 0, all)
    <3> DEFINE e == <<>>
    <3>1. e \in Seq(Thread) /\ IsInjective(e) /\ Len(e) = 0 /\ Between("rr", e, 0, start)
      BY <2>2, EmptyFacts
    <3> HIDE DEF start, e
    <3>2. Between("rr", e, Len(e), all)
      BY <1>7, <1>10, <3>1, MoveAllFacts
    <3> QED BY <3>1, <3>2 DEF e
  <2>4. all.ring \in Rings /\ all.queue = <<>>
    <3>1. FirstOf(<<>>, 0) = <<>>
      BY EmptyFacts, PartsEnds
    <3> QED BY <2>3, <3>1 DEF Between, Pairs
  <2>5. ring' = Emptied(all.ring) /\ queue' = <<>> /\ which' = "rr"
    BY <1>5, <1>10, <2>1, <2>4
  <2>6. Circle(ring', <<>>)
    BY <2>4, <2>5, EmptyFacts
  <2>7. RingHolds(<<>>)'
    BY <2>6, EmptyFacts DEF RingHolds
  <2>8. SchedulersHold'
    BY <1>4, <1>5, <2>5, <2>7, EmptyFacts DEF SchedulersHold
  <2>9. ReadyNow' = <<>>
    <3>1. rr_turns(ring') = <<>>
      BY <2>6, TurnsFacts
    <3> QED BY <2>5, <3>1 DEF ReadyNow
  <2> QED BY <1>10, <2>1, <2>8, <2>9
<1>12. PICK Q : Q = queue
  OBVIOUS
<1>11. CASE which = "user"
  <2>1. new = "rr" /\ start = [ring |-> Emptied(ring), queue |-> Q]
    BY <1>5, <1>11, <1>12
  <2>2. Between("user", Q, 0, start)
    <3>1. start \in Pairs /\ start.ring = Emptied(ring) /\ start.queue = Q
      BY <1>4, <1>6, <1>12, <2>1 DEF Pairs
    <3>2. RestOf(Q, 0) = Q /\ FirstOf(Q, 0) = <<>>
      BY <1>4, <1>12, PartsEnds
    <3> HIDE DEF start
    <3> QED BY <1>6, <3>1, <3>2 DEF Between
  <2>3. Between("user", Q, Len(Q), all)
    <3> DEFINE w == which
    <3>1. w = "user" /\ all = MoveAll(w, start)
      BY <1>7, <1>11
    <3> HIDE DEF start, w
    <3> QED BY <1>4, <1>12, <2>2, <3>1, MoveAllFacts
  <2>4. Circle(all.ring, Q) /\ (Len(Q) # 0 => all.ring.tail = Q[Len(Q)])
    <3>1. FirstOf(Q, Len(Q)) = Q
      BY <1>4, <1>12, PartsEnds
    <3> QED BY <2>3, <3>1 DEF Between
  <2>5. ring' = all.ring /\ queue' = <<>> /\ which' = "rr"
    BY <1>5, <1>11, <2>1
  <2>6. ring'.head = ring'.tail => Len(Q) <= 1
    <3>1. Len(Q) \in Nat /\ (Q = <<>> <=> Len(Q) = 0)
          /\ \A i, j \in 1 .. Len(Q) : Q[i] = Q[j] => i = j
      BY <2>4, CircleFacts
    <3>2. CASE Len(Q) = 0
      BY <3>2
    <3>3. CASE Len(Q) # 0
      <4>1. ring'.head = Q[1] /\ ring'.tail = Q[Len(Q)]
        BY <2>4, <2>5, <3>1, <3>3 DEF Circle
      <4>2. 1 \in 1 .. Len(Q) /\ Len(Q) \in 1 .. Len(Q)
        BY <3>1, <3>3
      <4>3. Q[1] = Q[Len(Q)] => 1 = Len(Q)
        BY <3>1, <4>2
      <4>4. 1 = Len(Q) => Len(Q) <= 1
        <5> DEFINE k == Len(Q)
        <5> HIDE DEF k
        <5>1. 1 = k => k <= 1
          OBVIOUS
        <5> QED BY <5>1 DEF k
      <4> QED BY <4>1, <4>3, <4>4
    <3> QED BY <3>2, <3>3
  <2>7. RingHolds(Q)'
    <3>1. Circle(ring', Q)
      BY <2>4, <2>5
    <3> QED BY <2>5, <2>6, <3>1 DEF RingHolds
  <2>8. SchedulersHold'
    BY <1>4, <1>5, <2>5, <2>7, EmptyFacts DEF SchedulersHold
  <2>9. ReadyNow' = Q
    <3>1. rr_turns(ring') = Q
      BY <2>4, <2>5, TurnsFacts
    <3> QED BY <2>5, <3>1 DEF ReadyNow
  <2> QED BY <1>3, <1>11, <1>12, <2>8, <2>9
<1> QED BY <1>4, <1>8, <1>9, <1>10, <1>11

\* What one step does to the order of turns.
TurnsChange ==
    \/ UNCHANGED ReadyNow
    \/ \E t \in Thread :
        \/ t \notin Range(ReadyNow) /\ ReadyNow' = Append(ReadyNow, t)
        \/ t \in Range(ReadyNow) /\ ReadyNow' = RemoveFirst(ReadyNow, t)
        \/ CutOff(t)
    \/ ReadyNow # <<>> /\ ReadyNow' = Append(Tail(ReadyNow), Head(ReadyNow))
    \/ Forgotten

\* The order of turns is a list of threads, each of them on it once.
LEMMA ReadyList ==
    ASSUME IsFiniteSet(Thread), SchedulersHold
    PROVE  ReadyNow \in Seq(Thread) /\ IsInjective(ReadyNow)
<1>1. PICK l : RingHolds(l)
  BY DEF SchedulersHold
<1>2. l \in Seq(Thread) /\ IsInjective(l)
  BY <1>1 DEF RingHolds, Circle
<1> QED BY <1>1, <1>2, ReadyIs DEF SchedulersHold

LEMMA CutOffRange ==
    ASSUME NEW t, NEW S, ReadyNow \in Seq(S), CutOff(t), t \in S
    PROVE  Range(ReadyNow') \subseteq Range(ReadyNow) \cup {t}
<1>1. PICK i \in DOMAIN ReadyNow : ReadyNow' = Append(SubSeq(ReadyNow, 1, i), t)
  BY DEF CutOff
<1> DEFINE q == ReadyNow
           a == FirstOf(q, i)
<1>2. q \in Seq(S) /\ Len(q) \in Nat /\ DOMAIN q = 1 .. Len(q) /\ i \in 1 .. Len(q)
  BY LenProperties
<1>3. ReadyNow' = Append(a, t)
  BY <1>1 DEF FirstOf
<1> HIDE DEF q
<1>4. i \in 0 .. Len(q) /\ \A k \in 1 .. i : k \in DOMAIN q
  <2> DEFINE n == Len(q)
  <2>1. n \in Nat /\ i \in 1 .. n /\ DOMAIN q = 1 .. n
    BY <1>2
  <2> HIDE DEF n
  <2>2. i \in 0 .. n /\ \A k \in 1 .. i : k \in 1 .. n
    BY <2>1
  <2> QED BY <2>1, <2>2 DEF n
<1>5. a \in Seq(S) /\ Len(a) = i /\ \A k \in 1 .. i : a[k] = q[k]
  <2>1. q \in Seq(S) /\ i \in 0 .. Len(q) /\ a = FirstOf(q, i)
    BY <1>2, <1>4
  <2> HIDE DEF a
  <2> QED BY <2>1, FirstFacts
<1>6. DOMAIN a = 1 .. i
  BY <1>5, LenProperties
<1> HIDE DEF a
<1>7. Range(a) \subseteq Range(q)
  BY <1>4, <1>5, <1>6 DEF Range
<1>8. Range(Append(a, t)) = Range(a) \cup {t}
  BY <1>5, AppendRange
<1> QED BY <1>3, <1>7, <1>8 DEF q

\* The invariant is kept by every step of the two schedulers, and the order of
\* turns changes in one of these ways.
LEMMA SetSchedulerSteps ==
    ASSUME IsFiniteSet(Thread), SetSchedulerAssumption,
           SetSchedulerInv, [ChangeNext]_changeVars
    PROVE  SetSchedulerInv' /\ (strayed' \/ TurnsChange)
<1>1. CASE UNCHANGED changeVars
  <2>1. ReadyNow' = ReadyNow
    BY <1>1 DEF changeVars, ReadyNow
  <2> QED BY <1>1, <2>1 DEF changeVars, SetSchedulerInv, SchedulersHold, RingHolds, TurnsChange
<1>2. CASE strayed'
  BY <1>2 DEF SetSchedulerInv
<1>3. CASE ChangeNext /\ ~strayed /\ ~strayed'
  <2>0. SchedulersHold /\ Range(ReadyNow) \subseteq admitted /\ ReadyNow \in Seq(Thread)
        /\ IsInjective(ReadyNow)
    BY <1>3, ReadyList DEF SetSchedulerInv
  <2>1. ASSUME NEW t \in Thread, admit(t) PROVE SetSchedulerInv' /\ TurnsChange
    <3>1. /\ SchedulersHold' /\ t \notin Range(ReadyNow) /\ admitted' = admitted \cup {t}
          /\ ReadyNow' = Append(ReadyNow, t) \/ CutOff(t)
      BY <2>0, <2>1, AdmitStep DEF admit
    <3>2. Range(ReadyNow') \subseteq Range(ReadyNow) \cup {t}
      <4>1. CASE CutOff(t)
        BY <2>0, <4>1, CutOffRange
      <4>2. CASE ReadyNow' = Append(ReadyNow, t)
        <5>1. Range(Append(ReadyNow, t)) = Range(ReadyNow) \cup {t}
          BY <2>0, AppendRange
        <5> QED BY <4>2, <5>1
      <4> QED BY <3>1, <4>1, <4>2
    <3>3. Range(ReadyNow)' = Range(ReadyNow')
      BY DEF Range
    <3> QED BY <2>0, <3>1, <3>2, <3>3 DEF SetSchedulerInv, TurnsChange
  <2>2. ASSUME next PROVE SetSchedulerInv' /\ TurnsChange
    <3>1. /\ SchedulersHold' /\ ReadyNow # <<>> /\ admitted' = admitted
          /\ ReadyNow' = Append(Tail(ReadyNow), Head(ReadyNow))
      BY <2>0, <2>2, NextStep DEF next
    <3>2. /\ Tail(ReadyNow) \in Seq(Thread) /\ Head(ReadyNow) \in Thread
          /\ Range(ReadyNow) = Range(Tail(ReadyNow)) \cup {Head(ReadyNow)}
      BY <2>0, <3>1, TailRange
    <3>3. Range(ReadyNow') = Range(ReadyNow)
      <4> DEFINE a == Tail(ReadyNow)
                 h == Head(ReadyNow)
      <4>1. a \in Seq(Thread) /\ h \in Thread /\ Range(ReadyNow) = Range(a) \cup {h}
        BY <3>2
      <4>2. ReadyNow' = Append(a, h)
        BY <3>1
      <4> HIDE DEF a, h
      <4>3. Range(Append(a, h)) = Range(a) \cup {h}
        BY <4>1, AppendRange
      <4> QED BY <4>1, <4>2, <4>3
    <3>4. Range(ReadyNow)' = Range(ReadyNow')
      BY DEF Range
    <3> QED BY <2>0, <3>1, <3>3, <3>4 DEF SetSchedulerInv, TurnsChange
  <2>3. ASSUME remove PROVE SetSchedulerInv' /\ TurnsChange
    <3>1. admitted' = admitted \ {current_thread}
      BY <2>3 DEF remove
    <3>2. CASE current_thread \in Range(ReadyNow)
      <4>1. /\ SchedulersHold' /\ current_thread \in Thread
            /\ ReadyNow' = RemoveFirst(ReadyNow, current_thread)
        BY <2>0, <2>3, <3>2, RemoveStep
      <4>2. Range(ReadyNow') = Range(ReadyNow) \ {current_thread}
        BY <2>0, <4>1, RemoveFirstRange
      <4>3. Range(ReadyNow)' = Range(ReadyNow')
        BY DEF Range
      <4> QED BY <2>0, <3>1, <3>2, <4>1, <4>2, <4>3 DEF SetSchedulerInv, TurnsChange
    <3>3. CASE current_thread \notin Range(ReadyNow)
      <4>1. SchedulersHold' /\ ReadyNow' = ReadyNow
        BY <1>3, <2>0, <2>3, <3>3, RemoveLost
      <4>2. Range(ReadyNow)' = Range(ReadyNow')
        BY DEF Range
      <4> QED BY <2>0, <3>1, <3>3, <4>1, <4>2 DEF SetSchedulerInv, TurnsChange
    <3> QED BY <3>2, <3>3
  <2>4. ASSUME NEW fun \in Arguments, lwp_set_scheduler(fun)
        PROVE  SetSchedulerInv' /\ TurnsChange
    <3>1. /\ SchedulersHold' /\ admitted' = admitted
          /\ \/ ReadyNow' = ReadyNow
             \/ which = "rr" /\ fun = "NULL" /\ ReadyNow' = <<>>
      BY <2>0, <2>4, SetStep DEF SetSchedulerAssumption, lwp_set_scheduler
    <3>2. Range(<<>>) = {}
      BY DEF Range
    <3>3. Range(ReadyNow)' = Range(ReadyNow')
      BY DEF Range
    <3>4. SetSchedulerInv'
      BY <2>0, <3>1, <3>2, <3>3 DEF SetSchedulerInv
    <3>5. ReadyNow' = ReadyNow \/ Forgotten
      BY <2>4, <3>1 DEF Forgotten
    <3> QED BY <3>4, <3>5 DEF TurnsChange
  <2> QED BY <1>3, <2>1, <2>2, <2>3, <2>4 DEF ChangeNext, Stopped
<1>4. CASE ChangeNext /\ strayed
  BY <1>1, <1>4 DEF ChangeNext, Stopped
<1> QED BY <1>1, <1>2, <1>3, <1>4

\* A circle is linked both ways.
LEMMA CircleLinked ==
    ASSUME IsFiniteSet(Thread), NEW r, NEW l, Circle(r, l)
    PROVE  WellLinked(r)
<1> DEFINE n == Len(l)
           ready == {rr_turns(r)[i] : i \in 1 .. rr_qlen(r)}
<1>1. SUFFICES ASSUME r.head # NULL
               PROVE  /\ r.tail \in ready
                      /\ \A t \in ready : r.one[r.two[t]] = t /\ r.two[r.one[t]] = t
  BY DEF WellLinked
<1>2. l # <<>> /\ n \in Nat /\ DOMAIN l = 1 .. n
  BY <1>1, CircleFacts
<1>3. ready = {l[i] : i \in 1 .. n}
  BY TurnsFacts
<1>4. /\ \A i \in 1 .. n : r.two[l[i]] = l[After(n, i)] /\ r.one[l[i]] = l[Before(n, i)]
      /\ r.tail \in Range(l)
  <2>1. /\ \A i \in 1 .. n :
              /\ r.two[l[i]] = IF i = n THEN l[1] ELSE l[i + 1]
              /\ r.one[l[i]] = IF i = 1 THEN l[n] ELSE l[i - 1]
        /\ r.tail \in Range(l)
    BY <1>2 DEF Circle
  <2> HIDE DEF n
  <2> QED BY <2>1 DEF After, Before
<1> HIDE DEF n, ready
<1>5. r.tail \in ready
  BY <1>2, <1>3, <1>4 DEF Range
<1>6. ASSUME NEW i \in 1 .. n
      PROVE  r.one[r.two[l[i]]] = l[i] /\ r.two[r.one[l[i]]] = l[i]
  <2>1. /\ After(n, i) \in 1 .. n /\ Before(n, After(n, i)) = i
        /\ Before(n, i) \in 1 .. n /\ After(n, Before(n, i)) = i
    BY <1>2 DEF After, Before
  <2> QED BY <1>4, <2>1
<1> QED BY <1>3, <1>5, <1>6

\* Whatever the program passes to lwp_set_scheduler, and whenever threads are
\* admitted, take turns and end: the ring is a circle while it is in use, what
\* is not in use is empty, and the threads with turns to come are admitted
\* ones; until a thread is removed that a late admission had cut off.
THEOREM SetSchedulerInvariant == ChangeSpec => []SetSchedulerInv
<1>1. ChangeInit => SetSchedulerInv
  <2>1. Range(<<>>) = {}
    BY DEF Range
  <2> QED BY <2>1, InitHolds DEF SetSchedulerInv
<1>2. SetSchedulerInv /\ [ChangeNext]_changeVars => SetSchedulerInv'
  BY SetSchedulerSteps, RoundRobinAssumption, SetSchedulerAssumption DEF RoundRobinAssumption
<1> QED BY <1>1, <1>2, PTL DEF ChangeSpec

\* So until then no link lacks its counterpart, the late admissions included,
\* and no thread that was removed gets a turn.
THEOREM SetSchedulerLinked == ChangeSpec => []Linked
<1>1. SetSchedulerInv => Linked
  BY CircleLinked, RoundRobinAssumption
     DEF RoundRobinAssumption, SetSchedulerInv, SchedulersHold, RingHolds, Linked
<1> QED BY <1>1, SetSchedulerInvariant, PTL

\* The promise of struct scheduler, in the words of module ReadyQueue.
LEMMA SamePromise ==
    ASSUME NEW q, NEW t
    PROVE  /\ Promise!fifo_admit(q, t) = Append(q, t)
           /\ Promise!fifo_remove(q, t) = RemoveFirst(q, t)
           /\ q # <<>> => Promise!fifo_advance(q) = Append(Tail(q), Head(q))
           /\ Promise!fifo_init = <<>>
           /\ Promise!Range(q) = Range(q)
<1>1. Promise!RemoveFirst(q, t) = RemoveFirst(q, t)
  BY DEF Promise!RemoveFirst, RemoveFirst, Promise!RemoveAt, RemoveAt,
         Promise!SelectInSeq, SelectInSeq, Promise!Min, Min
<1> QED BY <1>1 DEF Promise!fifo_admit, Promise!fifo_remove,
                    Promise!fifo_advance, Promise!fifo_init,
                    Promise!Range, Range

\* Each change of the order of turns is one of ReadyQueue or a known loss.
LEMMA TurnsRefine ==
    ASSUME TurnsChange
    PROVE  [Promise!Next]_ReadyNow \/ (\E t \in Thread : CutOff(t)) \/ Forgotten
<1>1. ASSUME NEW t \in Thread, t \notin Range(ReadyNow), ReadyNow' = Append(ReadyNow, t)
      PROVE  Promise!Next
  <2>1. Promise!Admitted(t)
    BY <1>1, SamePromise DEF Promise!Admitted
  <2> QED BY <2>1 DEF Promise!Next
<1>2. ASSUME NEW t \in Thread, t \in Range(ReadyNow), ReadyNow' = RemoveFirst(ReadyNow, t)
      PROVE  Promise!Next
  <2>1. Promise!Removed(t)
    BY <1>2, SamePromise DEF Promise!Removed
  <2> QED BY <2>1 DEF Promise!Next
<1>3. ASSUME ReadyNow # <<>>, ReadyNow' = Append(Tail(ReadyNow), Head(ReadyNow))
      PROVE  Promise!Next
  <2>1. Promise!TurnGiven
    BY <1>3, SamePromise DEF Promise!TurnGiven
  <2> QED BY <2>1 DEF Promise!Next
<1> QED BY <1>1, <1>2, <1>3 DEF TurnsChange

\* The ring and the program's queue are together one queue, through any
\* sequence of changes, any late admission and NULL, but for the threads that
\* these two lose.
THEOREM SetSchedulerOneQueue == ChangeSpec => OneQueue
<1>1. ChangeInit => Promise!Init
  BY SamePromise, InitHolds DEF Promise!Init
<1>2. SetSchedulerInv /\ [ChangeNext]_changeVars
          => [\/ strayed'
              \/ [Promise!Next]_ReadyNow
              \/ \E t \in Thread : CutOff(t)
              \/ Forgotten]_changeVars
  BY SetSchedulerSteps, TurnsRefine, RoundRobinAssumption, SetSchedulerAssumption
     DEF RoundRobinAssumption
<1> QED
  BY <1>1, <1>2, SetSchedulerInvariant, PTL DEF ChangeSpec, OneQueue
=============================================================================
