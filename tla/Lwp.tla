-------------------------------- MODULE Lwp ---------------------------------
(***************************************************************************)
(* The lightweight-process library of src/asn2/lwp.c.  Threads are         *)
(* cooperative: one runs, and it keeps the processor until it calls        *)
(* lwp_yield, lwp_wait or lwp_exit, each of which ends in swap_rfiles.  An *)
(* action is one call, up to the swap; what lwp_wait does after its swap   *)
(* is an action of its own (WaitResumes).                                  *)
(*                                                                         *)
(* The scheduler is the tuple of functions of lwp.h's struct scheduler,    *)
(* here constant operators: the library is checked with the repository's   *)
(* RoundRobin and with a plain queue (module FifoScheduler).               *)
(*                                                                         *)
(* The program on top of it has the form of the repository's tests.  Main  *)
(* creates threads and calls lwp_start; it then calls lwp_wait until it is *)
(* told NO_THREAD and returns (test_lwp.c), or does what other threads do  *)
(* and returns when it likes (test_14.c, test_16.c, test_17.c).  The other *)
(* threads yield a few times and end at any moment.                        *)
(***************************************************************************)
EXTENDS Threads, Naturals, Sequences, SequencesExt, FiniteSets

CONSTANTS
    Main,               \* the thread of main(), tid 1
    MainWaits,          \* TRUE if main waits for the threads, as test_lwp's does
    MayCreate,          \* the threads besides main that call lwp_create
    MayWait,            \* the threads besides main that call lwp_wait
    MaxYields,          \* bound: lwp_yield calls of one thread
    NoSched,            \* the scheduler just initialised
    Admit(_, _),        \* current_scheduler->admit
    RemoveFrom(_, _),   \* current_scheduler->remove
    NextOf(_),          \* the thread current_scheduler->next returns
    Advance(_),         \* the scheduler after that call
    Qlen(_),            \* current_scheduler->qlen
    Turns(_)            \* the ready threads in the order they will run

ASSUME LwpAssumption ==
    /\ Main \in Thread
    /\ NULL \notin Thread
    /\ MainWaits \in BOOLEAN
    /\ MayCreate \subseteq Thread
    /\ MayWait \subseteq Thread
    /\ MaxYields \in Nat

VARIABLES
    sched,          \* current_scheduler's state
    lib,            \* the library's list of threads, head to tail
    waiting,        \* the list of threads blocked in lwp_wait, oldest first
    status,         \* "none" before lwp_create, then LWP_LIVE or LWP_TERM
    exited,         \* the thread a woken waiter was given
    freed,          \* threads whose stack and context have been freed
    current,        \* current_thread
    at,             \* "code", or "wait" for a thread swapped out in lwp_wait
    yields,         \* lwp_yield calls made by a thread
    told,           \* threads whose last lwp_wait returned NO_THREAD
    process         \* "running", or how the process went on or ended

threadVars == <<lib, waiting, status, exited, freed, at, yields, told>>
vars == <<sched, threadVars, current, process>>

-----------------------------------------------------------------------------
Created == {t \in Thread : status[t] # "none"}
Ready == Range(Turns(sched))

Init ==
    /\ sched = NoSched
    /\ lib = <<>>
    /\ waiting = <<>>
    /\ status = [t \in Thread |-> "none"]
    /\ exited = [t \in Thread |-> NULL]
    /\ freed = {}
    /\ current = NULL
    /\ at = [t \in Thread |-> "code"]
    /\ yields = [t \in Thread |-> 0]
    /\ told = {}
    /\ process = "setup"

\* The thread that may call the library now.
Runs(t) == process = "running" /\ current = t /\ at[t] = "code"

\* A main that waits does nothing else until it is told NO_THREAD.
Acts(t) == Runs(t) /\ (t = Main /\ MainWaits => t \in told)

\* lwp_create: main before lwp_start, or a running thread.  (When malloc or
\* mmap fails it returns NO_THREAD and only a tid is used up.)
lwp_create(new) ==
    /\ \/ process = "setup"
       \/ \E t \in MayCreate : Runs(t)
    /\ new # Main
    /\ status[new] = "none"
    /\ status' = [status EXCEPT ![new] = "live"]
    /\ sched' = Admit(sched, new)
    /\ lib' = Append(lib, new)
    /\ UNCHANGED <<waiting, exited, freed, current, at, yields, told, process>>

\* lwp_start: main joins the scheduler, not the library's list.
lwp_start ==
    /\ process = "setup"
    /\ process' = "running"
    /\ status' = [status EXCEPT ![Main] = "live"]
    /\ LET s == Admit(sched, Main)
       IN  /\ current' = NextOf(s)
           /\ sched' = Advance(s)
    /\ UNCHANGED <<lib, waiting, exited, freed, at, yields, told>>

\* Mutant: the last ready thread is taken for none.
YieldWithLast(s) ==
    IF Qlen(s) <= 1
    THEN /\ process' = "shutdown"
         /\ UNCHANGED <<sched, current>>
    ELSE /\ current' = NextOf(s)
         /\ sched' = Advance(s)
         /\ UNCHANGED process

\* The end of lwp_yield, lwp_wait and lwp_exit, called with scheduler s.
YieldWith(s) ==
    IF NextOf(s) = NULL
    THEN /\ process' = "shutdown"           \* exit(LWPTERMSTAT(...))
         /\ sched' = NoSched
         /\ UNCHANGED current
    ELSE /\ current' = NextOf(s)
         /\ sched' = Advance(s)
         /\ UNCHANGED process

lwp_yield(t) ==
    /\ Acts(t)
    /\ yields[t] < MaxYields
    /\ yields' = [yields EXCEPT ![t] = @ + 1]
    /\ YieldWith(sched)
    /\ UNCHANGED <<lib, waiting, status, exited, freed, at, told>>

\* Mutant: a thread ends and stays in the scheduler.
lwp_exitStays(t) ==
    /\ Acts(t)
    /\ status' = [status EXCEPT ![t] = "term"]
    /\ YieldWith(sched)
    /\ UNCHANGED <<lib, waiting, exited, freed, at, yields, told>>

\* Mutant: a thread ends and wakes nobody.
lwp_exitAlone(t) ==
    /\ Acts(t)
    /\ status' = [status EXCEPT ![t] = "term"]
    /\ YieldWith(RemoveFrom(sched, t))
    /\ UNCHANGED <<lib, waiting, exited, freed, at, yields, told>>

\* lwp_exit, called by a thread or by lwp_wrap when its function returns.
lwp_exit(t) ==
    LET s == RemoveFrom(sched, t)
    IN  /\ Acts(t)
        /\ status' = [status EXCEPT ![t] = "term"]
        /\ IF waiting = <<>>
           THEN /\ YieldWith(s)
                /\ UNCHANGED <<waiting, exited>>
           ELSE /\ waiting' = Tail(waiting)
                /\ exited' = [exited EXCEPT ![Head(waiting)] = t]
                /\ YieldWith(Admit(s, Head(waiting)))
        /\ UNCHANGED <<lib, freed, at, yields, told>>

\* Mutant: the freed thread stays on the library's list.
ReapListed(victim) ==
    IF victim \in freed
    THEN /\ process' = "undefined"
         /\ UNCHANGED <<lib, freed>>
    ELSE /\ freed' = freed \cup {victim}
         /\ UNCHANGED <<lib, process>>

\* remove_thread, munmap and free; a second free is undefined behaviour, and
\* the model ends with it.
Reap(victim) ==
    IF victim \in freed
    THEN /\ process' = "undefined"
         /\ UNCHANGED <<lib, freed>>
    ELSE /\ lib' = RemoveFirst(lib, victim)
         /\ freed' = freed \cup {victim}
         /\ UNCHANGED process

Waits(t) == Runs(t) /\ (t \in MayWait \/ (t = Main /\ MainWaits))

\* The places of terminated threads on the library's list.
Finished == {i \in DOMAIN lib : status[lib[i]] = "term"}

\* lwp_wait finds a terminated thread at once.
WaitReaps(t) ==
    /\ Waits(t)
    /\ \E i \in Finished : (\A j \in Finished : i <= j) /\ Reap(lib[i])
    /\ told' = told \ {t}
    /\ UNCHANGED <<sched, waiting, status, exited, current, at, yields>>

\* Mutant: one other ready thread counts for none.
WaitHasNoneEarly(t) ==
    /\ Waits(t)
    /\ Finished = {}
    /\ Qlen(sched) <= 2
    /\ t \notin told
    /\ told' = told \cup {t}
    /\ UNCHANGED <<sched, lib, waiting, status, exited, freed, current, at, yields, process>>

\* lwp_wait returns NO_THREAD: the caller is the last one in the scheduler.
WaitHasNone(t) ==
    /\ Waits(t)
    /\ Finished = {}
    /\ Qlen(sched) <= 1
    /\ t \notin told
    /\ told' = told \cup {t}
    /\ UNCHANGED <<sched, lib, waiting, status, exited, freed, current, at, yields, process>>

\* lwp_wait blocks: the caller leaves the scheduler and another thread runs.
WaitBlocks(t) ==
    /\ Waits(t)
    /\ Finished = {}
    /\ Qlen(sched) > 1
    /\ waiting' = Append(waiting, t)
    /\ at' = [at EXCEPT ![t] = "wait"]
    /\ YieldWith(RemoveFrom(sched, t))
    /\ UNCHANGED <<lib, status, exited, freed, yields, told>>

\* lwp_wait after its lwp_yield: free the thread one was given, if any.
WaitResumes(t) ==
    /\ process = "running"
    /\ current = t
    /\ at[t] = "wait"
    /\ at' = [at EXCEPT ![t] = "code"]
    /\ IF exited[t] = NULL
       THEN /\ told' = told \cup {t}
            /\ UNCHANGED <<lib, freed, process>>
       ELSE /\ Reap(exited[t])
            /\ told' = told \ {t}
    /\ exited' = [exited EXCEPT ![t] = NULL]
    /\ UNCHANGED <<sched, waiting, status, current, yields>>

\* main() returns: one that waits, after lwp_wait has said NO_THREAD.
MainReturns ==
    /\ Acts(Main)
    /\ process' = "returned"
    /\ UNCHANGED <<sched, threadVars, current>>

Ended ==
    /\ process \in {"returned", "shutdown", "undefined"}
    /\ UNCHANGED vars

ThreadStep(t) ==
    \/ lwp_yield(t) \/ lwp_exit(t)
    \/ WaitReaps(t) \/ WaitHasNone(t) \/ WaitBlocks(t) \/ WaitResumes(t)

Next ==
    \/ \E new \in Thread : lwp_create(new)
    \/ lwp_start
    \/ \E t \in Thread : ThreadStep(t)
    \/ MainReturns
    \/ Ended

Spec == Init /\ [][Next]_vars

\* One processor that always runs the current thread; MaxYields makes every
\* thread end, as the loops of the repository's tests do.
FairSpec == Spec /\ WF_vars(Next)

-----------------------------------------------------------------------------
(* Properties.                                                             *)

\* A live thread is ready to run or blocked in lwp_wait, never both and never
\* neither; a terminated one is not.
NoThreadLost ==
    process \in {"setup", "running"} =>
        \A t \in Thread :
            /\ status[t] = "live" => ((t \in Ready) # (t \in Range(waiting)))
            /\ status[t] # "live" => t \notin Ready \cup Range(waiting)

\* No thread is freed twice or while it can still run.  (So long as one thread
\* waits: of two, the one may free what the other was handed at lwp.c:176.)
FreedOnce ==
    /\ process # "undefined"
    /\ \A t \in freed : status[t] = "term" /\ t \notin Ready /\ t # current

\* lwp_wait tells main that no thread is left only when all the threads of
\* the program have ended and been freed.
AllExited ==
    process \in {"returned", "shutdown"} /\ MainWaits =>
        \A t \in Created \ {Main} : t \in freed

\* A ready thread runs again, unless main returns and so ends the process.
ReadyRuns ==
    \A t \in Thread :
        process = "running" /\ t \in Ready ~> current = t \/ process = "returned"

\* A thread that blocks in lwp_wait returns from it.
WaitReturns == \A t \in Thread : at[t] = "wait" ~> at[t] = "code"
=============================================================================
