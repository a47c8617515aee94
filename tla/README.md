# A verification development for CSC_457

The repository holds the five assignments and the labs of an operating-systems course, written
in C, together with the MINIX 3 kernel and driver sources they were built on. This directory
models the parts that have logic of their own, checks them with TLC on small instances, and
proves the most important statements with TLAPS for every value of the constants.

Contents: 1 the system, 2 the plan, 3 the modules and how they correspond to the code, 4 the runs,
5 the proofs, 6 where the code and its words disagree, 7 what is not modelled, 8 how to run it.

## 1. The system

### Parts, state, operations

| Part | Source | State it keeps | Operations | In the project |
|---|---|---|---|---|
| Dining philosophers | `asn3/dine.c`, `dine.h` | a semaphore per fork, `update_phil_lock`, a `struct philosopher` per thread | `dine` (thread body), `update_philosopher`, `print_status` | `Dine`, `DineProofs` |
| LWP library | `asn2/lwp.c`, `lwp.h` | the list of threads (`lib_one/two`), the list of waiting threads, `current_thread`, status and `exited` of each thread | `lwp_create`, `lwp_start`, `lwp_yield`, `lwp_exit`, `lwp_wait`, `lwp_set_scheduler` | `Lwp`, `SetScheduler`, `LwpProofs` |
| LWP scheduler | `asn2/scheduler.c` | `head`, `tail` and the ring through `sched_one/two` | `rr_admit`, `rr_remove`, `rr_next`, `rr_qlen`, `rr_init`, `rr_shutdown` | `RoundRobin`, `LwpProofs` |
| LWP context switch | `asn2/magic64.S` | registers and stacks | `swap_rfiles` | as the end of an action |
| Secret driver | `asn4/secret.c` (an older copy in `drivers/secrets`) | `secret_buffer`, `secret_length`, `secret_owner`, `read_open_count` | open, close, transfer, ioctl, live update, (re)start | `Secret`, `SecretKeeper`, `SecretProofs` |
| Allocator | `asn1/malloc.c` | list of blocks from `head`, the break | `malloc`, `calloc`, `realloc`, `free` | `Malloc`, `MallocProofs` |
| Kernel message passing | `kernel/proc.c`, `kernel/ipc.h` | `p_sendto_e`, `p_getfrom_e`, `p_caller_q`/`p_q_link`, `p_delivermsg`, `MF_*` and `RTS_*` flags, `s_notify_pending`, asynsend tables | SEND, SENDREC, RECEIVE, NOTIFY, SENDA, delivery | `Ipc`, `IpcProofs` |
| Kernel clean-up of processes | `kernel/system.c` | the same fields | `clear_endpoint`, `clear_ipc`, `clear_ipc_refs` | `Ipc!Exit` |
| Kernel scheduling | `kernel/proc.c`, `system.c` | `rdy_head`, `rdy_tail`, `p_nextready`, `proc_ptr`, quanta, `RTS_*`, deferred calls | `enqueue`, `enqueue_head`, `dequeue`, `pick_proc`, `switch_to_user`, `proc_no_time`, `notify_scheduler`, `sched_proc` | `Sched`, `RunQueues`, `Kernel` |
| Kernel interrupts | `kernel/interrupt.c` | hooks per line and their ids, `irq_actids`, the mask of the controller | `put_irq_handler`, `rm_irq_handler`, `irq_handle`, `enable_irq`, `disable_irq` | `Irq`, `Kernel`, `KernelProofs` |
| Filter driver | `drivers/drivers/filter/` | `driver[]` (endpoint, problem, retries, kills, `up_event`), `amsgtable`, grants, `USE_MIRROR`, the buffer with checksums | `do_rdwt`, `transfer`, `read_write`, `flt_receive`, `ds_event`, `check_driver`, `check_problem`, `restart_driver`, `make_sum`, `check_sum` | `SumLayout`, `Filter`, `FilterProofs` |
| Kernel clock, start-up, debugging | `kernel/clock.c`, `main.c`, ... | tick counts, tables | | no |
| minls | `asn5/minls.c` | none between calls: it reads an image | partition tables, superblock, inodes, path look-up, zone listing | no (section 7) |
| pipeit | `Lab1/pipeit.c` | two children, one pipe, one file | `fork`, `pipe`, `exec`, `wait` | no (section 7) |
| Other device drivers | `drivers/` | | | no: MINIX's own, for devices |

### How the parts interact

The assignments are separate programs. `Secret` is a MINIX driver, so its requests reach it
as messages that the kernel passes; its clients see only descriptors. Inside the LWP library
`lwp.c` calls the scheduler through the table of functions `struct scheduler` of `lwp.h`, and any
scheduler of that interface will do. Inside the kernel `system.c` reaches into the queues that
`proc.c` keeps when a process ends, and `proc.c` calls itself (message passing makes processes ready,
the end of a quantum sends a message to the scheduler). An interrupt calls the hooks of its line; the hook
of a driver leaves a bit and notifies the driver, which may preempt whoever runs; the driver serves its
device and opens the line again. The filter is a driver between a file system and one or two
disk drivers: it sends them its requests asynchronously with grants on its buffers, has RS restart a
driver that gives trouble, and learns from events of DS that a driver is up.

### Where it is hard

* *Threads that interleave anywhere*: only `dine.c`. Semaphores order the forks, a second semaphore
  orders the display, and the two are not updated together. Any `sem_wait` may fail, and what
  is done then differs from call to call.
* *Calls that interleave*: the LWP library is cooperative, so what interleaves are whole calls, with
  one exception, the second half of `lwp_wait`, which runs much later than the first.
  The kernel finishes a call before it starts another, so what interleaves are the calls of
  processes, and their exits.
* *Restarts, updates and partial failure*: `secret.c` is updated live, can be given up half way
  through an update, can be restarted while clients keep descriptors, and its copies may fail
  after some of the bytes. `malloc.c` can be refused memory at any call of `sbrk`.
* *Linked structures that several operations edit*: the ring of the scheduler, the caller and ready
  queues of the kernel, the list of blocks.
* *Preemption in the middle of a kernel call*: a call that wakes a process of a higher priority takes the
  caller off its ready list while it goes on working on the caller's behalf.
* *Interrupts shared by drivers* that disable, enable, set and remove their hooks in any order, and are busy
  with something else when the interrupt comes.
* *Drivers that fail under the filter*: a crash in the middle of a write, an error, a late reply to a request
  that was given up, a reply of a previous request, a rotten sector, two drivers at once, and a
  restart that comes by itself before it is asked for.

### What makes each part correct

* Dining: a fork is in one hand; the asymmetric order does not deadlock at any table; what the
  display says of an eating philosopher is true; the program ends.
* LWP: a live thread is either ready or waiting; a terminated one is freed once; `lwp_wait` says
  `NO_THREAD` only at the end; the scheduler behaves as a queue, and changing it loses nobody.
* Secret: what is read is what one write stored; only the owner reads; the secret goes with the last
  reader; an update adds nothing to a secret.
* Allocator: blocks tile the heap; a block has one owner; free neighbours merge.
* Message passing: queues and flags agree; nobody waits for what is already there, in a
  circle, or for a dead process; a request is answered by the process that was asked; no message
  is overwritten.
* Scheduling: the ready lists hold the runnable processes; whoever runs is the first of the first list and
  has time left; a preempted process keeps its place; a process whose quantum is over gets another.
* Interrupts: a line is open exactly while no driver on it is at work; a driver at work knows it; a
  device that asks is served.
* Filter: what is read is what was written; the disks of a mirror agree; one working disk is enough; only a
  disk at fault is dropped; every request is answered; the checksum layout has no overlaps and a
  write no gaps.

The hazards, each at its line and with the properties that watch it, are listed in `PROJECT.json`;
further ones that no run reaches are in sections 6 and 7.

## 2. The plan

Done, in the order in which it was done:

1. `Dine` and `DineProofs`: the only truly concurrent program.
2. `RoundRobin`, `FifoScheduler`, `ReadyQueue`, `Lwp`, `SetScheduler`: the library, its scheduler, and what
   the two promise each other. `ReadyQueue` is the abstract scheduler; `SetScheduler` implements it.
3. `SecretKeeper`, `Secret`, `SecretProofs`: abstract device, driver, refinement, proof of it.
4. `Malloc`.
5. `Ipc` and `IpcProofs`.
6. `Irq`: the hooks of a line by themselves, with `LineOpen` proved (now in `KernelProofs`).
7. `RunQueues`, `Sched`, `Kernel`, `KernelProofs`: the ready lists and preemption; what they promise as an
   abstract specification; both halves of the kernel composed, with liveness from a device's interrupt to
   its service and from the end of a quantum to the next.
8. `SumLayout`, `Filter`: the filter with its drivers, RS and DS as a fault model, and the arithmetic of its
   layout proved.

9. `QueueLemmas`, the rest of `IpcProofs`, and `LwpProofs`: what a scheduler has to promise, and that the
   library keeps its own promises on any scheduler that does.
10. `MallocProofs`: `Tiles`, `OneOwner` and `Coalesced`, with the call of `malloc` as one lemma.
11. `FilterProofs`: the safety of `Filter` (`ReadsAreRight`, `MirrorsAgree`, `Masked`, `DropsFaulty`) on the
    lemmas about the layout.
12. The rest of `KernelProofs`: `ListsMatch`, `RunsInTurn` and `ActiveIsKnown`, with what each operation on the
    process table does as a lemma of its own.
13. The second part of `LwpProofs`: the ring as a circle, `Linked` and `OneQueue` of `SetScheduler`.

What could follow, most important first:

14. The refinement of `RunQueues` by the ready lists, proved as it is checked now.
15. A specification `Rendezvous` above `Ipc`: each message is in one place (wanted, queued, delivered) and moves
    forward only; `Ipc` implements it.
16. Allocation failures in `Lwp` (`add_thread_waiting`).
17. `Minls`: addresses as pure operators (partition, zone, indirect zone) against a reference definition
    over small images, and the path walk; `PipeIt`: two forks of which either may fail.

## 3. The modules

Names of definitions are those of the source wherever there is one; `PROJECT.json` gives for
each the lines it stands for. A definition whose comment begins with "Mutant" is not part of the
model: it is a plausible mistake in the definition after it, kept to show that the properties notice.

### Dine

One process per thread. `pc[p]` is the statement of `dine()` about to run, `phase[p]` the
place within `update_philosopher`. A cycle is: decide, wait for the first fork, show it, wait for
the second, show both, eat, put down, post the first, show, post the second, show, think. Both
branches of `dine()` have this shape; `First` and `Second` say which fork is which and `Shown`
which literal arguments the branch passes.

| Code | Definition |
|---|---|
| loop head and return of `dine` | `Loop` |
| `sem_wait` on a fork, as it succeeds / fails | `TakeFirst`, `TakeSecond` / `WaitFails` |
| `sem_post` | `GiveFirst`, `GiveSecond` |
| `update_philosopher`: wait, clear the neighbours, write one's own fields, print and post | `LockUpdate` or `LockFails`, `ClearNeighbours`, `ShowOwn` |
| `pthread_join` in `main` | `AllJoined` |

`LockFails` is the wait on `update_phil_lock` whose result nobody looks at: the thread enters without
the lock and posts it all the same. Whose waits may fail is the constant `MayInterrupt`. Two
steps in the critical section are enough to interleave two threads that are inside
together; printing has no effect and is left out, as is the time spent in `dawdle`.

### Threads, RoundRobin, FifoScheduler, ReadyQueue, Lwp, SetScheduler

`RoundRobin` is `scheduler.c` as operators on a record with the two static pointers and the two
link fields of every thread, statement for statement: the tail that stays behind when
`rr_next` moves the head is there, and so is the stale link of a thread that was cut out.
`FifoScheduler` is the interface of `lwp.h` as a queue, and `ReadyQueue` the same as a
specification: a thread is admitted, gets its turn, or is removed. `Threads` declares what the library and its
scheduler both have, the threads and the null pointer.

`Lwp` is `lwp.c` over any scheduler, whose operations are constant operators. An action is one call
up to `swap_rfiles`.

| Code | Definition |
|---|---|
| `lwp_create`, `lwp_start` | the same names |
| `lwp_yield`; its tail, shared by all swaps | `lwp_yield`; `YieldWith` |
| `lwp_exit`, `lwp_wrap`, waking the oldest waiter | `lwp_exit` |
| `lwp_wait` that finds a terminated thread / nobody left / blocks / goes on after its swap | `WaitReaps` / `WaitHasNone` / `WaitBlocks` / `WaitResumes` |
| `remove_thread`, `munmap`, `free` | `Reap`; a second free of a thread ends the model in `"undefined"` |
| return of `main` | `MainReturns` |

The program that calls the library is part of the model, with the form of the repository's tests: a main
that waits for everybody (`MainWaits`), threads that create threads (`MayCreate`) and threads that wait
themselves (`MayWait`). A list is a sequence; `lib_one`/`lib_two` and the links of the waiting list are not
kept one by one, as `remove_thread` looks along the list from its head. Thread ids, stacks, registers and
exit codes are left out.

`SetScheduler` has both schedulers side by side and `lwp_set_scheduler` with its loop that moves
the threads one by one (`MoveOne`, `MoveAll`). Between changes the scheduler in use is called as the rest
of `lwp.c` calls it: a thread is admitted at any moment, after the first turn too, and the running thread
is removed. RoundRobin cuts threads off when it is admitted to late, and `lwp.c` does not notice; so the
history variable `admitted` keeps what the callers know, and a thread that was cut off can still be the
running one and be removed. After such a removal the ring need not lead back to its head (the loop of
`rr_qlen` need not end): `strayed` records it and the model stops there (`Stopped`). The refinement
mapping to `ReadyQueue` is `turns <- ReadyNow`, the turns of whichever scheduler is in use; a change must be
a stutter. `OneQueue` is this refinement with the two ways in which threads are lost written out:
`CutOff`, where a late admission drops just the threads between the tail and the head, and
`Forgotten`, where NULL is passed for the RoundRobin in use.

### Secret and SecretKeeper

The driver serves one request at a time, so a request is one action. Its four static variables
are variables of the module. Descriptors are the file system's (external): an accepted open
makes one, its close reaches `secret_close`, a read moves its position. A payload is one value that a
write repeats over its bytes, enough to tell two writes, or a write and a cleared buffer, apart.

| Code | Definition |
|---|---|
| `secret_open` with its chain of tests | `SecretOpen`, `Refuses` |
| `secret_close`, with and without credentials | `SecretClose`, `CountDown`, `ResetDriver`, `CloseFails` |
| `secret_transfer`, and a copy that fails half way | `Read`, `Write`, `WriteFails` |
| `secret_ioctl` | `Grant` |
| `sef_cb_lu_state_save`, `sef_cb_init` after an update, `sef_cb_init` otherwise | `StateSave`, `InitUpdated`, `Restart` |
| an update that is given up after the save | `UpdateAbandoned` |

Unsigned arithmetic is kept (`ReadBytes` wraps at `Word`). The data store is external. The driver passes it,
as the room there is, a length it has not set, and looks at no result (`secret.c:256`-`271`); so
`InitUpdated` brings over any number of the first bytes of the buffer (`Retrieved`), the rest of the new
instance's buffer being clear, while length and owner, which are single words, are assumed to arrive.
`intact` is history: how many bytes of the secret are still there. `SecretKeeper` is what remains when
descriptors, lengths and counters are forgotten: a place that is free or belongs to one user and holds one
message or nothing, the message as it was put in or with a lost end. The mapping is `holder <- secret_owner`
and `kept <-` the stored bytes; failed copies are stutters, a live update is a stutter or `CutShort`, a
restart is `Forget`.

### Malloc

The list is a sequence of blocks with addresses, so that gaps and overlaps can be seen; a variable of the
client owns a pointer and the size it asked for. `malloc` gives the set of everything the call may come to,
`sbrk` refusing at any of its calls. `Rounds` unfolds the recursion of the code, which is never deeper than
two. `free` is given any address within a block, which the code supports. The ways of `realloc` are four
actions in the order in which the code tries them. Contents are left out.

### Ipc

Processes and tasks (`Source`), privileges as constants, one action per call and outcome.

| Code | Definition |
|---|---|
| `WILLRECEIVE`, `P_BLOCKEDON`, `deadlock` | `WILLRECEIVE`, `BlockedOn`, `deadlock` over `Reaches` |
| `mini_send` | `SendHands`, `SendBlocks`, `AssertFails` over `Queues` |
| `mini_receive`, `try_async`, `try_one` | `Receive`, `mini_receive` with `TakesNotification`, `TakesAsyn`, `TakesSender`, `Blocks`, `SourceDead` |
| SENDREC in `do_sync_ipc` | `SendrecHands`, `SendrecBlocks`, `SendrecFails` |
| `mini_notify` | `Notify` |
| `mini_senda` | `Senda` |
| copying out in `switch_to_user` | `Deliver` |
| `clear_endpoint` | `Exit` |

A field that is only read under a flag is merged with it: `sendto[p]` is `p_sendto_e` while
`RTS_SENDING` is set and `NONE` otherwise, `getfrom[p]` likewise, and the chain of a caller queue is
the sequence `callers[p]`. The links that a process keeps after it was woken by somebody's exit are the
set `linked`, for the sake of the assertion that looks at them. `deadlock` follows a chain of
pointers; `Reaches` says the same without recursion (every set closed under the chain that holds
the first process holds the last), which is what lets it be reasoned about. The scan of
the notification bits by chunks is kept, because it matters which bit is looked at; so is the order of
privilege ids. A table of SENDA is a set of entries; of two entries for
one destination either may be taken.

### Irq

`interrupt.c`, one action per function. Several hooks share a line; each has a bit of its own in
`irq_actids`, which is set from the interrupt until its driver enables it again.

| Code | Definition |
|---|---|
| `put_irq_handler`, `rm_irq_handler`, `enable_irq`, `disable_irq` | the same names |
| `irq_handle` | `irq_handle`, with `done` the hooks whose handler returned TRUE |
| unmasking when no bit is left | `OpenIfIdle` |

The list of a line is a set, because its order decides nothing here. `put_irq_handler` takes the lowest free
identifier; when there is none the kernel panics, and the action has no step. That a hook is removed,
enabled and disabled only while it is set (`IrqNext`) is the drivers' side of the contract.

### Sched, RunQueues, Kernel

`Sched` has the process table as one record `k`, and an operator with the name of a C function maps the
table before a call to the table after it. That is how nested calls compose as they do in the code: a message
wakes a process, `enqueue` takes the running one off its list, and `mini_send` goes on working on behalf of the
process that has just been preempted. The ready lists are the pointers `rdy_head`, `rdy_tail` and `p_nextready`.

| Code | Definition |
|---|---|
| `enqueue`, `enqueue_head`, `dequeue`, `pick_proc` | the same names |
| `RTS_SET`, `RTS_UNSET` | the same names |
| `switch_to_user`: requeueing and choosing / deferred calls and the look at the quantum | `PickNew` (`Requeue`) / `Check` (`TimeCheck`) |
| `context_stop`, the clock's interrupt | `Charged`, `Tick` |
| `proc_no_time`, `notify_scheduler`, `sched_proc` | the same names |
| a message call; a traced one that is stopped and deferred | `Call` |
| an answer, a notification of HARDWARE | `Answer`, `Reply`; `Notify` |
| the scheduler in user space: a new quantum / a better queue | `Schedule` / `Balance` |
| kernel calls that stop and continue a process | `Stop`, `Continue` |

Message passing is reduced to what moves processes on and off the lists: servers receive from anybody, the
others call servers with SENDREC and are answered. `STOPPED` stands for all the flags others set and clear
(signals, tracing, page faults, VM requests).

`RunQueues` is the promise: a queue for each priority, nobody overtaken, only one process moved at a time
and never the running one, the first of the first queue to run. The refinement mapping puts a process that
was preempted with time left at the head of its queue, where `switch_to_user` will put it: being preempted
is not a step of `RunQueues`.

`Kernel` composes `Sched` and `Irq`. An interrupt (`Irq(l)`) calls the hooks of the line one after the
other, in any order; each leaves a bit and notifies its driver, and the notification may preempt. The driver
receives the bits, serves its device and enables its hook (`Serve`), or sets, removes, disables and enables
hooks between two messages. The handler of drivers' hooks and `do_irqctl` are not in the repository and are
modelled from the use made of them.

### SumLayout and Filter

`SumLayout` is the arithmetic of `sum.c`: where a sector and its checksum lie (`LOG2PHYS`, `SEC2SUM_NR`),
what a write has to read before it can compute the checksums of the groups at its ends (`HeadRead`,
`TailRead`), `expand`, `collapse`, `make_sum`, `check_sum` and the size the filter offers (`convert`). A
checksum is the pair of what it is computed from: it has no collisions.

`Filter` is the driver, with the disk drivers, RS and DS around it as external actions.

| Code | Definition |
|---|---|
| `do_rdwt` with its loop | `do_rdwt`, `Transfer`, `Return`, `Reply` |
| `transfer` of `sum.c`: reads, the write, the read that verifies it | `transfer` |
| `read_write`, `make_sum` before a write | `read_write`, `Next_io`, `Evaluate` |
| `flt_senda`, `check_senda` | `read_write`; `check_senda` over `amsgtable` |
| `flt_receive`, replies nobody waits for, the alarm | `flt_receive`, `Stray`, `Timeout` |
| revoking the grants | `Revoke` |
| a notification of DS and its one `ds_check`, in the main loop, in `flt_receive` and in `restart_driver` | `Event` (`ds_event`), `Quiet` |
| `check_driver`, `check_problem`, `new_driver_ep` | `check_driver` with `NoProblem`, `NewInstance`, `Retry`, `Restart`, `Drop`, `GiveUp` |
| `restart_driver` | `Restart` up to its wait, `restart_driver` after it |

Faults: a driver crashes, before or in the middle of a write (`Crash`, `Torn`); reports an error (`Fail`);
is late, so that the alarm comes first and its reply later (`Timeout`, `Refuse`); a sector rots (`Rot`). A
driver that took a message before the grants were revoked is `busy` and answers later with an error, which
is the late reply that may meet a later request. Assumed of the parts that are not in the repository: RS
gives a new instance the endpoint of the old one, as `ds_event` expects; a revoked grant cannot be used; the
two labels differ. DS notifies at each start, but the kernel keeps one bit for it, `announced`: two starts
before the filter receives are one notification. The filter fetches one update for it, either of the two,
and the other stays in `updated` until DS notifies again. Requests do not reach past the end of the disk.
Only the configuration with checksums is modelled: without them the filter cannot tell rot from data.

`may`, `faulty` and `faults` are history: what a sector may hold after the writes so far, which disks have
done something wrong, and how often. `MCFilterRestart` adds the history variable `fresh`, the drivers of
which RS has started an instance that `restart_driver` has not yet returned for.

### Modules of proofs

`DineProofs`, `SecretProofs`, `IpcProofs`, `LwpProofs`, `KernelProofs`, `MallocProofs` and `FilterProofs`
extend the module they are about (`KernelProofs` with it `Irq`, `FilterProofs` with it `SumLayout`).
`LwpProofs` extends `Lwp` and `SetScheduler`, whose names differ for that reason (`ChangeNext`, `ChangeSpec`).
`QueueLemmas` has what they need to know of sequences without
repetition, of their beginnings and ends, of least elements and of recursive functions.

## 4. The runs

| Run | States | Instance | What it shows |
|---|---|---|---|
| `dine_table` | 193,782 | 3 philosophers, 1 cycle, the waits of philosopher 0 may fail | forks are exclusive and 'Eat' is true even with failing waits and a broken display lock; no deadlock and termination until a thread takes a fork with it |
| `lwp_fifo_main` | 12,860 | main and 4 threads that create each other, 1 yield each | on a scheduler that keeps its promise the library loses, leaks and double-frees nobody; waits return |
| `lwp_rr_lost` | violation | main and 3 threads, 2 yields each | on the repository's scheduler `lwp_wait` says `NO_THREAD` too early |
| `set_scheduler_both` | 779,129 | 4 threads, admissions and changes at any moment, NULL too | ring and queue are one `ReadyQueue` through any sequence of changes, but for the threads that a late admission or NULL loses; links stay whole until a lost thread is removed |
| `secret_keeper` | 609,844 | 2 users, 2 descriptors, 2 payloads, 2 bytes, updates that bring over 0 to 2 of them | the driver implements `SecretKeeper`; a read from within the secret returns nothing else |
| `secret_close` | violation | the same without failures | a secret is reset under an open reader |
| `malloc_forward` | 55,707 | 3 pointers, 5 sizes, heap of two chunks and a large block | tiling, ownership and merging, `realloc` never expanding backwards |
| `malloc_back` | violation | `realloc` as it is | it returns a free block |
| `ipc_calls` | 260,032 | 3 processes, 1 task, 2 chunks of 2 bits, one process may exit | the nine properties of message passing |
| `kernel_all` | 78,579 | 2 drivers on one line, one of them with `IRQ_REENABLE`, the scheduler, a process of the scheduler's and a traced one of the kernel's, 3 priorities | the ready lists implement `RunQueues`, the line is open exactly when it should be, devices are served and processes get new quanta |
| `filter_faults` | 507,585 | 2 disks of 2 groups, 2 requests, 2 faults at any moment, with and without a mirror | reads are right, mirrors agree, one good disk is enough, only bad disks are dropped, every request is answered unless a start is missed |
| `filter_restart` | violation | 1 disk that crashes | from the second restart on the filter does not wait for the new instance |

Bounds, and why they are enough:

* Three philosophers are the smallest table with two even neighbours (0 and 2), the case in which the
  order of forks is not alternating; with one cycle every pair of statements of two threads can
  meet, and a second cycle starts from the state in which the first did. The proofs cover all tables.
* Four threads are enough for two that lie between the tail and the head of the ring, for a waiter, and for one
  that ends. One yield lets any thread be anywhere when another ends.
* Two descriptors are the least that differ in mode or owner; `MaxPos` is one more than the
  secret, so that a position can be beyond its end; `MaxRequest` is one more than the buffer. `MaxCount`
  stops opens whose count is never taken down again (after a grant).
* `Limit` in `malloc_forward` leaves room for two chunks and one large block; sizes are chosen
  to fit exactly, to leave too little for a header, to need a second chunk and to fit nowhere.
* Three processes are the smallest circle that is not the meeting of two. Identifiers fill two
  chunks so that one process can have two notifications in one chunk and one in the other. Each
  call is made by at least one process and the roles overlap so that any two may meet; `MaxAsyn` 2 allows
  two entries, to one destination or to two.
* In `kernel_all` the levels are chosen so that a driver preempts everybody, the scheduled process moves
  between the list of the traced one and one of its own, and the other driver (`e`) cannot be preempted
  although others are before it. `Traced` and `Restless` name the processes and hooks that are also stopped
  before each call, or disabled and removed, and `Metered` those whose quantum (one tick) is followed: one
  of each is enough for the others to meet it in every state, and more only multiply the states. One hook
  has `IRQ_REENABLE` and one does not, so that both ways of opening the line meet on it.
* In `filter_faults` a group has two sectors; the requests are one that fills the head of the first group
  and one that spans the end of the first and the start of the second, so that both kinds of preliminary
  read occur. Two faults are enough for one disk to fail during the recovery from its own failure, and for
  both to fail; `NR_RETRIES` and `NR_RESTARTS` of two let each be tried and used up. Main may be late and
  crash, backup may report errors. An update is missed already at the start, when both drivers have
  announced themselves and the filter has not yet received: one notification, two updates.

Fairness:

* `Dine`: weak fairness of every thread's own steps, the least a POSIX scheduler gives; nothing is assumed
  of the order in which a semaphore serves the threads that wait. That this is enough for termination rests
  on the finite number of cycles.
* `Lwp`: weak fairness of `Next` as a whole: there is one processor and it does not stop; who runs is the
  scheduler's doing.
* `Kernel`: the kernel leaves whenever it was entered; a server that runs again and again waits for a
  message again and again; a process of the kernel's that runs again and again makes a call, and a scheduled
  one uses up its quantum; a line that is open again and again to a device that asks lets an interrupt pass.
  All of it is strong, as others take the processor in between, and none of it says *who* gets the
  processor: that the scheduler's message is dealt with and the driver is chosen is what the run shows.
* `Filter`: the filter goes on (weak fairness of `Internal`), a driver that runs takes what it is sent and
  answers, RS starts what is down.

The other specifications are about safety and state no fairness.

`CHECK_DEADLOCK FALSE` stands in `dine_table`, where a thread that returned with a fork in hand may stop the
others; in `malloc_back`, where a crash ends the program; in `kernel_all`, where all may be idle before any
hook is set, with no interrupt to come; and in `filter_faults` and `filter_restart`, where the bound on
requests ends the run.

Every property of a passing run has a mutant in `PROJECT.json`: a plausible mistake in one mapped
definition under which TLC finds the property violated.

## 5. The proofs

**Dine** (`DineProofs`, any table, any number of cycles).

* `ForksExclusive`: the invariant is `Exclusive`, which ties the value of each semaphore to the threads
  whose `pc` says they hold the fork, with `TwoForks` (a thread that has its second fork sits at a table
  where the two differ). Failing waits are included.
* `NeighboursExclusive` follows: two neighbours that hold both forks would share one.
* `EatShownIsTrue`: the invariant adds where a thread may be while its state says 'Eat'; a thread leaves that
  region only by `ShowOwn` with another state. It does not need the display lock.
* `ForkShownOnce` and `NoDeadlock` assume `MayInterrupt = {}`; the second also `N >= 2`. The argument: if
  nobody can go on, the display lock is free, so everyone waits for a fork. A thread at its second wait
  faces a neighbour that holds the fork as *its* second or its first; `SecondWaitChain` and `EndsOfTable`
  show that a fork is one philosopher's first and another's second only between seats N - 1 and 0, so the
  chain of waits cannot close: it ends at a thread that holds two forks and can go on.

**Secret** (`SecretProofs`, any buffer size, users, descriptors).

* The invariant is `TypeOK /\ Stored /\ CountedHasOwner /\ SavedIsDriver`. `Stored` says that the buffer below
  `secret_length` is one payload up to `intact` and clear from there. The last one, that while an update is
  under way what was published is what the old instance holds, is what makes `InitUpdated` at most cut the
  secret short.
* `OnePayloadAlways` says of every read that starts within the secret, by any descriptor and of any size,
  that all it returns lies within the secret and comes from one write, but for an end that live updates have
  cleared: `ReadWithin` shows that the unsigned difference does not wrap there. Reads from beyond the
  secret are not covered, since they do return other bytes (section 6).
* `Implementation`: `Spec => Keeper!Spec`. Each action maps to one of `SecretKeeper`'s or to no step. Assumed
  besides `SecretAssumption` is `NothingIsNoMessage`: the value that stands for an empty place is no message.
* `ReaderOwns` is an action property from the same invariant.

**Ipc** (`IpcProofs`, any processes, tasks, privileges).

* `TypeCorrect` first, since all the rest uses it.
* The calls are many and long, and only four variables matter to the queues and the waits.
  Lemma `Effects` shows that every step does one of five things to them: it takes waits away (`Eases`), puts one
  process on one queue (`Joins`), takes one off (`Frees`), makes one process wait to receive
  (`Waits`), or is an exit. One lemma per effect shows that it keeps the invariant.
* The invariant is `TypeOK`, `QueuesMatch`, `SameTarget`, `NoSenderMissed`, `NobodyWaitsForDead`,
  `NoCircle`. `SameTarget` is the strengthening: a process that is blocked on both halves of a SENDREC waits
  for one process, so whoever takes it off the queue is the one it goes on to wait for.
* `NoGroupLocked`: `FewerWaits` (removing waits makes no circle) and `OneMoreWait` (a new wait for `x` makes
  none if the chain from `x` does not come back). The latter turns the set that witnesses `~Reaches` into a
  smaller circle without the new wait. The two exceptions in `deadlock`, a send that meets a receive, are
  where `NoSenderMissed` and `Places = {}` are needed: the two would have met.
* `NoMessageLost` is inductive by itself.
* `AsynFound`, `NotificationsFound` and `CalleeAnswers` have an invariant of their own, `WInv`: while a
  process waits, no table holds an entry it would take and, if it waits for anybody, no notification is
  pending; and the flag of a process in `asynmsg` is set while any table has an entry for it. A receive
  looks at everything before it blocks (`ReceiveHears`), and what comes later is delivered to whoever waits
  (`SendaHears`, `NotifyHears`).

All of this assumes `IpcAssumption`, in particular that nobody is allowed to send to itself, and that no process
receives from itself (section 6).

**Lwp** (`LwpProofs`, any number of threads, any scheduler with `KeepsPromise`).

* `KeepsPromise(S)` says of a set `S` of scheduler states what `lwp.h` says of the functions: `admit` adds,
  `remove` removes, `next` chooses a ready thread and loses none, `qlen` tells one from many.
  `QueueKeepsPromise` shows that a queue does. The repository's RoundRobin does not, which is the run
  `lwp_rr_lost`; so the fault is the scheduler's alone.
* `NothingLost`, whatever the program does: the invariant `LInv` says that the waiting list holds each
  thread once, that those on it are in `lwp_wait` and have been given nobody, and that whoever runs is
  ready.
* `NoDoubleFree` needs `OneWaiter`, at most one thread that calls `lwp_wait`. With two it is false
  (section 6). The invariant adds that what was given is terminated and not freed, and that nothing freed is
  on the library's list.
* `MainCollectsAll` needs that main alone waits and does not create threads once the library runs. The
  invariant (`AInv`) adds that a thread that was created is listed or freed, so that with an empty list,
  nobody ready and nobody waiting, all are freed.
* `OnAQueue` puts the three together for the scheduler of the run `lwp_fifo_main`.

**RoundRobin and SetScheduler** (`LwpProofs`, second part, any finite number of threads).

* `Circle(r, l)` says that the ring `r` holds the threads of the sequence `l` in this order from its head, each
  linked to the next and the previous one, the last to the first, with the tail somewhere among them (which is
  all that holds once `rr_next` has moved the head). `TurnsFacts`: the walk of `rr_qlen` along such a ring
  meets the threads of `l`, once each.
* What each function does to a circle: `AdvanceFacts` (`rr_next` turns `l`), `RemoveFacts` (`rr_remove` takes
  the thread out), `AdmitFacts` (`rr_admit` puts the new thread behind the tail and closes the circle there).
  What is delicate in `scheduler.c` is where the tail is. An admission appends while the tail is the last of
  `l`, that is before the first turn; later the threads behind the tail drop out of the circle, and what is
  left of it, with the new thread, is a circle again (`CircleChain`, `AdmitStep`). A removal of a thread that
  is head and tail empties the ring, whoever else is on it.
* So the invariant, `SetSchedulerInv`, says besides the circle that the running thread, the only one that is
  ever removed, is at both ends of the ring only if it is alone. This holds because `rr_next` moves the head
  on from the thread it returns, and is the strengthening: without it `Linked` is not inductive. It also says
  that the scheduler that is not in use is empty, and that the threads with turns to come are admitted ones.
  It claims nothing once `strayed`: a thread that was cut off still has links into the ring, and its removal
  follows them. With the ring empty or the queue in use the removal changes nothing (`RemoveLost`).
* `lwp_set_scheduler` moves the threads one by one. `Between` says what holds after `i` rounds: the first `i`
  threads are on the new scheduler in their order, the others on the old one. `MoveAllFacts` takes it to the
  end of the loop by `Recursion`.
* `SetSchedulerLinked` and `SetSchedulerOneQueue` hold whatever is passed to `lwp_set_scheduler` and whenever a
  thread is admitted. The second says of every step that it is one of `ReadyQueue`, or no step of it, or loses
  threads in one of the two ways, or sets `strayed`. Assumed are `RoundRobinAssumption`, that the threads
  are finitely many, and `SetSchedulerAssumption`, which arguments there are; the first part of the module uses
  neither.

**Irq and Kernel** (`KernelProofs`, any hooks, lines, processes).

* `LinesOpen`: that a line's mask follows from its active bits holds only because these belong to its hooks,
  each with its own; `HooksApart` is the strengthening, and its hard case is a new hook that takes over the
  identifier of one removed while active.
* `KernelLinesOpen`: every step of `Kernel` is a step of `Irq` or leaves it alone (`KStep`), which needs
  that a driver remembers a disabled hook only while it is set (`OffRegistered`).
* `KernelOrder` is the invariant of the rest, `KOrder`. `Sound(k)` is what every operation on the table keeps:
  its type (`Table`); each ready list is a path of `p_nextready` from `rdy_head` to `rdy_tail` that meets the
  runnable processes of its priority, each once (`Listed`); whoever runs and may go on is at the head of its
  list, and if it can be preempted all lists of higher priority are empty (`Turn`); and what messages may hold
  (`Msgs`): a process that waits for one has none, only interrupts bring bits, and only the scheduler's
  processes report the end of a quantum. `Place` says what the kernel has made sure of at each stage of
  `switch_to_user`. `Turn` is the strengthening without which the others are not inductive: `dequeue` and
  `enqueue_head` of the running process, in the middle of its own call, meet it at the head of its list, and
  nowhere else.
* Lists are changed by four lemmas about sequences (`CutQueue`, `JoinTail`, `JoinHead`, `OtherQueue`). Above
  them one lemma for each operation says what it does to any sound table (`SetFacts`, `UnsetFacts`,
  `SendFacts`, `ReceiveFacts`, `NotifyFacts`, `SchedFacts`, `RequeueFacts`, `PickFacts`...), since the
  operations nest as they do in the code; and one for each action puts these together. The walk along a list
  and the handlers of an interrupt are recursive functions of a bounded argument: `Walked` and `Recursion` say
  what they yield, by the least argument at which they would not.
* `KernelListsMatch` and `KernelRunsInTurn` follow from `KOrder`. `KernelActiveIsKnown` is inductive with it
  (`Ack`): every operation keeps what a driver knows (`Keeps`) until it serves the hook, and an interrupt
  tells the driver of every hook of its line, waiting or not. That an enabled or removed hook clears its own
  bit and no other needs `HooksApart`.
* Assumed (`SchedAssumption`, `KernelAssumption`): processes and hooks are finitely many, everybody is in the boot
  image, the roles are among the processes, only servers are called.

**Malloc** (`MallocProofs`, any sizes, alignment, limit of the heap, number of pointers).

* The invariant (`HeapInv`) says that the blocks lie end to end on the grid of the alignment up to the break
  (`Tiled`), that no two neighbours are free (`Merged`), and that the memory of the allocated blocks and the
  memory the variables own correspond one to one (`Owns`). All of it is about sequences in which one block is
  split in two, two are joined, or the last one grows; `SplitFacts`, `JoinedFacts` and `ExtendedFacts` say
  what the new heap covers and gives out.
* `malloc` retries after it has extended the heap: `MallocFacts` says of the whole call, through any number of
  rounds and with `sbrk` failing in any, that it changes nothing that was given out, and that what it gives
  is free memory of at least the size asked for. `free`, `calloc` and `realloc` rest on it.
* The theorems have the hypothesis `~MayExpandBack`, that no `realloc` comes to expand a block backwards:
  with it `OneOwner` is false (section 6, 3). `MallocAssumption` keeps requests away from the
  sizes whose rounding wraps (`malloc.c:42`), for which it is false as well.

**SumLayout and Filter** (`FilterProofs`, any disks, requests, faults, retries and restarts).

* Layout: `SectorsApart`, `OnDisk` (sectors and checksums share no place, and none lies beyond the end of the
  disk); `SumsMatch`, `OthersKept`, `NothingUnread` (what `make_sum` writes passes `check_sum`, changes no other
  sector or checksum, and contains nothing that was neither in the request nor read before, at any
  alignment); `CollapseExpand` (data goes out as it came in).
* Control (`FilterControl`): the table of messages, the drivers waited for, the results and what is left of the
  request fit together. This is where late replies are excluded: a message that is under way belongs
  to the operation the filter waits for, since the grants of all others are gone (`Exchange`).
* Contents (`FilterContents`): every checksum on a disk in use, in a buffer and in what has been read is one of
  data the sector may hold, the write under way included, or rotten. A write may be torn between a sector and
  its checksum, so this is said of checksums alone; that data matches is what `check_sum` finds out. Hence
  `ReadsRight`.
* `MirrorsAlike` needs one more invariant (`Agree`): outside the sectors that are being written, and those that
  may rot, the disks of a mirror are equal.
* Faults (`FilterFaults`): a driver that has done nothing wrong answers what it was asked (`Trusty`), and
  runs (`Awake`), unless it is the only one left and shows rot that was copied to it (`Alone`): the filter
  may then have had it restarted for that, and waits for no answer of it while it is down. Its disk shows
  data with its checksum at every sector, or rot, in the middle of a write too (`Whole`). It has on its disk
  what the buffer holds after a write (`Exact`, `Copied`), and shows the same data and checksum for a sector
  as any other place that holds it (`Same`). So a driver the filter suspects has done something wrong
  (`Suspects`), or is the only one left and shows rot that a write copied from the other. `LosesFaulty` and
  `FaultsMasked` follow.
* `FilterAssumption` says that rot is recognisable: a rotten sector is no data, a rotten checksum is nothing's
  checksum, and rotten data does not have a rotten checksum. Checksums have no collisions (`calc_sum`).

Where a proof needs the least of a set of numbers (the first place of a thread in a list) it comes from
`LeastNat` of `QueueLemmas`, which is drawn from the library's theorem on well-founded orders; the library's
own induction theorems take an operator, which the provers cannot instantiate. A loop of bounded length is a
recursive function in the model; `Recursion` says that such a function satisfies its equation, and
an invariant of the loop is then proved from the least argument at which it would fail.

Some theorems state what no run checks, because it follows from or supports one that is checked: the types
of `Dine` and `Secret`, `NeighboursExclusive`, `ReaderOwns`, and the arithmetic of `SumLayout`.

Only checked: everything temporal (`Termination`, `ReadyRuns`, `WaitReturns`, `Rescheduled`, `DeviceServed`,
`Answered`), which rests on fairness, and that the ready lists implement `RunQueues`.

## 6. Where the code and its words disagree

Shown by a run (details in `PROJECT.json`, "findings"):

1. `asn2/scheduler.c:68`: `rr_next` leaves `tail` behind; an admit after the first turn cuts threads off.
2. `asn4/secret.c:106`: the close of a write descriptor counts as the close of a read descriptor.
3. `asn1/malloc.c:306`: `realloc` backwards returns a free block, with the data elsewhere; for the last block it
   follows a NULL (line 308).
4. `drivers/drivers/filter/driver.c:365`: nothing sets `up_event` back from `UP_PENDING`. From the second
   restart of a driver on, RS is not told and the filter does not wait for the new instance, although line
   418 says "Block until the new instance is up".

Met while modelling, without a run of their own:

* *Dine.* After giving back its right fork an even philosopher shows the right flag raised and the left one
  down, and wipes its right neighbour's display (`dine.c:171`); `Shown` has the arguments as they are, and
  the properties about the display are those that hold nevertheless. With `NUM_PHILOSOPHERS` 1 a philosopher
  waits for the fork it holds.
* *LWP.* With two threads in `lwp_wait`, a terminated thread is given to a waiter (`lwp.c:176`) and is still
  on the library's list when another `lwp_wait` finds it (`lwp.c:302`). The thread is freed twice: `FreedOnce`
  fails as soon as `MayWait` is not empty, which is why it is proved for one waiter only and the runs have
  one. `lwp_set_scheduler(NULL)` while RoundRobin is in use empties the ring, because the test for "no change"
  compares the argument (`lwp.c:322`); `Forgotten` makes the exception. A thread that was cut off by a late
  admission and is removed later takes its old neighbours' links with it (`scheduler.c:36`), after which the
  ring may no longer lead back to its head and `rr_qlen` not end; `SetScheduler` stops there.
  `add_thread_waiting` that gets no memory leaves its thread on no list (`lwp.c:421`). `getrlimit`'s return
  code is taken for the limit (`lwp.c:60`), and after a failed `mmap` an uninitialised stack pointer is
  unmapped (`lwp.c:92`).
* *Secret.* The first open takes the device before any test (`secret.c:72`), so it may open for reading and
  writing at once, which line 79 refuses to others. A grant moves the owner and not the count (`:227`); a
  live update forgets the count (`:256`); a write descriptor that outlives a reset stores a secret without
  an owner (`:201`), which a later visitor then owns. A position beyond the length, which a descriptor keeps
  over a reset, makes the unsigned difference of `:151` wrap, and the read returns bytes of the buffer
  behind the secret, or behind the buffer: `OnePayload` is about positions within the secret. The results of
  the calls to the data store are ignored and the lengths passed to it are not set (`:256`-`:271`), so an
  update may bring over less than the secret and still report its length. A write reports 0 bytes, since the
  size of the request is left as it was.
* *Malloc.* Sizes within 15 of `SIZE_MAX` round to 0 (`malloc.c:42`). The merges assume that nobody else
  calls `sbrk` (`:118`); `align_heap` would make a block of negative size if somebody did (`:156`).
* *Ipc.* A pending notification from the requested source is missed behind a lower one of its chunk
  (`proc.c:667`), so `NoNotificationMissed` is about a receive from anybody. `clear_ipc` leaves `p_q_link`
  behind (`system.c:603`), and an assertion of `mini_send` (`proc.c:607`) fails when the process sends
  again; the model ends there (`AssertFails`). A receive from oneself blocks for ever, and a later caller of
  `deadlock` that follows the chain to such a process goes round inside the kernel without end
  (`proc.c:762`, `:474`); `Receive` leaves the case out. `MF_REPLY_PEND` stays set after a SENDREC that
  failed and after a reply that came by SENDA (`proc.c:349`). A table entry whose copy fails is done while
  its receiver goes on waiting (`proc.c:987`). `fill_sendto_mask` (`system.c:347`) shifts by the number of a
  process; the privilege masks are constants here.
* *Sched.* `sched_proc` accepts a priority one past the last queue (`system.c:644`). The comment at
  `proc.c:206` says that a process out of time has no message to send; a traced one of the scheduler's may
  have, because its deferred call can block it in the same pass, and both would use `p_sendmsg`. The traced
  process of the instance is therefore the kernel's. `notify_scheduler` panics when its message is refused
  (`proc.c:1435`): a dead scheduler, or one that waits for the process.
* *Filter.* `make_sum` copies the checksums of sectors outside the request from the main disk to the backup
  (`sum.c:262`): one that has rotted goes to the mirror as well, although `main.c:4` promises detection and
  recovery; `Masked` makes the exception. A disk that is enabled again when the filter restarts is not
  brought up to date (`driver.c:388`). A new endpoint after a restart is never learnt by `restart_driver`
  (`driver.c:445`). A notification handles one update of DS (`driver.c:1011`), however many there are: one
  may stay with DS, and `restart_driver`, which fetches only when notified, waits for the start of a driver
  that runs (`driver.c:454`), for ever unless another driver starts. One disk at fault is enough, although
  line 418 says "Block until the new instance is up"; `Answered` makes the exception `Missed`. `driver_init`
  waits for drivers (`driver.c:160`) before `main` subscribes to DS (`main.c:473`). `strncmp` is given the
  size of a pointer (`driver.c:1024`). Buffers are not freed on two error returns (`sum.c:357`, `:562`), and
  a request of no bytes underflows (`sum.c:453`).
* *Not modelled.* `minls` uses the partition number unchecked (`minls.c:72`), ignores short reads of the
  subpartition table and of the superblock (`:86`, `:104`) and lists only the first block of a zone
  (`:213`). `pipeit` leaves its first child behind when the second fork fails (`pipeit.c:61`).

## 7. What is not modelled, and why

* Most of the repository by size: some 170,000 lines under `drivers/` are MINIX's own drivers, unchanged.
  Most of them are register sequences for one device each, whose other half, the device, is described
  nowhere in the repository, and so is the driver library (`libdriver`, `libnetdriver`) that calls them: a
  model would state the driver's assumptions about its device and check them against themselves. The filter
  is the exception, since its counterparts are other drivers, and it is modelled. The share of the lines
  that the models stand for is small for this reason. `drivers/secrets/secret.c` is an earlier version of
  `asn4/secret.c`.
* `kernel/`: start-up, tables, debugging, profiling and the clock's accounting carry no state that another
  part's correctness rests on. Address translation and page faults need the memory manager, which is not in the
  repository. `kernel_copy/` is the same code with object files and a printf.
* In `Ipc`: system-call tracing, `MF_SIG_DELAY`, messages of the kernel on behalf of a process, and user
  processes, which share one privilege structure and so cannot be notified or send asynchronously. In
  `Sched`: the circle test and the other calls, which are in `Ipc`; several processors. The two are not
  composed, because the states of the one multiply those of the other and they meet only in the flags
  `RTS_SENDING` and `RTS_RECEIVING`, which `Sched` has.
* In `Filter`: the configurations without checksums or without their layout, `nosumerr` and `chunk`; the
  opening of partitions and the size.
* `minls` and `pipeit`: short sequential programs. What can go wrong in them is at their boundaries (sizes,
  short reads, failed calls; section 6), and tests reach it.
* In `Lwp`: stacks, register files and `magic64.S`; a swap is the end of an action.
* Message contents, the bytes of a secret beyond their origin, printed text.
* Timing: `dawdle`, lengths of quanta, ticks.

## 8. Running it

    tlc -config Dine_table.cfg Dine            # and so on: module and cfg of each run in PROJECT.json
    tlapm QueueLemmas.tla
    tlapm DineProofs.tla                       # and LwpProofs, SecretProofs, IpcProofs
    tlapm KernelProofs.tla                     # and MallocProofs, FilterProofs

The longest runs, `Kernel_all.cfg` with `MCKernel`, `SetScheduler_both.cfg` and `Filter_faults.cfg` with
`MCFilter`, take between one and three minutes each with two workers, the longest proof (`KernelProofs`)
about seven.
