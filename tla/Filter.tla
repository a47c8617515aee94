-------------------------------- MODULE Filter --------------------------------
(***************************************************************************)
(* The filter driver (drivers/filter), with checksums: it passes each      *)
(* request of its callers on to one or two disk drivers, verifies what     *)
(* comes back and retries, restarts and at last drops a driver that gives  *)
(* trouble.                                                                *)
(*                                                                         *)
(* The disk drivers' main loop, RS and DS are not in the repository; they  *)
(* follow the use made of them.  RS gives a driver's new instance the      *)
(* endpoint of the old one, as ds_event expects, so an endpoint is here    *)
(* the label of its driver.                                                *)
(***************************************************************************)
EXTENDS SumLayout, Sequences, FiniteSets

CONSTANTS
    MAIN_LABEL, BACKUP_LABEL,   \* the disk drivers
    NONE,
    Mirroring,      \* the values USE_MIRROR may start with
    NR_RETRIES, NR_RESTARTS,
    Value,          \* what a data sector may hold
    Blank,          \* what all of them hold at first
    Junk,           \* what a rotten sector holds
    Requests,       \* bound: the first sectors and sizes callers ask for
    NrSectors,      \* sectors of each disk
    Crashing,       \* the drivers that may crash
    Slow,           \* the drivers that may be late
    Failing,        \* the drivers that may report errors
    Fragile,        \* the sectors, with their driver, that may rot
    MaxFaults,      \* bound: how often something goes wrong
    MaxRequests     \* bound: how many requests there are

Label == {MAIN_LABEL, BACKUP_LABEL}
Phys == 0 .. NrSectors - 1
Logical == 0 .. convert(NrSectors) - 1

\* The checksums, a sector of them, and any sector.
Sum == {calc_sum(nr, v) : nr \in Logical, v \in Value}
SumSector == [Index -> Sum \cup {Junk}]
Sector == Value \cup {Junk} \cup SumSector

ASSUME FilterAssumption ==
    /\ MAIN_LABEL # BACKUP_LABEL
    /\ NONE \notin Label /\ NONE \notin {"OK", "EIO"}
    /\ \A at \in SUBSET Phys : NONE \notin [at -> Sector]
    /\ NR_RETRIES \in Nat \ {0} /\ NR_RESTARTS \in Nat \ {0}
    /\ NrSectors \in Nat
    /\ Mirroring \subseteq BOOLEAN
    /\ Blank \in Value /\ Junk \notin Value \cup Sum
    /\ \A nr \in Logical : calc_sum(nr, Junk) # Junk
    /\ \A r \in Requests : /\ r[1] \in Nat /\ r[2] \in Nat \ {0}
                           /\ r[1] + r[2] <= convert(NrSectors)
    /\ Crashing \subseteq Label /\ Slow \subseteq Label /\ Failing \subseteq Label
    /\ Fragile \subseteq Label \X Phys
    /\ MaxFaults \in Nat /\ MaxRequests \in Nat

DRIVER_MAIN == "main"
DRIVER_BACKUP == "backup"
Which == {DRIVER_MAIN, DRIVER_BACKUP}

VARIABLES
    disk,           \* what the sectors of the disks hold
    up,             \* the drivers that run
    busy,           \* those at work on a request whose grants are gone
    out,            \* the reply it has sent and the filter has not received
    updated,        \* DS: the drivers whose start the filter has not fetched
    announced,      \* whether a notification of DS, of one start or more, is pending
    amsgtable,
    driver,
    USE_MIRROR,
    pc,
    req,            \* the caller's request
    asked,          \* how many there were
    todo,           \* the reads and writes left of this try at it
    ext,            \* ext_buffer
    await,          \* the drivers the filter waits for, of those it asked
    got,            \* what the drivers put in the buffers they were granted
    failed,         \* those that replied with an error
    r,              \* the reply to the caller
    may,            \* history: what a sector may hold
    faulty,         \* history: the disks that did something wrong
    faults          \* how often

external == <<disk, up, busy, out>>
ds == <<updated, announced>>
request == <<req, asked, todo, ext, r>>
exchange == <<amsgtable, await, got, failed>>
history == <<may, faulty, faults>>
vars == <<external, ds, driver, USE_MIRROR, pc, request, exchange, history>>

IsSum(p) == p % (NR_SUM_SEC + 1) = NR_SUM_SEC
NoRequest == [op |-> "none"]
Io(what, at) == [what |-> what, at |-> at]

Done == [dst |-> NONE, state |-> "done"]

Formatted ==
    [p \in Phys |->
        IF IsSum(p) THEN [i \in Index |-> calc_sum((p \div (NR_SUM_SEC + 1)) * NR_SUM_SEC + i, Blank)]
        ELSE Blank]

\* One or two disks that agree, with drivers that run and are open; the filter
\* has just subscribed to DS.
Init ==
    /\ disk = [l \in Label |-> Formatted]
    /\ up = Label
    /\ busy = {}
    /\ out = [l \in Label |-> NONE]
    /\ updated = Label /\ announced = TRUE
    /\ amsgtable = [w \in Which |-> Done]
    /\ USE_MIRROR \in Mirroring
    /\ driver = [w \in Which |->
                    [label    |-> IF w = DRIVER_MAIN THEN MAIN_LABEL ELSE BACKUP_LABEL,
                     endpt    |-> IF w = DRIVER_MAIN THEN MAIN_LABEL
                                  ELSE IF USE_MIRROR THEN BACKUP_LABEL ELSE NONE,
                     up_event |-> "UP_EXPECTED",
                     problem  |-> "BD_NONE",
                     retries  |-> 0,
                     kills    |-> 0]]
    /\ pc = <<"idle">>
    /\ req = NoRequest /\ asked = 0 /\ todo = <<>> /\ ext = <<>> /\ r = "OK"
    /\ await = {} /\ got = [w \in Which |-> NONE] /\ failed = {}
    /\ may = [nr \in Logical |-> {Blank}]
    /\ faulty = IF USE_MIRROR THEN {} ELSE {BACKUP_LABEL}
    /\ faults = 0

-----------------------------------------------------------------------------
\* The disk drivers, RS and DS.

\* A driver that is free to take a message of amsgtable.
Free(l) == l \in up \ busy /\ out[l] = NONE

Sent(l, w, state) == amsgtable[w] = [dst |-> l, state |-> state]

Reply_to(l, status) == out' = [out EXCEPT ![l] = status]

\* The sectors of driver l's disk, with those in some of the places written.
Written(l, places) ==
    [disk EXCEPT ![l] = [p \in Phys |-> IF p \in places THEN ext[p] ELSE @[p]]]

Writing == Head(todo).what = "FLT_WRITE"

\* It takes a request and does it.
Serve(l, w) ==
    /\ Free(l) /\ Sent(l, w, "valid")
    /\ amsgtable' = [amsgtable EXCEPT ![w] = Done]
    /\ got' = [got EXCEPT ![w] = IF Writing THEN <<>> ELSE Restrict(disk[l], Head(todo).at)]
    /\ disk' = IF Writing THEN Written(l, Head(todo).at) ELSE disk
    /\ Reply_to(l, "OK")
    /\ UNCHANGED <<up, busy, ds, driver, USE_MIRROR, pc, request, await, failed, history>>

\* Without the grants it cannot do it: they have gone while it worked, or
\* before it took the message.
Refuse(l) ==
    /\ \/ /\ l \in busy
          /\ busy' = busy \ {l}
          /\ UNCHANGED amsgtable
       \/ /\ Free(l)
          /\ \E w \in Which : Sent(l, w, "revoked") /\ amsgtable' = [amsgtable EXCEPT ![w] = Done]
          /\ UNCHANGED busy
    /\ Reply_to(l, "EIO")
    /\ UNCHANGED <<disk, up, ds, driver, USE_MIRROR, pc, request, await, got, failed, history>>

\* It takes a request and does not do it all: some of the sectors that are to
\* be written are, from the first on.
Torn(l, w) ==
    /\ Free(l) /\ Sent(l, w, "valid")
    /\ amsgtable' = [amsgtable EXCEPT ![w] = Done]
    /\ IF Writing THEN \E p \in Head(todo).at : disk' = Written(l, {q \in Head(todo).at : q < p})
       ELSE UNCHANGED disk

\* The disks in l are at fault once more.
Blame(l) ==
    /\ faults' = IF l = {} THEN faults ELSE faults + 1
    /\ faults' <= MaxFaults
    /\ faulty' = faulty \cup l

Fail(l) ==
    /\ l \in Failing
    /\ \E w \in Which : Torn(l, w)
    /\ Reply_to(l, "EIO")
    /\ Blame({l})
    /\ UNCHANGED <<up, busy, ds, driver, USE_MIRROR, pc, request, await, got, failed, may>>

Stopped(l) ==
    /\ up' = up \ {l}
    /\ busy' = busy \ {l}
    /\ out' = [out EXCEPT ![l] = NONE]

\* Bound: what becomes of a disk the filter has dropped does not matter.
InUse(l) == \E w \in Which : driver[w].endpt = l

Crash(l) ==
    /\ l \in Crashing \cap up /\ InUse(l)
    /\ (\E w \in Which : Torn(l, w)) \/ UNCHANGED <<disk, amsgtable>>
    /\ Stopped(l)
    /\ Blame({l})
    /\ UNCHANGED <<ds, await, got, failed, driver, USE_MIRROR, pc, request, may>>

\* RS starts a driver again, which tells DS.
Start(l) ==
    /\ l \notin up
    /\ up' = up \cup {l}
    /\ updated' = updated \cup {l} /\ announced' = TRUE
    /\ UNCHANGED <<disk, busy, out, exchange, driver, USE_MIRROR, pc, request, history>>

Rot(l, p) ==
    /\ <<l, p>> \in Fragile /\ InUse(l)
    /\ disk' = [disk EXCEPT ![l][p] = IF IsSum(p) THEN [i \in Index |-> Junk] ELSE Junk]
    /\ disk' # disk
    /\ Blame({l})
    /\ UNCHANGED <<up, busy, out, ds, exchange, driver, USE_MIRROR, pc, request, may>>

External ==
    \E l \in Label :
        \/ \E w \in Which : Serve(l, w)
        \/ Refuse(l) \/ Fail(l) \/ Crash(l) \/ Start(l)
        \/ \E p \in Phys : Rot(l, p)

-----------------------------------------------------------------------------
\* The filter.

\* An event of DS: the driver it is about was started, again if the first
\* event of all has been seen.
ds_event ==
    \E l \in updated :
        /\ updated' = updated \ {l}
        /\ LET known == {w \in Which : driver[w].endpt = l}
               which == IF DRIVER_MAIN \in known THEN DRIVER_MAIN ELSE DRIVER_BACKUP
           IN  driver' = IF known = {} THEN driver
                         ELSE [driver EXCEPT ![which].up_event =
                                 IF @ = "UP_EXPECTED" THEN "UP_NONE" ELSE "UP_PENDING"]

\* A notification comes before all other messages, wherever the filter receives,
\* and the filter fetches one update for it.  DS has one notification pending at
\* most: when two drivers start before the filter receives, the update of one
\* stays behind until the next start.
Event ==
    /\ \/ pc[1] \in {"idle", "wait"}
       \/ pc[1] = "restart" /\ driver[pc[2]].up_event # "UP_PENDING"
    /\ announced /\ announced' = FALSE
    /\ ds_event
    /\ UNCHANGED <<external, exchange, USE_MIRROR, pc, request, history>>

\* No notification is pending; other messages can be received.
Quiet == ~announced

\* The reads and writes of one try at a request, and its buffer at the start.
ReadFirst(at, rest) == IF at = {} THEN rest ELSE <<Io("FLT_READ", at)>> \o rest

transfer(q) ==
    LET at == Extended(q.first, q.n)
    IN  IF q.op = "FLT_READ" THEN <<Io("FLT_READ", at)>>
        ELSE ReadFirst(HeadRead(q.first, q.n), ReadFirst(TailRead(q.first, q.n),
                <<Io("FLT_WRITE", at), Io("FLT_READ2", at)>>))

Transfer(q) ==
    /\ todo' = transfer(q)
    /\ ext' = IF q.op = "FLT_WRITE"
              THEN expand(q.first, q.n, [nr \in Span(q.first, q.n) |-> q.data]) ELSE <<>>
    /\ pc' = <<"send">>

do_rdwt(q) ==
    /\ pc[1] = "idle" /\ Quiet
    /\ req' = q
    /\ asked < MaxRequests /\ asked' = asked + 1
    /\ driver' = [w \in Which |-> [driver[w] EXCEPT !.retries = 0, !.kills = 0]]
    /\ Transfer(q)
    /\ UNCHANGED <<external, ds, exchange, USE_MIRROR, r, history>>

Request ==
    \E s \in Requests, data \in Value, op \in {"FLT_READ", "FLT_WRITE"} :
        /\ (op = "FLT_READ") = (data = Blank)
        /\ do_rdwt([op |-> op, first |-> s[1], n |-> s[2], data |-> data])

bad_driver(d, w, problem) == [d EXCEPT ![w].problem = problem]

check_senda(table, w) == IF table[w].state = "dead" THEN "BD_DEAD" ELSE "BD_PROTO"

\* The grants of the messages in the table go.  A driver may be at work on its
\* message by then.
Revoke(table) ==
    LET valid == {w \in Which : table[w].state = "valid"}
    IN  /\ \E taken \in SUBSET {w \in valid : Free(table[w].dst)} :
            /\ amsgtable' = [w \in Which |->
                                CASE w \in valid \ taken -> [table[w] EXCEPT !.state = "revoked"]
                                  [] w \in taken \/ table[w].state = "dead" -> Done
                                  [] OTHER -> table[w]]
            /\ busy' = busy \cup {table[w].dst : w \in taken}
        /\ await' = {}
        /\ UNCHANGED <<disk, up, out>>

\* A try has failed: the drivers are looked at, the main one first.
Redo(d) ==
    /\ driver' = d
    /\ pc' = <<"check", DRIVER_MAIN, 1>>
    /\ todo' = <<>> /\ ext' = <<>>
    /\ got' = [w \in Which |-> NONE] /\ failed' = {}
    /\ UNCHANGED <<req, asked, r>>

\* The beginning of read_write: the grants and the messages.  A single driver
\* that is known to be dead at once is not waited for.
read_write ==
    /\ pc[1] = "send"
    /\ LET what == Head(todo).what
           sent == IF USE_MIRROR /\ what # "FLT_READ" THEN Which ELSE {DRIVER_MAIN}
           table == [w \in Which |->
                        IF w \in sent
                        THEN [dst   |-> driver[w].endpt,
                              state |-> IF driver[w].endpt \in up THEN "valid" ELSE "dead"]
                        ELSE amsgtable[w]]
       IN  IF sent # Which /\ check_senda(table, DRIVER_MAIN) = "BD_DEAD"
           THEN /\ Revoke(table)
                /\ Redo(bad_driver(driver, DRIVER_MAIN, "BD_DEAD"))
           ELSE /\ amsgtable' = table
                /\ await' = sent
                /\ got' = [w \in Which |-> NONE] /\ failed' = {}
                /\ ext' = IF what = "FLT_WRITE" THEN make_sum(req.first, req.n, ext) ELSE ext
                /\ pc' = <<"wait", sent>>
                /\ UNCHANGED <<external, driver, req, asked, todo, r>>
    /\ UNCHANGED <<ds, USE_MIRROR, history>>

\* A reply that is waited for.  The last one ends the wait.
flt_receive(w) ==
    /\ pc[1] = "wait" /\ Quiet
    /\ w \in await
    /\ driver[w].endpt # NONE /\ out[driver[w].endpt] # NONE
    /\ out' = [out EXCEPT ![driver[w].endpt] = NONE]
    /\ failed' = IF out[driver[w].endpt] = "OK" THEN failed ELSE failed \cup {w}
    /\ await' = await \ {w}
    /\ pc' = IF await' = {} THEN <<"evaluate", pc[2]>> ELSE pc
    /\ UNCHANGED <<disk, up, busy, ds, amsgtable, got, driver, USE_MIRROR, request, history>>

\* Other replies are skipped.
Stray(l) ==
    /\ pc[1] \in {"idle", "wait"} /\ Quiet
    /\ out[l] # NONE
    /\ \A w \in await : driver[w].endpt # l
    /\ out' = [out EXCEPT ![l] = NONE]
    /\ UNCHANGED <<disk, up, busy, ds, exchange, driver, USE_MIRROR, pc, request, history>>

\* The alarm: none of the drivers waited for has replied.  One that has lost
\* the request in a crash cannot, others are late.  The first receive of two
\* blames both.
Pending(w) ==
    LET l == driver[w].endpt
    IN  l \in up /\ (l \in busy \/ amsgtable[w].state = "valid")

Timeout ==
    /\ pc[1] = "wait" /\ Quiet
    /\ \A w \in await : out[driver[w].endpt] = NONE
    /\ LET late == {driver[w].endpt : w \in {v \in await : Pending(v)}}
       IN  /\ late \ faulty \subseteq Slow
           /\ Blame(late)
    /\ Redo([w \in Which |-> IF w \in await
                             THEN [driver[w] EXCEPT !.problem = check_senda(amsgtable, w)] ELSE driver[w]])
    /\ Revoke(amsgtable)
    /\ UNCHANGED <<ds, USE_MIRROR, may>>

\* A driver that replied with an error, or left the grants as they were.
Unserved(w) == w \in failed \/ got[w] = NONE

Next_io(buffer) ==
    /\ todo' = Tail(todo)
    /\ ext' = buffer
    /\ pc' = <<"send">>
    /\ got' = [w \in Which |-> NONE] /\ failed' = {}
    /\ UNCHANGED <<driver, req, asked, r>>

Answer(result, d) ==
    /\ r' = result
    /\ pc' = <<"reply">>
    /\ driver' = d
    /\ got' = [w \in Which |-> NONE] /\ failed' = {}
    /\ todo' = <<>>
    /\ UNCHANGED <<req, asked>>

\* What is done with the replies.  The drivers may still fill the buffers of a
\* request whose reply the filter took from an earlier one, until they are
\* revoked.
Evaluate ==
    LET sent == pc[2]
        io == Head(todo)
        bad(w, problem) == Redo(bad_driver(driver, w, problem))
    IN  /\ pc[1] = "evaluate"
        /\ \/ /\ Unserved(DRIVER_MAIN)
              /\ bad(DRIVER_MAIN, "BD_PROTO")
           \/ /\ ~Unserved(DRIVER_MAIN) /\ DRIVER_BACKUP \in sent /\ Unserved(DRIVER_BACKUP)
              /\ bad(DRIVER_BACKUP, "BD_PROTO")
           \/ /\ \A w \in sent : ~Unserved(w)
              /\ \/ /\ io.what = "FLT_WRITE"
                    /\ Next_io(ext)
                 \/ /\ io.what = "FLT_READ" /\ Len(todo) > 1
                    /\ Next_io([p \in DOMAIN ext \cup io.at |->
                                    IF p \in io.at THEN got[DRIVER_MAIN][p] ELSE ext[p]])
                 \/ /\ io.what = "FLT_READ" /\ Len(todo) = 1
                    /\ IF check_sum(req.first, req.n, got[DRIVER_MAIN])
                       THEN Answer("OK", driver) /\ ext' = got[DRIVER_MAIN]
                       ELSE bad(DRIVER_MAIN, "BD_DATA")
                 \/ /\ io.what = "FLT_READ2"
                    /\ \/ /\ got[DRIVER_MAIN] # ext
                          /\ bad(DRIVER_MAIN, "BD_DATA")
                       \/ /\ got[DRIVER_MAIN] = ext
                          /\ DRIVER_BACKUP \in sent /\ got[DRIVER_BACKUP] # ext
                          /\ bad(DRIVER_BACKUP, "BD_DATA")
                       \/ /\ \A w \in sent : got[w] = ext
                          /\ Answer("OK", driver) /\ UNCHANGED ext
        /\ Revoke(amsgtable)
        /\ UNCHANGED <<ds, USE_MIRROR, history>>

\* Mutant: a write is not tried again once its trouble has been dealt with.
ReturnDone(w) ==
    IF w = DRIVER_MAIN
    THEN pc' = <<"check", DRIVER_BACKUP, 1>> /\ UNCHANGED <<todo, ext>>
    ELSE IF req.op = "FLT_WRITE" THEN pc' = <<"reply">> /\ todo' = <<>> /\ ext' = <<>>
    ELSE Transfer(req)

\* check_driver(w) has returned OK: the other driver is next, and then the
\* request is tried again.
Return(w) ==
    IF w = DRIVER_MAIN
    THEN pc' = <<"check", DRIVER_BACKUP, 1>> /\ UNCHANGED <<todo, ext>>
    ELSE Transfer(req)

\* A new instance that DS knows and the filter does not.
new_driver_ep(w) == driver[w].endpt # driver[w].label

Given(w) == [driver EXCEPT ![w].endpt = driver[w].label, ![w].problem = "BD_NONE"]

\* Whether driver l can be opened: not when it is down, and perhaps not while
\* the filter owes it a receive.
Opens(l) == IF l \notin up THEN {FALSE} ELSE IF out[l] = NONE THEN {TRUE} ELSE BOOLEAN

NoProblem(w) ==
    /\ driver[w].problem = "BD_NONE"
    /\ Return(w)
    /\ UNCHANGED <<external, driver, USE_MIRROR, req, asked, r>>

NewInstance(w) ==
    /\ new_driver_ep(w)
    /\ TRUE \in Opens(driver[w].label)
    /\ driver' = Given(w)
    /\ Return(w)
    /\ UNCHANGED <<external, USE_MIRROR, req, asked, r>>

\* The problem of driver w when no new instance of it opens: in round n of
\* check_driver, which are all alike from the second on.
Problem(w, n) == IF n > 1 \/ new_driver_ep(w) THEN "BD_PROTO" ELSE driver[w].problem

Retry(w, n) ==
    /\ Problem(w, n) # "BD_DEAD"
    /\ driver[w].retries + 1 < NR_RETRIES
    /\ n = 1
    /\ driver' = [Given(w) EXCEPT ![w].retries = @ + 1]
    /\ Return(w)
    /\ UNCHANGED <<external, USE_MIRROR, req, asked, r>>

\* Mutant: a restart is not counted.
KilledUncounted(w) == [Given(w) EXCEPT ![w].retries = 0]

Killed(w) == [Given(w) EXCEPT ![w].retries = 0, ![w].kills = @ + 1]

\* Does RS have to be told?  Not about a dead driver, nor about one that was
\* restarted of its own accord.
tell_rs(w, n) == Problem(w, n) # "BD_DEAD" /\ driver[w].up_event # "UP_PENDING"

\* The beginning of restart_driver.
Restart(w, n) ==
    /\ driver[w].kills + 1 < NR_RESTARTS
    /\ driver' = [Killed(w) EXCEPT ![w].up_event = IF @ = "UP_EXPECTED" THEN "UP_NONE" ELSE @]
    /\ pc' = <<"restart", w>>
    /\ IF tell_rs(w, n)
       THEN Stopped(driver[w].label) /\ UNCHANGED disk
       ELSE UNCHANGED external
    /\ UNCHANGED <<USE_MIRROR, request>>

\* Mutant: it is always the backup that the mirror loses.
DropKeepsMain(w) ==
    /\ driver[w].kills + 1 >= NR_RESTARTS
    /\ USE_MIRROR
    /\ USE_MIRROR' = FALSE
    /\ driver' = [Killed(w) EXCEPT ![DRIVER_BACKUP].endpt = NONE]
    /\ Return(w)
    /\ UNCHANGED <<external, req, asked, r>>

\* The driver has been restarted often enough.  The mirror loses it.
Drop(w) ==
    /\ driver[w].kills + 1 >= NR_RESTARTS
    /\ USE_MIRROR
    /\ USE_MIRROR' = FALSE
    /\ driver' = [[Killed(w) EXCEPT ![DRIVER_MAIN] = IF w = DRIVER_MAIN THEN driver[DRIVER_BACKUP]
                                                     ELSE @]
                     EXCEPT ![DRIVER_BACKUP].endpt = NONE]
    /\ Return(w)
    /\ UNCHANGED <<external, req, asked, r>>

\* Mutant: the request fails although there is a mirror.
GiveUpAnyway(w) ==
    /\ driver[w].kills + 1 >= NR_RESTARTS
    /\ Answer("error", Killed(w))
    /\ ext' = <<>>
    /\ UNCHANGED <<external, USE_MIRROR>>

GiveUp(w) ==
    /\ driver[w].kills + 1 >= NR_RESTARTS
    /\ ~USE_MIRROR
    /\ Answer("error", Killed(w))
    /\ ext' = <<>>
    /\ UNCHANGED <<external, USE_MIRROR>>

\* check_driver, with check_problem.
check_driver(w, n) ==
    /\ pc = <<"check", w, n>>
    /\ \/ n = 1 /\ NoProblem(w)
       \/ /\ n > 1 \/ driver[w].problem # "BD_NONE"
          /\ \/ NewInstance(w)
             \/ /\ new_driver_ep(w) => FALSE \in Opens(driver[w].label)
                /\ \/ Retry(w, n)
                   \/ /\ ~(Problem(w, n) # "BD_DEAD" /\ driver[w].retries + 1 < NR_RETRIES /\ n = 1)
                      /\ Restart(w, n) \/ Drop(w) \/ GiveUp(w)
    /\ got' = [v \in Which |-> NONE] /\ failed' = {}
    /\ UNCHANGED <<ds, amsgtable, await, may, faulty, faults>>

\* The end of restart_driver, and the open of the new instance.
restart_driver(w) ==
    /\ pc = <<"restart", w>>
    /\ driver[w].up_event = "UP_PENDING"
    /\ \E opened \in Opens(driver[w].endpt) :
        IF opened THEN Return(w) ELSE pc' = <<"check", w, 2>> /\ UNCHANGED <<todo, ext>>
    /\ UNCHANGED <<external, ds, exchange, driver, USE_MIRROR, req, asked, r, may, faulty, faults>>

Reply ==
    /\ pc[1] = "reply"
    /\ pc' = <<"idle">>
    /\ may' = [nr \in Logical |->
                IF req.op = "FLT_WRITE" /\ nr \in Span(req.first, req.n)
                THEN IF r = "OK" THEN {req.data} ELSE may[nr] \cup {req.data}
                ELSE may[nr]]
    /\ req' = NoRequest /\ ext' = <<>> /\ r' = "OK"
    /\ UNCHANGED <<external, ds, exchange, driver, USE_MIRROR, asked, todo, faulty, faults>>

Internal ==
    \/ Event \/ read_write \/ Timeout \/ Evaluate \/ Reply
    \/ \E w \in Which : flt_receive(w) \/ restart_driver(w) \/ \E n \in 1 .. 2 : check_driver(w, n)
    \/ \E l \in Label : Stray(l)

Next == External \/ Request \/ Internal

\* The filter goes on; a driver that runs serves what it has taken and takes
\* what it is sent; RS starts what is down.
Fairness ==
    /\ WF_vars(Internal)
    /\ \A l \in Label : /\ WF_vars(Start(l))
                        /\ WF_vars(Refuse(l))
                        /\ WF_vars(\E w \in Which : Serve(l, w))

Spec == Init /\ [][Next]_vars /\ Fairness

-----------------------------------------------------------------------------
\* A read that succeeds returns what was written last and acknowledged, or what
\* a write since then has tried to put there.
ReadsAreRight ==
    pc[1] = "reply" /\ r = "OK" /\ req.op = "FLT_READ" =>
        \A nr \in Span(req.first, req.n) : collapse(req.first, req.n, ext)[nr] \in may[nr]

\* Between requests the disks of a mirror hold the same, but for what rots.
MirrorsAgree ==
    pc[1] = "idle" /\ USE_MIRROR =>
        \A p \in Phys : \A c, b \in Label :
            disk[c][p] # disk[b][p] => \E l \in Label : <<l, p>> \in Fragile

\* With one disk that works all along no request fails, unless there is rot:
\* make_sum may copy a rotten sector of the main disk to the other one.
Masked ==
    pc[1] = "reply" /\ r # "OK" =>
        \/ faulty = Label
        \/ \E l \in Label, p \in Phys : Junk \in IF IsSum(p) THEN Range(disk[l][p]) ELSE {disk[l][p]}

\* A disk that the mirror loses has done something wrong.
DropsFaulty ==
    [][USE_MIRROR /\ ~USE_MIRROR' => Label \ {driver'[DRIVER_MAIN].label} \subseteq faulty]_vars

\* restart_driver waits for the start of a driver that runs already: its update
\* is with DS still, or the filter has fetched it as the first event of all, and
\* no notification is left to tell of it.
Missed ==
    /\ pc[1] = "restart" /\ driver[pc[2]].up_event # "UP_PENDING"
    /\ driver[pc[2]].label \in up /\ Quiet

\* Every request is answered, if one disk works all along and no start is
\* missed.
Answered == pc[1] # "idle" ~> pc[1] = "idle" \/ faulty = Label \/ Missed
=============================================================================
