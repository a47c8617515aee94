------------------------------- MODULE Secret -------------------------------
(***************************************************************************)
(* The MINIX driver of src/asn4/secret.c: /dev/Secret holds one secret for *)
(* one owner.  The driver is one process that serves one request at a      *)
(* time, so a request is one step; what interleaves are the descriptors of *)
(* its clients, live updates and restarts of the driver.                   *)
(*                                                                         *)
(* The driver's four variables are modelled as they are.  The descriptors  *)
(* belong to the file system (external): an open that the driver accepts   *)
(* makes one, its last close reaches secret_close, and it keeps a position *)
(* that a read moves by what was read.  A write moves nothing, because     *)
(* secret_transfer leaves iov_size as it was.  The data store (external)   *)
(* keeps what was published, but hands out as much of it as it is asked    *)
(* for, and the driver asks for an amount it has not set.                  *)
(***************************************************************************)
EXTENDS Integers

CONSTANTS
    Users,          \* user ids
    Fds,            \* descriptors that may be open on the device
    Payloads,       \* what one write carries, whatever its length
    NoOwner,        \* the -1 of secret_owner
    Zero,           \* a byte of cleared buffer
    Nothing,        \* what an empty SecretKeeper holds
    SECRET_SIZE,
    Word,           \* number of values of an unsigned long
    MaxRequest,     \* longest read or write a client asks for
    MaxPos,         \* bound: reads beyond this position are not explored
    MaxCount,       \* bound: opens that are counted and not counted down
    MayGrant, MayFail, MayUpdate, MayRestart

ASSUME SecretAssumption ==
    /\ NoOwner \notin Users
    /\ Payloads # {}
    /\ Zero \notin Payloads
    /\ SECRET_SIZE \in Nat \ {0}
    /\ Word \in Nat
    /\ MaxRequest \in Nat
    /\ MaxPos \in Nat
    /\ MaxCount \in Nat
    /\ SECRET_SIZE + MaxPos + MaxRequest < Word
    /\ {MayGrant, MayFail, MayUpdate, MayRestart} \subseteq BOOLEAN

ASSUME NothingIsNoMessage ==
    \A n \in 1 .. SECRET_SIZE : Nothing \notin [0 .. n - 1 -> Payloads \cup {Zero}]

VARIABLES
    secret_buffer, secret_length, secret_owner, read_open_count,
    fds,            \* the descriptors clients have
    saved,          \* what the data store keeps for a live update
    updating,       \* TRUE from the state save to the new instance's start
    intact          \* history: the bytes of a secret that live updates have left

driver == <<secret_buffer, secret_length, secret_owner, read_open_count, intact>>
vars == <<driver, fds, saved, updating>>

Cell == 0 .. SECRET_SIZE - 1
Cleared == [i \in Cell |-> Zero]
Modes == SUBSET {"R", "W"} \ {{}}
NotOpen == [user |-> NoOwner, mode |-> {}, pos |-> 0]

Open(f) == fds[f].mode # {}
Readable(f) == "R" \in fds[f].mode

-----------------------------------------------------------------------------
(* secret_open.                                                            *)

\* The chain of tests, none of which is made while there is no owner.
Refuses(u, mode) ==
    /\ secret_owner # NoOwner
    /\ \/ u # secret_owner /\ "R" \in mode
       \/ mode = {"R", "W"}
       \/ "W" \in mode /\ secret_length > 0

SecretOpen(f, u, mode) ==
    /\ ~updating
    /\ ~Open(f)
    /\ ~Refuses(u, mode)
    /\ "R" \in mode => read_open_count < MaxCount
    /\ secret_owner' = IF secret_owner = NoOwner THEN u ELSE secret_owner
    /\ read_open_count' = read_open_count + (IF "R" \in mode THEN 1 ELSE 0)
    /\ fds' = [fds EXCEPT ![f] = [user |-> u, mode |-> mode, pos |-> 0]]
    /\ UNCHANGED <<secret_buffer, secret_length, saved, updating, intact>>

-----------------------------------------------------------------------------
(* secret_close.                                                           *)

ResetDriver ==
    /\ secret_length' = 0
    /\ secret_owner' = NoOwner
    /\ secret_buffer' = Cleared
    /\ intact' = SECRET_SIZE

\* Mutant: the count is forgotten, the owner with it, the secret is not.
CountDownDropsOwner(u) ==
    IF u = secret_owner /\ read_open_count > 0
    THEN /\ read_open_count' = read_open_count - 1
         /\ IF read_open_count = 1
            THEN ResetDriver
            ELSE secret_owner' = NoOwner /\ UNCHANGED <<secret_buffer, secret_length, intact>>
    ELSE UNCHANGED driver

CountDown(u) ==
    IF u = secret_owner /\ read_open_count > 0
    THEN /\ read_open_count' = read_open_count - 1
         /\ IF read_open_count = 1
            THEN ResetDriver
            ELSE UNCHANGED <<secret_buffer, secret_length, secret_owner, intact>>
    ELSE UNCHANGED driver

SecretClose(f) ==
    /\ ~updating
    /\ Open(f)
    /\ CountDown(fds[f].user)
    /\ fds' = [fds EXCEPT ![f] = NotOpen]
    /\ UNCHANGED <<saved, updating>>

\* getnucred does not answer: the driver returns at once, the descriptor is
\* gone all the same.
CloseFails(f) ==
    /\ MayFail
    /\ ~updating
    /\ Open(f)
    /\ fds' = [fds EXCEPT ![f] = NotOpen]
    /\ UNCHANGED <<driver, saved, updating>>

-----------------------------------------------------------------------------
(* secret_transfer and secret_ioctl.                                       *)

\* bytes of a read: int minus unsigned long is unsigned long.
ReadBytes(pos, size) ==
    LET left == (secret_length - pos) % Word
    IN  IF left < size THEN left ELSE size

\* DEV_GATHER_S; when the copy fails or nothing is asked, nothing changes.
Read(f, size) ==
    /\ ~updating
    /\ Readable(f)
    /\ fds[f].pos + ReadBytes(fds[f].pos, size) <= MaxPos
    /\ fds' = [fds EXCEPT ![f].pos = @ + ReadBytes(@, size)]
    /\ UNCHANGED <<driver, saved, updating>>

Smaller(a, b) == IF a < b THEN a ELSE b

\* The first n bytes of the buffer come from payload p.
Filled(p, n) == [i \in Cell |-> IF i < n THEN p ELSE secret_buffer[i]]

\* Mutant: a second write goes over the first.
WriteOver(f, size, p) ==
    LET bytes == Smaller(size, SECRET_SIZE)
    IN  /\ ~updating
        /\ "W" \in fds[f].mode
        /\ secret_buffer' = Filled(p, bytes)
        /\ secret_length' = bytes
        /\ intact' = SECRET_SIZE
        /\ UNCHANGED <<secret_owner, read_open_count, fds, saved, updating>>

\* DEV_SCATTER_S.  Where it starts is not looked at.
Write(f, size, p) ==
    LET bytes == Smaller(size, SECRET_SIZE)
    IN  /\ ~updating
        /\ "W" \in fds[f].mode
        /\ secret_length = 0
        /\ secret_buffer' = Filled(p, bytes)
        /\ secret_length' = bytes
        /\ intact' = SECRET_SIZE
        /\ UNCHANGED <<secret_owner, read_open_count, fds, saved, updating>>

\* Mutant: the length is set before the copy is known to be good.
WriteFailsLate(f, size, p, copied) ==
    /\ MayFail
    /\ ~updating
    /\ "W" \in fds[f].mode
    /\ secret_length = 0
    /\ copied < Smaller(size, SECRET_SIZE)
    /\ secret_buffer' = Filled(p, copied)
    /\ secret_length' = Smaller(size, SECRET_SIZE)
    /\ UNCHANGED <<secret_owner, read_open_count, fds, saved, updating, intact>>

\* sys_safecopyfrom fails, before or after some bytes arrived.
WriteFails(f, size, p, copied) ==
    /\ MayFail
    /\ ~updating
    /\ "W" \in fds[f].mode
    /\ secret_length = 0
    /\ copied < Smaller(size, SECRET_SIZE)
    /\ secret_buffer' = Filled(p, copied)
    /\ UNCHANGED <<secret_length, secret_owner, read_open_count, fds, saved, updating, intact>>

\* SSGRANT, through any descriptor; without an owner it is refused.
Grant(f, u) ==
    /\ MayGrant
    /\ ~updating
    /\ Open(f)
    /\ secret_owner # NoOwner
    /\ secret_owner' = u
    /\ UNCHANGED <<secret_buffer, secret_length, read_open_count, fds, saved, updating, intact>>

-----------------------------------------------------------------------------
(* Live update and restart.                                                *)

\* Mutant: what an earlier, abandoned update published is left in place.
StateSaveKeepsOld ==
    /\ MayUpdate
    /\ ~updating
    /\ saved' = IF saved.length > 0 THEN saved
                ELSE [buffer |-> secret_buffer, length |-> secret_length,
                      owner |-> secret_owner]
    /\ updating' = TRUE
    /\ UNCHANGED <<driver, fds>>

\* sef_cb_lu_state_save: published with DSF_OVERWRITE, the count is not.
StateSave ==
    /\ MayUpdate
    /\ ~updating
    /\ saved' = [buffer |-> secret_buffer, length |-> secret_length,
                 owner |-> secret_owner]
    /\ updating' = TRUE
    /\ UNCHANGED <<driver, fds>>

NothingSaved == [buffer |-> Cleared, length |-> 0, owner |-> NoOwner]

\* The new instance's buffer, cleared at its start, when the data store takes
\* what len happens to hold for the room there is: n bytes are brought over.
Retrieved(n) == [i \in Cell |-> IF i < n THEN saved.buffer[i] ELSE Zero]

\* sef_cb_init with SEF_INIT_LU, in a new instance whose count starts at 0.
InitUpdated ==
    /\ updating
    /\ \E n \in 0 .. SECRET_SIZE :
        /\ secret_buffer' = Retrieved(n)
        /\ intact' = Smaller(intact, n)
    /\ secret_length' = saved.length
    /\ secret_owner' = saved.owner
    /\ read_open_count' = 0
    /\ saved' = NothingSaved
    /\ updating' = FALSE
    /\ UNCHANGED fds

\* The update is given up after the save: the old instance goes on.
UpdateAbandoned ==
    /\ updating
    /\ updating' = FALSE
    /\ UNCHANGED <<driver, fds, saved>>

\* The driver dies and comes back: sef_cb_init, any other type.  Which of its
\* descriptors the file system keeps is its own affair.
Restart ==
    /\ MayRestart
    /\ ResetDriver
    /\ read_open_count' = 0
    /\ updating' = FALSE
    /\ \E lost \in SUBSET Fds :
           fds' = [f \in Fds |-> IF f \in lost THEN NotOpen ELSE fds[f]]
    /\ UNCHANGED saved

-----------------------------------------------------------------------------

Init ==
    /\ secret_buffer = Cleared
    /\ secret_length = 0
    /\ secret_owner = NoOwner
    /\ read_open_count = 0
    /\ fds = [f \in Fds |-> NotOpen]
    /\ saved = NothingSaved
    /\ updating = FALSE
    /\ intact = SECRET_SIZE

Request(f) ==
    \/ \E u \in Users, mode \in Modes : SecretOpen(f, u, mode)
    \/ SecretClose(f) \/ CloseFails(f)
    \/ \E size \in 0 .. MaxRequest : Read(f, size)
    \/ \E size \in 0 .. MaxRequest, p \in Payloads : Write(f, size, p)
    \/ \E size \in 0 .. MaxRequest, p \in Payloads, copied \in Cell :
           WriteFails(f, size, p, copied)
    \/ \E u \in Users : Grant(f, u)

Next ==
    \/ \E f \in Fds : Request(f)
    \/ StateSave \/ InitUpdated \/ UpdateAbandoned
    \/ Restart

Spec == Init /\ [][Next]_vars

-----------------------------------------------------------------------------
(* Properties.                                                             *)

Descriptor == [user : Users \cup {NoOwner}, mode : SUBSET {"R", "W"}, pos : 0 .. MaxPos]
Contents == [Cell -> Payloads \cup {Zero}]
Saveable == [buffer : Contents, length : 0 .. SECRET_SIZE, owner : Users \cup {NoOwner}]

TypeOK ==
    /\ secret_buffer \in Contents
    /\ secret_length \in 0 .. SECRET_SIZE
    /\ secret_owner \in Users \cup {NoOwner}
    /\ read_open_count \in 0 .. MaxCount
    /\ fds \in [Fds -> Descriptor]
    /\ saved \in Saveable
    /\ updating \in BOOLEAN
    /\ intact \in 0 .. SECRET_SIZE

\* A read that starts within the secret ends within it and returns one write's
\* payload, followed only by the cleared bytes that a live update made of it:
\* never a mixture of two writers, or what a failed copy left, or a writer and
\* an earlier user of the buffer.  (From a position beyond the secret, which a
\* descriptor keeps over a reset, line 151 lets a read run past the end.)
OnePayload ==
    \E p \in Payloads : \A f \in Fds, size \in 0 .. MaxRequest :
        LET pos == fds[f].pos
        IN  Readable(f) /\ pos <= secret_length =>
                \A i \in pos .. pos + ReadBytes(pos, size) - 1 :
                    /\ i < secret_length
                    /\ secret_buffer[i] = IF i < intact THEN p ELSE Zero

\* Read opens are only counted for a secret with an owner: otherwise the next
\* owner's closes would count down opens that were never its own.
CountedHasOwner == read_open_count > 0 => secret_owner # NoOwner

\* Nobody but the owner gets to open the device for reading, whatever the
\* mode, and as the first visitor it becomes the owner.
ReaderIsOwner ==
    [][\A f \in Fds : ~Open(f) /\ Readable(f)' => fds[f]'.user = secret_owner']_vars

\* The driver with its counters, partial copies and live updates keeps what
\* SecretKeeper promises: an update that publishes, restarts and retrieves
\* the state is no step, or cuts the message short.
Messages == UNION {[0 .. n - 1 -> Payloads] : n \in 1 .. SECRET_SIZE}
Keeper == INSTANCE SecretKeeper WITH
    Nobody <- NoOwner,
    holder <- secret_owner,
    kept <- IF secret_length = 0 THEN Nothing
            ELSE [i \in 0 .. secret_length - 1 |-> secret_buffer[i]]
ImplementsKeeper == Keeper!Spec

\* "Reset secret when the last fd closes": a close by the owner resets the
\* driver exactly when it leaves the owner no descriptor to read with.
OwnReaders == {f \in Fds : Readable(f) /\ fds[f].user = secret_owner}
ResetAtLastClose ==
    [][\A f \in Fds : SecretClose(f) /\ secret_length > 0 /\ fds[f].user = secret_owner =>
          (secret_length' = 0 <=> OwnReaders = {f})]_vars
=============================================================================
