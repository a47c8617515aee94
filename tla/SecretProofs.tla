---------------------------- MODULE SecretProofs ----------------------------
(***************************************************************************)
(* Theorems about Secret.tla: for any number of users and descriptors, any *)
(* buffer size and any sequence of requests, failed copies, live updates   *)
(* and restarts.                                                           *)
(***************************************************************************)
EXTENDS Secret, TLAPS

\* What a read returns never moves a position below zero.
LEMMA ReadBytesNat ==
    ASSUME SecretAssumption, NEW pos \in Nat, NEW size \in Nat,
           secret_length \in Nat
    PROVE  ReadBytes(pos, size) \in Nat
BY SMTT(30) DEF ReadBytes, SecretAssumption

LEMMA FilledType ==
    ASSUME TypeOK, NEW p \in Payloads, NEW n \in Nat
    PROVE  Filled(p, n) \in Contents
BY DEF Filled, Contents, TypeOK

LEMMA ClearedType == Cleared \in Contents
BY DEF Cleared, Contents

LEMMA RetrievedType ==
    ASSUME TypeOK, NEW n \in 0 .. SECRET_SIZE
    PROVE  Retrieved(n) \in Contents
BY DEF Retrieved, Contents, TypeOK, Saveable

LEMMA NothingSavedType ==
    ASSUME SecretAssumption
    PROVE  NothingSaved \in Saveable
BY ClearedType DEF NothingSaved, Saveable, SecretAssumption

LEMMA SmallerType ==
    ASSUME SecretAssumption, NEW size \in Nat
    PROVE  Smaller(size, SECRET_SIZE) \in 0 .. SECRET_SIZE
BY DEF Smaller, SecretAssumption

\* Every request keeps the types; whose descriptor it comes through does not
\* matter.
LEMMA RequestTypes ==
    ASSUME SecretAssumption, TypeOK, NEW f \in Fds, Request(f)
    PROVE  TypeOK'
<1> USE DEF TypeOK
<1>1. ASSUME NEW u \in Users, NEW mode \in Modes, SecretOpen(f, u, mode)
      PROVE  TypeOK'
  <2>1. mode \in SUBSET {"R", "W"} BY DEF Modes
  <2>2. [user |-> u, mode |-> mode, pos |-> 0] \in Descriptor
    BY <2>1 DEF Descriptor, SecretAssumption
  <2>3. read_open_count' \in 0 .. MaxCount BY <1>1 DEF SecretOpen, SecretAssumption
  <2> QED BY <1>1, <2>2, <2>3 DEF SecretOpen
<1>2. ASSUME SecretClose(f) \/ CloseFails(f)
      PROVE  TypeOK'
  <2>1. NotOpen \in Descriptor BY DEF NotOpen, Descriptor, SecretAssumption
  <2>2. CASE CloseFails(f) BY <2>1, <2>2 DEF CloseFails, driver
  <2>3. CASE SecretClose(f)
    <3>1. fds' \in [Fds -> Descriptor] BY <2>1, <2>3 DEF SecretClose
    <3>2. 0 \in 0 .. SECRET_SIZE BY DEF SecretAssumption
    <3>3. read_open_count' \in 0 .. MaxCount
      BY <2>3 DEF SecretClose, CountDown, driver, SecretAssumption
    <3>4. SECRET_SIZE \in 0 .. SECRET_SIZE BY DEF SecretAssumption
    <3> QED BY <2>3, <3>1, <3>2, <3>3, <3>4, ClearedType
            DEF SecretClose, CountDown, ResetDriver, driver
  <2> QED BY <1>2, <2>2, <2>3
<1>3. ASSUME NEW size \in 0 .. MaxRequest, Read(f, size)
      PROVE  TypeOK'
  <2>1. /\ fds[f] \in Descriptor
        /\ fds[f].pos \in Nat
    BY DEF Descriptor
  <2>2. ReadBytes(fds[f].pos, size) \in Nat
    <3>1. size \in Nat /\ secret_length \in Nat BY DEF SecretAssumption
    <3> QED BY ONLY SecretAssumption, <2>1, <3>1, ReadBytesNat
  <2>3. [fds[f] EXCEPT !.pos = @ + ReadBytes(@, size)] \in Descriptor
    BY <1>3, <2>1, <2>2 DEF Read, Descriptor, SecretAssumption
  <2> QED BY <1>3, <2>3 DEF Read, driver
<1>4. ASSUME NEW size \in 0 .. MaxRequest, NEW p \in Payloads, Write(f, size, p)
      PROVE  TypeOK'
  <2>1. SECRET_SIZE \in 0 .. SECRET_SIZE BY DEF SecretAssumption
  <2> QED BY <1>4, <2>1, FilledType, SmallerType DEF Write, SecretAssumption
<1>5. ASSUME NEW size \in 0 .. MaxRequest, NEW p \in Payloads, NEW copied \in Cell,
             WriteFails(f, size, p, copied)
      PROVE  TypeOK'
  <2>1. copied \in Nat BY DEF Cell, SecretAssumption
  <2> QED BY <1>5, <2>1, FilledType DEF WriteFails
<1>6. ASSUME NEW u \in Users, Grant(f, u)
      PROVE  TypeOK'
  BY <1>6 DEF Grant
<1> QED BY <1>1, <1>2, <1>3, <1>4, <1>5, <1>6 DEF Request

LEMMA TypesInductive ==
    ASSUME SecretAssumption, TypeOK, [Next]_vars
    PROVE  TypeOK'
<1>1. ASSUME NEW f \in Fds, Request(f)
      PROVE  TypeOK'
  BY <1>1, RequestTypes
<1>2. CASE StateSave BY <1>2 DEF StateSave, driver, TypeOK, Saveable
<1>3. CASE InitUpdated
  <2>1. /\ saved.buffer \in Contents
        /\ saved.length \in 0 .. SECRET_SIZE
        /\ saved.owner \in Users \cup {NoOwner}
    BY DEF TypeOK, Saveable
  <2>2. 0 \in 0 .. MaxCount BY DEF SecretAssumption
  <2>3. PICK n \in 0 .. SECRET_SIZE :
            secret_buffer' = Retrieved(n) /\ intact' = Smaller(intact, n)
    BY <1>3 DEF InitUpdated
  <2>4. intact' \in 0 .. SECRET_SIZE
    BY <2>3 DEF TypeOK, Smaller
  <2> QED BY <1>3, <2>1, <2>2, <2>3, <2>4, NothingSavedType, RetrievedType
          DEF InitUpdated, TypeOK
<1>4. CASE UpdateAbandoned BY <1>4 DEF UpdateAbandoned, driver, TypeOK
<1>5. CASE Restart
  <2>1. NotOpen \in Descriptor BY DEF NotOpen, Descriptor, SecretAssumption
  <2>2. fds' \in [Fds -> Descriptor] BY <1>5, <2>1 DEF Restart, TypeOK
  <2>3. 0 \in 0 .. MaxCount /\ 0 \in 0 .. SECRET_SIZE /\ SECRET_SIZE \in 0 .. SECRET_SIZE
    BY DEF SecretAssumption
  <2> QED BY <1>5, <2>2, <2>3, ClearedType DEF Restart, ResetDriver, TypeOK
<1>6. CASE UNCHANGED vars BY <1>6 DEF vars, driver, TypeOK
<1> QED BY <1>1, <1>2, <1>3, <1>4, <1>5, <1>6 DEF Next

LEMMA InitTypes ==
    ASSUME SecretAssumption, Init
    PROVE  TypeOK
<1>1. NotOpen \in Descriptor BY DEF NotOpen, Descriptor, SecretAssumption
<1>2. NothingSaved \in Saveable BY NothingSavedType
<1>3. /\ read_open_count \in 0 .. MaxCount /\ secret_length \in 0 .. SECRET_SIZE
      /\ intact \in 0 .. SECRET_SIZE
  BY DEF Init, SecretAssumption
<1> QED BY <1>1, <1>2, <1>3, ClearedType DEF Init, TypeOK

\* The driver's variables, the descriptors and the data store keep their
\* types; in particular secret_length never exceeds SECRET_SIZE.
THEOREM TypeCorrect == Spec => []TypeOK
<1>1. Init => TypeOK
  BY SecretAssumption, InitTypes
<1>2. TypeOK /\ [Next]_vars => TypeOK'
  BY SecretAssumption, TypesInductive
<1> QED BY <1>1, <1>2, PTL DEF Spec

-----------------------------------------------------------------------------
(* What the other properties rest on: while an update is under way the     *)
(* data store has what the driver has, because no request is served.       *)

SavedIsDriver ==
    updating => saved = [buffer |-> secret_buffer, length |-> secret_length,
                         owner |-> secret_owner]

\* The secret in the buffer, as far as updates have left it.
Holds(p) == \A i \in 0 .. secret_length - 1 :
                secret_buffer[i] = IF i < intact THEN p ELSE Zero

Stored == \E p \in Payloads : Holds(p)

IInv == TypeOK /\ Stored /\ CountedHasOwner /\ SavedIsDriver

LEMMA FilledOnePayload ==
    ASSUME SecretAssumption, NEW p \in Payloads, NEW n \in 0 .. SECRET_SIZE,
           NEW i \in 0 .. n - 1
    PROVE  Filled(p, n)[i] = p
BY DEF Filled, Cell, SecretAssumption

\* No secret, and the same one again.
LEMMA NoneStored ==
    ASSUME SecretAssumption, secret_length' = 0
    PROVE  Stored'
BY DEF Stored, Holds, SecretAssumption

LEMMA SameStored ==
    ASSUME Stored, UNCHANGED <<secret_buffer, secret_length, intact>>
    PROVE  Stored'
BY DEF Stored, Holds

LEMMA RequestInv ==
    ASSUME SecretAssumption, IInv, NEW f \in Fds, Request(f), TypeOK'
    PROVE  IInv'
<1> USE DEF IInv, CountedHasOwner, SavedIsDriver
<1>1. ASSUME NEW u \in Users, NEW mode \in Modes, SecretOpen(f, u, mode)
      PROVE  IInv'
  BY <1>1, SameStored DEF SecretOpen, SecretAssumption
<1>2. ASSUME SecretClose(f) \/ CloseFails(f)
      PROVE  IInv'
  <2>1. CASE CloseFails(f) BY <2>1, SameStored DEF CloseFails, driver
  <2>2. CASE SecretClose(f)
    <3>1. Stored'
      BY <2>2, SameStored, NoneStored DEF SecretClose, CountDown, ResetDriver, driver
    <3>2. CountedHasOwner'
      BY <2>2 DEF SecretClose, CountDown, ResetDriver, driver, TypeOK
    <3> QED BY <2>2, <3>1, <3>2 DEF SecretClose
  <2> QED BY <1>2, <2>1, <2>2
<1>3. ASSUME NEW size \in 0 .. MaxRequest, Read(f, size)
      PROVE  IInv'
  BY <1>3, SameStored DEF Read, driver
<1>4. ASSUME NEW size \in 0 .. MaxRequest, NEW p \in Payloads, Write(f, size, p)
      PROVE  IInv'
  <2>1. Smaller(size, SECRET_SIZE) \in 0 .. SECRET_SIZE
    BY SmallerType DEF SecretAssumption
  <2>2. \A i \in 0 .. secret_length' - 1 : secret_buffer'[i] = p /\ i < intact'
    BY <1>4, <2>1, FilledOnePayload DEF Write
  <2>3. Stored'
    BY <2>2 DEF Stored, Holds
  <2> QED BY <1>4, <2>3 DEF Write
<1>5. ASSUME NEW size \in 0 .. MaxRequest, NEW p \in Payloads, NEW copied \in Cell,
             WriteFails(f, size, p, copied)
      PROVE  IInv'
  BY <1>5, NoneStored DEF WriteFails
<1>6. ASSUME NEW u \in Users, Grant(f, u)
      PROVE  IInv'
  BY <1>6, SameStored DEF Grant, SecretAssumption
<1> QED BY <1>1, <1>2, <1>3, <1>4, <1>5, <1>6 DEF Request

\* What an update brings over: n bytes of what the old instance had.
LEMMA UpdateStored ==
    ASSUME SecretAssumption, IInv, InitUpdated
    PROVE  /\ \E n \in 0 .. SECRET_SIZE :
                 secret_buffer' = [i \in Cell |-> IF i < n THEN secret_buffer[i] ELSE Zero]
           /\ UNCHANGED <<secret_length, secret_owner>>
           /\ Stored'
<1>1. saved = [buffer |-> secret_buffer, length |-> secret_length, owner |-> secret_owner]
  BY DEF InitUpdated, IInv, SavedIsDriver
<1>2. UNCHANGED <<secret_length, secret_owner>>
  BY <1>1 DEF InitUpdated
<1>3. PICK n \in 0 .. SECRET_SIZE :
          secret_buffer' = Retrieved(n) /\ intact' = Smaller(intact, n)
  BY DEF InitUpdated
<1>4. secret_buffer' = [i \in Cell |-> IF i < n THEN secret_buffer[i] ELSE Zero]
  BY <1>1, <1>3 DEF Retrieved
<1>5. PICK p \in Payloads : Holds(p)
  BY DEF IInv, Stored
<1>6. secret_length \in 0 .. SECRET_SIZE /\ SECRET_SIZE \in Nat /\ intact \in 0 .. SECRET_SIZE
  BY DEF IInv, TypeOK, SecretAssumption
<1>7. \A i \in 0 .. secret_length - 1 : i \in Cell /\ i \in Int
  BY <1>6 DEF Cell
<1>8. \A i \in 0 .. secret_length - 1 : (i < intact' <=> i < n /\ i < intact)
  BY <1>3, <1>6 DEF Smaller
<1>9. \A i \in 0 .. secret_length - 1 :
          secret_buffer'[i] = IF i < n THEN secret_buffer[i] ELSE Zero
  BY <1>4, <1>7
<1>10. \A i \in 0 .. secret_length - 1 : secret_buffer[i] = IF i < intact THEN p ELSE Zero
  BY <1>5 DEF Holds
<1>11. \A i \in 0 .. secret_length - 1 : secret_buffer'[i] = IF i < intact' THEN p ELSE Zero
  BY <1>8, <1>9, <1>10
<1>12. Holds(p)'
  BY <1>2, <1>11 DEF Holds
<1> QED BY <1>2, <1>4, <1>12 DEF Stored

LEMMA InvInductive ==
    ASSUME SecretAssumption, IInv, [Next]_vars
    PROVE  IInv'
<1>0. /\ TypeOK'
      /\ InitUpdated => Stored'
  BY TypesInductive, UpdateStored DEF IInv
<1> USE DEF IInv, CountedHasOwner, SavedIsDriver
<1>1. ASSUME NEW f \in Fds, Request(f)
      PROVE  IInv'
  BY <1>0, <1>1, RequestInv
<1>2. CASE StateSave BY <1>0, <1>2, SameStored DEF StateSave, driver
<1>3. CASE InitUpdated BY <1>0, <1>3 DEF InitUpdated
<1>4. CASE UpdateAbandoned BY <1>0, <1>4, SameStored DEF UpdateAbandoned, driver
<1>5. CASE Restart BY <1>0, <1>5, NoneStored DEF Restart, ResetDriver
<1>6. CASE UNCHANGED vars BY <1>0, <1>6, SameStored DEF vars, driver
<1> QED BY <1>1, <1>2, <1>3, <1>4, <1>5, <1>6 DEF Next

LEMMA InvAlways == Spec => []IInv
<1>1. Init => IInv
  <2> SUFFICES ASSUME Init PROVE IInv
    OBVIOUS
  <2>1. TypeOK BY SecretAssumption, InitTypes
  <2>2. Stored BY SecretAssumption DEF Init, Stored, Holds, SecretAssumption
  <2> QED BY <2>1, <2>2 DEF Init, IInv, CountedHasOwner, SavedIsDriver
<1>2. IInv /\ [Next]_vars => IInv'
  BY SecretAssumption, InvInductive
<1> QED BY <1>1, <1>2, PTL DEF Spec

\* From a position within the secret, the unsigned subtraction does not wrap
\* and the read ends where the secret does.
LEMMA ReadWithin ==
    ASSUME SecretAssumption, NEW pos \in Nat, NEW size \in Nat,
           secret_length \in 0 .. SECRET_SIZE, pos <= secret_length
    PROVE  ReadBytes(pos, size) \in Nat /\ pos + ReadBytes(pos, size) <= secret_length
<1> DEFINE left == secret_length - pos
<1>1. left \in 0 .. Word - 1 /\ Word \in Nat /\ Word > 0
  BY DEF SecretAssumption
<1>2. left % Word = left
  <2> HIDE DEF left
  <2> QED BY <1>1, SMTT(30)
<1>3. ReadBytes(pos, size) = IF left < size THEN left ELSE size
  BY <1>2 DEF ReadBytes
<1> QED BY <1>1, <1>3

\* A read from a position within the secret returns bytes of the secret only,
\* one write's payload but for an end that live updates have cleared, however
\* copies fail and updates are abandoned, for any buffer size.
THEOREM OnePayloadAlways == Spec => []OnePayload
<1>1. IInv => OnePayload
  <2> SUFFICES ASSUME IInv PROVE OnePayload
    OBVIOUS
  <2>1. PICK p \in Payloads : Holds(p)
    BY DEF IInv, Stored
  <2>2. ASSUME NEW f \in Fds, NEW size \in 0 .. MaxRequest, fds[f].pos <= secret_length,
               NEW i \in fds[f].pos .. fds[f].pos + ReadBytes(fds[f].pos, size) - 1
        PROVE  /\ i < secret_length
               /\ secret_buffer[i] = IF i < intact THEN p ELSE Zero
    <3> DEFINE pos == fds[f].pos
               n == ReadBytes(pos, size)
    <3>1. pos \in Nat /\ size \in Nat /\ secret_length \in 0 .. SECRET_SIZE
          /\ SECRET_SIZE \in Nat
      <4>1. fds[f] \in Descriptor
        BY DEF IInv, TypeOK
      <4> QED BY <4>1, SecretAssumption DEF Descriptor, IInv, TypeOK, SecretAssumption
    <3> HIDE DEF pos
    <3>2. n \in Nat /\ pos + n <= secret_length
      BY <2>2, <3>1, ReadWithin, SecretAssumption DEF pos
    <3>3. i \in pos .. pos + n - 1
      BY DEF pos
    <3> HIDE DEF n
    <3>4. i \in 0 .. secret_length - 1 /\ i < secret_length
      BY <3>1, <3>2, <3>3
    <3> QED BY <2>1, <3>4 DEF Holds
  <2> QED BY <2>1, <2>2 DEF OnePayload
<1> QED BY <1>1, InvAlways, PTL

\* Counted opens belong to an owner.
THEOREM CountedAlways == Spec => []CountedHasOwner
<1>1. IInv => CountedHasOwner BY DEF IInv
<1> QED BY <1>1, InvAlways, PTL

-----------------------------------------------------------------------------

\* Whoever opens the device for reading owns it when the open returns.
THEOREM ReaderOwns == Spec => ReaderIsOwner
<1>1. ASSUME IInv, [Next]_vars,
             NEW f \in Fds, ~Open(f), Readable(f)'
      PROVE  fds[f]'.user = secret_owner'
  <2> USE DEF Open, Readable
  <2>0. fds \in [Fds -> Descriptor] BY <1>1 DEF IInv, TypeOK
  <2>1. ASSUME NEW g \in Fds, NEW u \in Users, NEW mode \in Modes, SecretOpen(g, u, mode)
        PROVE  fds[f]'.user = secret_owner'
    <3>1. g = f BY <1>1, <2>0, <2>1 DEF SecretOpen
    <3>2. fds'[f] = [user |-> u, mode |-> mode, pos |-> 0]
      BY <2>0, <2>1, <3>1 DEF SecretOpen
    <3>3. u = secret_owner'
      BY <1>1, <2>1, <3>1, <3>2 DEF SecretOpen, Refuses
    <3> QED BY <3>2, <3>3
  <2>2. ASSUME NEW g \in Fds, SecretClose(g) \/ CloseFails(g)
        PROVE  FALSE
    BY <1>1, <2>0, <2>2 DEF SecretClose, CloseFails, NotOpen
  <2>3. ASSUME NEW g \in Fds, NEW size \in 0 .. MaxRequest, Read(g, size)
        PROVE  FALSE
    <3>1. g # f BY <1>1, <2>3 DEF Read
    <3> QED BY <1>1, <2>0, <2>3, <3>1 DEF Read
  <2>4. CASE UNCHANGED fds BY <1>1, <2>4
  <2>5. CASE Restart BY <1>1, <2>0, <2>5 DEF Restart, NotOpen
  <2> QED
    BY <1>1, <2>1, <2>2, <2>3, <2>4, <2>5
       DEF Next, Request, Write, WriteFails, Grant, StateSave, InitUpdated,
           UpdateAbandoned, vars
<1>2. IInv /\ [Next]_vars =>
        [\A f \in Fds : ~Open(f) /\ Readable(f)' => fds[f]'.user = secret_owner']_vars
  BY <1>1
<1> QED BY <1>2, InvAlways, PTL DEF Spec, ReaderIsOwner

-----------------------------------------------------------------------------
(* The driver implements SecretKeeper.                                     *)

kept == IF secret_length = 0 THEN Nothing
        ELSE [i \in 0 .. secret_length - 1 |-> secret_buffer[i]]

\* A write that arrives whole is the Store of its payload.
LEMMA WriteStores ==
    ASSUME SecretAssumption, IInv, NEW f \in Fds, NEW p \in Payloads,
           NEW size \in 0 .. MaxRequest, Write(f, size, p)
    PROVE  Keeper!Next \/ UNCHANGED <<secret_owner, kept>>
<1> DEFINE n == Smaller(size, SECRET_SIZE)
           m == [i \in 0 .. n - 1 |-> p]
<1>1. n \in 0 .. SECRET_SIZE BY SmallerType DEF SecretAssumption
<1>2. CASE n = 0
  BY <1>2 DEF Write, kept
<1>3. CASE n # 0
  <2>1. m \in Messages
    <3>1. n \in 1 .. SECRET_SIZE BY <1>1, <1>3
    <3>2. m \in [0 .. n - 1 -> Payloads] OBVIOUS
    <3> HIDE DEF n, m
    <3> QED BY <3>1, <3>2 DEF Messages
  <2>2. \A i \in 0 .. n - 1 : Filled(p, n)[i] = p BY <1>1, FilledOnePayload
  <2>3. kept' = m BY <1>3, <2>2 DEF Write, kept
  <2>4. kept = Nothing /\ UNCHANGED secret_owner BY DEF Write, kept
  <2> QED BY <2>1, <2>3, <2>4 DEF Keeper!Next, Keeper!Store, kept
<1> QED BY <1>2, <1>3

\* An update that brings over less than the message cuts it short; one that
\* brings over all of it is no step.
LEMMA UpdateCuts ==
    ASSUME SecretAssumption, IInv, InitUpdated
    PROVE  Keeper!Next \/ UNCHANGED <<secret_owner, kept>>
<1>1. PICK n \in 0 .. SECRET_SIZE :
          secret_buffer' = [i \in Cell |-> IF i < n THEN secret_buffer[i] ELSE Zero]
  BY UpdateStored
<1>2. UNCHANGED <<secret_length, secret_owner>>
  BY UpdateStored
<1>3. secret_length \in 0 .. SECRET_SIZE /\ SECRET_SIZE \in Nat
  BY DEF IInv, TypeOK, SecretAssumption
<1>4. \A i \in 0 .. secret_length - 1 :
          secret_buffer'[i] = IF i < n THEN secret_buffer[i] ELSE Zero
  BY <1>1, <1>3 DEF Cell
<1>5. CASE secret_length = 0
  BY <1>2, <1>5 DEF kept
<1>6. CASE secret_length # 0
  <2> DEFINE m == [i \in 0 .. secret_length - 1 |-> secret_buffer[i]]
  <2>1. kept = m
    BY <1>6 DEF kept
  <2>2. kept' = [i \in 0 .. secret_length - 1 |-> IF i < n THEN secret_buffer[i] ELSE Zero]
    BY <1>2, <1>4, <1>6 DEF kept
  <2>3. CASE n >= secret_length
    <3>1. \A i \in 0 .. secret_length - 1 : i < n
      BY <1>3, <2>3
    <3> QED BY <1>2, <2>1, <2>2, <3>1
  <2>4. CASE n < secret_length
    <3>1. n \in DOMAIN m
      BY <1>3, <2>4
    <3>2. kept' = [i \in DOMAIN m |-> IF i < n THEN m[i] ELSE Zero]
      BY <2>2
    <3>3. m \in [0 .. secret_length - 1 -> Payloads \cup {Zero}]
      BY <1>3 DEF IInv, TypeOK, Contents, Cell
    <3>4. kept # Nothing
      <4>1. secret_length \in 1 .. SECRET_SIZE BY <1>3, <1>6
      <4>2. Nothing \notin [0 .. secret_length - 1 -> Payloads \cup {Zero}]
        BY ONLY <4>1, NothingIsNoMessage
      <4> HIDE DEF m
      <4> QED BY ONLY <2>1, <3>3, <4>2
    <3>5. Keeper!CutShort <=>
              /\ kept # Nothing
              /\ \E k \in DOMAIN kept :
                    kept' = [i \in DOMAIN kept |-> IF i < k THEN kept[i] ELSE Zero]
              /\ UNCHANGED secret_owner
      BY DEF Keeper!CutShort, kept
    <3> HIDE DEF m
    <3>6. Keeper!CutShort
      BY <1>2, <2>1, <3>1, <3>2, <3>4, <3>5
    <3> QED BY <3>6 DEF Keeper!Next
  <2> QED BY <1>3, <2>3, <2>4
<1> QED BY <1>5, <1>6

LEMMA StepMaps ==
    ASSUME SecretAssumption, IInv, [Next]_vars
    PROVE  Keeper!Next \/ UNCHANGED <<secret_owner, kept>>
<1> USE DEF kept
<1>1. ASSUME NEW f \in Fds, NEW u \in Users, NEW mode \in Modes, SecretOpen(f, u, mode)
      PROVE  Keeper!Next \/ UNCHANGED <<secret_owner, kept>>
  BY <1>1 DEF SecretOpen, Keeper!Next, Keeper!Claim
<1>2. ASSUME NEW f \in Fds, SecretClose(f)
      PROVE  Keeper!Next \/ UNCHANGED <<secret_owner, kept>>
  BY <1>2 DEF SecretClose, CountDown, ResetDriver, driver, Keeper!Next, Keeper!Forget
<1>3. ASSUME NEW f \in Fds, NEW size \in 0 .. MaxRequest, NEW p \in Payloads,
             Write(f, size, p)
      PROVE  Keeper!Next \/ UNCHANGED <<secret_owner, kept>>
  BY <1>3, WriteStores
<1>4. ASSUME NEW f \in Fds, NEW u \in Users, Grant(f, u)
      PROVE  Keeper!Next \/ UNCHANGED <<secret_owner, kept>>
  BY <1>4 DEF Grant, Keeper!Next, Keeper!HandOver
<1>5. ASSUME NEW f \in Fds, NEW size \in 0 .. MaxRequest, NEW p \in Payloads,
             NEW copied \in Cell, WriteFails(f, size, p, copied)
      PROVE  UNCHANGED <<secret_owner, kept>>
  BY <1>5 DEF WriteFails
<1>6. CASE InitUpdated BY <1>6, UpdateCuts
<1>7. CASE Restart BY <1>7 DEF Restart, ResetDriver, Keeper!Next, Keeper!Forget
<1>8. CASE UNCHANGED driver BY <1>8 DEF driver
<1> QED
  BY <1>1, <1>2, <1>3, <1>4, <1>5, <1>6, <1>7, <1>8
     DEF Next, Request, CloseFails, Read, StateSave, UpdateAbandoned, vars

\* Every behaviour of the driver is one of SecretKeeper: a secret is stored
\* once, changes hands as it is and is forgotten whole, and a live update at
\* most cuts it short.
THEOREM Implementation == Spec => ImplementsKeeper
<1>1. Init => Keeper!Init BY DEF Init, Keeper!Init
<1>2. IInv /\ [Next]_vars => [Keeper!Next]_<<secret_owner, kept>>
  BY SecretAssumption, StepMaps
<1> QED BY <1>1, <1>2, InvAlways, PTL DEF Spec, ImplementsKeeper, Keeper!Spec, kept
=============================================================================
