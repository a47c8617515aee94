---------------------------- MODULE SecretKeeper ----------------------------
(***************************************************************************)
(* What /dev/Secret is for, without descriptors, lengths or counters: a    *)
(* place that is free or belongs to one user, and that holds one message   *)
(* or nothing.  A message is put in once; a new message needs a place that *)
(* was emptied first.  What was put in stays as it is, but its end may be  *)
(* lost.                                                                   *)
(***************************************************************************)
EXTENDS Integers

CONSTANTS
    Users,
    Messages,       \* the messages that may be kept
    Nobody,         \* the holder of a free place
    Nothing,        \* what an empty place holds
    Zero            \* what stands where a part of a message was

VARIABLES holder, kept

Init == holder = Nobody /\ kept = Nothing

\* A free place is claimed: by its first visitor.
Claim(u) ==
    /\ holder = Nobody
    /\ holder' = u
    /\ UNCHANGED kept

Store(m) ==
    /\ kept = Nothing
    /\ kept' = m
    /\ UNCHANGED holder

HandOver(u) ==
    /\ holder # Nobody
    /\ holder' = u
    /\ UNCHANGED kept

\* Only the first n bytes of the message are left.
CutShort ==
    /\ kept # Nothing
    /\ \E n \in DOMAIN kept :
           kept' = [i \in DOMAIN kept |-> IF i < n THEN kept[i] ELSE Zero]
    /\ UNCHANGED holder

\* The message and the claim go together.
Forget ==
    /\ holder' = Nobody
    /\ kept' = Nothing

Next ==
    \/ \E u \in Users : Claim(u) \/ HandOver(u)
    \/ \E m \in Messages : Store(m)
    \/ CutShort \/ Forget

Spec == Init /\ [][Next]_<<holder, kept>>
=============================================================================
