------------------------------- MODULE Threads -------------------------------
(***************************************************************************)
(* What the library (module Lwp) and its scheduler (RoundRobin) both have: *)
(* struct threadinfo_st of src/asn2/lwp.h, with which lwp.c and            *)
(* scheduler.c work on the same threads, and the null pointer.             *)
(***************************************************************************)

CONSTANTS
    Thread,         \* the threads a program may ever have
    NULL
=============================================================================
