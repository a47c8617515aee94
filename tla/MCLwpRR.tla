------------------------------- MODULE MCLwpRR -------------------------------
\* The library on the repository's own scheduler.
EXTENDS Lwp
RR == INSTANCE RoundRobin

Ring0 == RR!rr_init
AdmitRR(r, t) == RR!rr_admit(r, t)
RemoveRR(r, t) == RR!rr_remove(r, t)
NextRR(r) == RR!rr_next(r)
AdvanceRR(r) == RR!rr_advance(r)
QlenRR(r) == RR!rr_qlen(r)
TurnsRR(r) == RR!rr_turns(r)
=============================================================================
