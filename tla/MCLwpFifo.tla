------------------------------ MODULE MCLwpFifo ------------------------------
\* The library on a scheduler that keeps lwp.h's promise.
EXTENDS Lwp, FifoScheduler

NextFifo(q) == fifo_next(q, NULL)
=============================================================================
