------------------------------ MODULE MCKernel -------------------------------
\* Two drivers d and e on one interrupt line, the scheduler srv, and two
\* processes: u belongs to the scheduler and asks d, v is the kernel's and is
\* traced.  e cannot be preempted.  The scheduler, e and v meet on the list of
\* level 2, and u may be moved there.  The hook of d is enabled again as soon as
\* it was called, that of e by its driver.
EXTENDS Kernel
CONSTANTS d, e, srv, u, v, hd, he, line

Boot == <<d, srv, e, u, v>>
Levels == d :> 0 @@ srv :> 2 @@ e :> 2 @@ u :> 1 @@ v :> 2
Callees == u :> {d} @@ v :> {e}
LinesOf == hd :> line @@ he :> line
Owners == hd :> d @@ he :> e
=============================================================================
