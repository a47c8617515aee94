------------------------------ MODULE SumLayout -------------------------------
(***************************************************************************)
(* The checksum layout of the filter driver, filter/sum.c.  Every group of *)
(* NR_SUM_SEC data sectors is followed on the disk by one sector with      *)
(* their checksums.  A buffer is a function on the physical sectors it     *)
(* covers, so the code's offsets into ext_buffer are sector numbers here.  *)
(* Sizes are in sectors.                                                   *)
(***************************************************************************)
EXTENDS Integers, Functions

CONSTANT NR_SUM_SEC      \* checksums in a checksum sector

ASSUME NrSumSecAssumption == NR_SUM_SEC \in Nat \ {0}

Index == 0 .. NR_SUM_SEC - 1

\* Where logical sector nr is, and where its checksum is.
LOG2PHYS(nr) == (nr \div NR_SUM_SEC) * (NR_SUM_SEC + 1) + (nr % NR_SUM_SEC)

SEC2SUM_NR(nr) == (nr \div NR_SUM_SEC) * (NR_SUM_SEC + 1) + NR_SUM_SEC

\* The logical sectors of a request, and of a disk with so many sectors.
Span(first, n) == first .. first + n - 1

convert(sectors) == (sectors \div (NR_SUM_SEC + 1)) * NR_SUM_SEC

\* What a transfer covers: from the first sector to the last checksum.
Extended(first, n) == LOG2PHYS(first) .. SEC2SUM_NR(first + n - 1)

-----------------------------------------------------------------------------
\* A checksum without collisions: it holds the sector's number and data.
calc_sum(sector, data) == <<sector, data>>

\* The data of a request, spread over the buffer.
expand(first, n, data) ==
    [p \in {LOG2PHYS(nr) : nr \in Span(first, n)} |->
        data[CHOOSE nr \in Span(first, n) : LOG2PHYS(nr) = p]]

collapse(first, n, ext) == [nr \in Span(first, n) |-> ext[LOG2PHYS(nr)]]

\* What a write has to read first.  The checksums of the first group, if the
\* request starts inside it and reaches its end; and all that lies between the
\* end of the request and the next checksums, with these.
HeadRead(first, n) ==
    IF first % NR_SUM_SEC > 0 /\ n >= NR_SUM_SEC - (first % NR_SUM_SEC)
    THEN {SEC2SUM_NR(first)} ELSE {}

TailRead(first, n) ==
    IF (first + n) % NR_SUM_SEC > 0
    THEN LOG2PHYS(first + n - 1) + 1 .. SEC2SUM_NR(first + n - 1) ELSE {}

\* The buffer with the checksums of the request's sectors put in.  Those of
\* other sectors are the ones read.
make_sum(first, n, ext) ==
    [p \in Extended(first, n) |->
        IF \E nr \in Span(first, n) : SEC2SUM_NR(nr) = p
        THEN [i \in Index |->
                LET nr == (p \div (NR_SUM_SEC + 1)) * NR_SUM_SEC + i
                IN  IF nr \in Span(first, n) THEN calc_sum(nr, ext[LOG2PHYS(nr)]) ELSE ext[p][i]]
        ELSE ext[p]]

\* Mutant: what is read is not verified.
check_sumNone(first, n, ext) == TRUE

\* The request's sectors match their checksums.
check_sum(first, n, ext) ==
    \A nr \in Span(first, n) : ext[SEC2SUM_NR(nr)][nr % NR_SUM_SEC] = calc_sum(nr, ext[LOG2PHYS(nr)])
=============================================================================
