---------------------------- MODULE FilterProofs ----------------------------
(***************************************************************************)
(* Proofs about the filter driver.                                         *)
(*                                                                         *)
(* The layout comes first: what sum.c must get right about the places of   *)
(* sectors and checksums, for any size of group and any request.  Then     *)
(* four layers of invariants, each preserved with the help of those before *)
(* it: where the filter is in a request and what is under way              *)
(* (ControlInv), what lies on the disks and in the buffers (ContentsInv),  *)
(* what makes the disks of a mirror alike (Agree), and what faults can and *)
(* cannot have done (FaultsInv).  The properties of Filter follow.         *)
(***************************************************************************)
EXTENDS Filter, TLAPS

\* A sector is a group and an index into it.
LEMMA Quotient ==
    ASSUME NEW nr \in Nat
    PROVE  /\ nr \div NR_SUM_SEC \in Nat
           /\ nr % NR_SUM_SEC \in Index
           /\ nr = (nr \div NR_SUM_SEC) * NR_SUM_SEC + (nr % NR_SUM_SEC)
BY NrSumSecAssumption, SMT DEF Index

\* The same for any size of group.
LEMMA Divided ==
    ASSUME NEW x \in Nat, NEW k \in Nat \ {0}
    PROVE  x \div k \in Nat /\ x % k \in 0 .. k - 1 /\ x = (x \div k) * k + (x % k)
OBVIOUS

\* Steps of c do not overtake each other.
LEMMA Product ==
    ASSUME NEW m \in Nat, NEW n \in Nat, NEW c \in Nat, m < n
    PROVE  m * c + c <= n * c
<1>1. n = m + (n - m) /\ n - m - 1 \in Nat
  OBVIOUS
<1>2. (n - m - 1) * c >= 0
  BY <1>1, SMT
<1> QED BY <1>1, <1>2, SMT

\* A place on the disk is a group and an index into it, in one way.
LEMMA OneWay ==
    ASSUME NEW p \in Nat, NEW q \in Nat, NEW i \in 0 .. NR_SUM_SEC, NEW j \in 0 .. NR_SUM_SEC,
           p * (NR_SUM_SEC + 1) + i = q * (NR_SUM_SEC + 1) + j
    PROVE  p = q /\ i = j
<1> DEFINE c == NR_SUM_SEC + 1
<1>1. c \in Nat
  BY NrSumSecAssumption
<1> HIDE DEF c
<1>2. p * c + i = q * c + j /\ i < c /\ j < c
  BY NrSumSecAssumption DEF c
<1>3. p * c \in Nat /\ q * c \in Nat
  BY <1>1, SMT
<1>4. ~(p < q)
  BY <1>1, <1>2, <1>3, Product, NrSumSecAssumption
<1>5. ~(q < p)
  BY <1>1, <1>2, <1>3, Product, NrSumSecAssumption
<1> QED BY <1>2, <1>3, <1>4, <1>5, NrSumSecAssumption

\* Two logical sectors never share a place, and none lies on a checksum sector.
THEOREM SectorsApart ==
    ASSUME NEW m \in Nat, NEW n \in Nat
    PROVE  /\ LOG2PHYS(m) = LOG2PHYS(n) => m = n
           /\ LOG2PHYS(m) # SEC2SUM_NR(n)
<1> DEFINE p == m \div NR_SUM_SEC
           i == m % NR_SUM_SEC
           q == n \div NR_SUM_SEC
           j == n % NR_SUM_SEC
<1>1. /\ p \in Nat /\ q \in Nat /\ i \in Index /\ j \in Index
      /\ m = p * NR_SUM_SEC + i /\ n = q * NR_SUM_SEC + j
  BY Quotient
<1>2. LOG2PHYS(m) = p * (NR_SUM_SEC + 1) + i /\ LOG2PHYS(n) = q * (NR_SUM_SEC + 1) + j
  BY DEF LOG2PHYS
<1>3. SEC2SUM_NR(n) = q * (NR_SUM_SEC + 1) + NR_SUM_SEC
  BY DEF SEC2SUM_NR
<1> HIDE DEF p, q, i, j
<1>4. i \in 0 .. NR_SUM_SEC /\ j \in 0 .. NR_SUM_SEC /\ i # NR_SUM_SEC
  BY <1>1, NrSumSecAssumption DEF Index
<1>5. ASSUME LOG2PHYS(m) = LOG2PHYS(n) PROVE m = n
  <2>1. p = q /\ i = j
    BY <1>1, <1>2, <1>4, <1>5, OneWay
  <2> QED BY <2>1, <1>1
<1>6. LOG2PHYS(m) # SEC2SUM_NR(n)
  <2>1. NR_SUM_SEC \in 0 .. NR_SUM_SEC
    BY NrSumSecAssumption
  <2> QED BY <1>1, <1>2, <1>3, <1>4, <2>1, OneWay
<1> QED BY <1>5, <1>6

\* The checksum sector of a group can be told from its place.
LEMMA GroupOf ==
    ASSUME NEW m \in Nat
    PROVE  /\ SEC2SUM_NR(m) \in Nat /\ LOG2PHYS(m) \in Nat
           /\ LOG2PHYS(m) < SEC2SUM_NR(m)
           /\ (SEC2SUM_NR(m) \div (NR_SUM_SEC + 1)) * NR_SUM_SEC + (m % NR_SUM_SEC) = m
<1> DEFINE q == m \div NR_SUM_SEC
           i == m % NR_SUM_SEC
           c == NR_SUM_SEC + 1
<1>1. q \in Nat /\ i \in Index /\ m = q * NR_SUM_SEC + i
  BY Quotient
<1>2. SEC2SUM_NR(m) = q * c + NR_SUM_SEC /\ LOG2PHYS(m) = q * c + i
  BY DEF SEC2SUM_NR, LOG2PHYS
<1>3. c \in Nat /\ NR_SUM_SEC < c /\ NR_SUM_SEC \in Nat
  BY NrSumSecAssumption
<1> HIDE DEF q, i, c
<1>4. q * c \in Nat
  BY <1>1, <1>3, SMT
<1>5. (q * c + NR_SUM_SEC) \div c = q
  BY <1>1, <1>3, SMT
<1>6. LOG2PHYS(m) < SEC2SUM_NR(m)
  BY <1>1, <1>2, <1>4, NrSumSecAssumption DEF Index
<1>7. SEC2SUM_NR(m) \in Nat /\ LOG2PHYS(m) \in Nat
  BY <1>1, <1>2, <1>3, <1>4 DEF Index
<1> QED BY <1>1, <1>2, <1>5, <1>6, <1>7 DEF q, i, c

\* The layout keeps the order of sectors.
LEMMA InOrder ==
    ASSUME NEW m \in Nat, NEW n \in Nat, m <= n
    PROVE  LOG2PHYS(m) <= LOG2PHYS(n) /\ SEC2SUM_NR(m) <= SEC2SUM_NR(n)
<1> DEFINE p == m \div NR_SUM_SEC
           i == m % NR_SUM_SEC
           q == n \div NR_SUM_SEC
           j == n % NR_SUM_SEC
           c == NR_SUM_SEC + 1
<1>1. /\ p \in Nat /\ q \in Nat /\ i \in Index /\ j \in Index
      /\ m = p * NR_SUM_SEC + i /\ n = q * NR_SUM_SEC + j
  BY Quotient
<1>2. /\ LOG2PHYS(m) = p * c + i /\ LOG2PHYS(n) = q * c + j
      /\ SEC2SUM_NR(m) = p * c + NR_SUM_SEC /\ SEC2SUM_NR(n) = q * c + NR_SUM_SEC
  BY DEF LOG2PHYS, SEC2SUM_NR
<1>3. c \in Nat /\ NR_SUM_SEC \in Nat /\ c = NR_SUM_SEC + 1
  BY NrSumSecAssumption
<1> HIDE DEF p, q, i, j, c
<1>4. /\ p * NR_SUM_SEC \in Nat /\ q * NR_SUM_SEC \in Nat
      /\ p * c \in Nat /\ q * c \in Nat
  BY <1>1, <1>3, SMT
<1>5. ~(q < p)
  <2> SUFFICES ASSUME q < p PROVE FALSE
    OBVIOUS
  <2>1. q * NR_SUM_SEC + NR_SUM_SEC <= p * NR_SUM_SEC
    BY <1>1, <1>3, Product
  <2> QED BY <2>1, <1>1, <1>3, <1>4 DEF Index
<1>6. CASE p = q
  BY <1>1, <1>2, <1>3, <1>4, <1>6 DEF Index
<1>7. CASE p < q
  <2>1. p * c + c <= q * c
    BY <1>1, <1>3, <1>7, Product
  <2> QED BY <2>1, <1>1, <1>2, <1>3, <1>4 DEF Index
<1> QED BY <1>1, <1>5, <1>6, <1>7

\* The sectors of a request and their checksums are in its buffer.
LEMMA InBuffer ==
    ASSUME NEW first \in Nat, NEW n \in Nat \ {0}, NEW nr \in Span(first, n)
    PROVE  /\ nr \in Nat
           /\ LOG2PHYS(nr) \in Extended(first, n)
           /\ SEC2SUM_NR(nr) \in Extended(first, n)
<1>1. nr \in Nat /\ first <= nr /\ nr <= first + n - 1 /\ first + n - 1 \in Nat
  BY DEF Span
<1>2. LOG2PHYS(first) <= LOG2PHYS(nr) /\ SEC2SUM_NR(nr) <= SEC2SUM_NR(first + n - 1)
  BY <1>1, InOrder
<1>3. /\ LOG2PHYS(nr) < SEC2SUM_NR(nr)
      /\ LOG2PHYS(nr) \in Nat /\ SEC2SUM_NR(nr) \in Nat
      /\ LOG2PHYS(first) \in Nat /\ SEC2SUM_NR(first + n - 1) \in Nat
  BY <1>1, GroupOf
<1> QED BY <1>1, <1>2, <1>3 DEF Extended

\* What make_sum has put in the buffer passes check_sum, at any alignment.
THEOREM SumsMatch ==
    ASSUME NEW first \in Nat, NEW n \in Nat \ {0}, NEW buf
    PROVE  check_sum(first, n, make_sum(first, n, buf))
<1> SUFFICES ASSUME NEW nr \in Span(first, n)
             PROVE  make_sum(first, n, buf)[SEC2SUM_NR(nr)][nr % NR_SUM_SEC]
                        = calc_sum(nr, make_sum(first, n, buf)[LOG2PHYS(nr)])
  BY DEF check_sum
<1>1. /\ nr \in Nat /\ LOG2PHYS(nr) \in Extended(first, n)
      /\ SEC2SUM_NR(nr) \in Extended(first, n)
  BY InBuffer
<1>2. nr % NR_SUM_SEC \in Index
  BY <1>1, Quotient
<1>3. \A m \in Span(first, n) : SEC2SUM_NR(m) # LOG2PHYS(nr)
  BY <1>1, SectorsApart, InBuffer
<1>4. make_sum(first, n, buf)[LOG2PHYS(nr)] = buf[LOG2PHYS(nr)]
  BY <1>1, <1>3 DEF make_sum
<1>5. (SEC2SUM_NR(nr) \div (NR_SUM_SEC + 1)) * NR_SUM_SEC + (nr % NR_SUM_SEC) = nr
  BY <1>1, GroupOf
<1>6. make_sum(first, n, buf)[SEC2SUM_NR(nr)][nr % NR_SUM_SEC] = calc_sum(nr, buf[LOG2PHYS(nr)])
  BY <1>1, <1>2, <1>5 DEF make_sum
<1> QED BY <1>4, <1>6

\* "the remaining data (nor their checksums) are not to be modified"
\* (sum.c:516): of the other sectors that lie in the buffer make_sum changes
\* neither the data nor the checksum.
THEOREM OthersKept ==
    ASSUME NEW first \in Nat, NEW n \in Nat \ {0}, NEW buf,
           NEW nr \in Nat, nr \notin Span(first, n)
    PROVE  /\ LOG2PHYS(nr) \in Extended(first, n) =>
                make_sum(first, n, buf)[LOG2PHYS(nr)] = buf[LOG2PHYS(nr)]
           /\ SEC2SUM_NR(nr) \in Extended(first, n) =>
                make_sum(first, n, buf)[SEC2SUM_NR(nr)][nr % NR_SUM_SEC]
                    = buf[SEC2SUM_NR(nr)][nr % NR_SUM_SEC]
<1>1. \A m \in Span(first, n) : SEC2SUM_NR(m) # LOG2PHYS(nr)
  BY SectorsApart, InBuffer
<1>2. nr % NR_SUM_SEC \in Index
  BY Quotient
<1>3. (SEC2SUM_NR(nr) \div (NR_SUM_SEC + 1)) * NR_SUM_SEC + (nr % NR_SUM_SEC) = nr
  BY GroupOf
<1>4. ASSUME LOG2PHYS(nr) \in Extended(first, n)
      PROVE  make_sum(first, n, buf)[LOG2PHYS(nr)] = buf[LOG2PHYS(nr)]
  BY <1>1, <1>4 DEF make_sum
<1>5. ASSUME SEC2SUM_NR(nr) \in Extended(first, n)
      PROVE  make_sum(first, n, buf)[SEC2SUM_NR(nr)][nr % NR_SUM_SEC]
                = buf[SEC2SUM_NR(nr)][nr % NR_SUM_SEC]
  BY <1>2, <1>3, <1>5 DEF make_sum
<1> QED BY <1>4, <1>5

\* The sectors a write spreads over its buffer come back as they were.
THEOREM CollapseExpand ==
    ASSUME NEW first \in Nat, NEW n \in Nat \ {0}, NEW data
    PROVE  collapse(first, n, expand(first, n, data)) = [nr \in Span(first, n) |-> data[nr]]
<1> SUFFICES ASSUME NEW nr \in Span(first, n)
             PROVE  expand(first, n, data)[LOG2PHYS(nr)] = data[nr]
  BY DEF collapse
<1> DEFINE m == CHOOSE x \in Span(first, n) : LOG2PHYS(x) = LOG2PHYS(nr)
<1>1. m \in Span(first, n) /\ LOG2PHYS(m) = LOG2PHYS(nr)
  OBVIOUS
<1>2. m \in Nat /\ nr \in Nat
  BY <1>1, InBuffer
<1>3. expand(first, n, data)[LOG2PHYS(nr)] = data[m]
  BY DEF expand
<1> HIDE DEF m
<1>4. m = nr
  BY <1>1, <1>2, SectorsApart
<1> QED BY <1>3, <1>4

\* A write stores nothing it does not have: whatever lies in its buffer is of
\* the request, or was read before, or is a checksum sector of which every
\* checksum is computed.  This is what the two conditions of make_sum for
\* reading (sum.c:221, 251) must achieve.
THEOREM NothingUnread ==
    ASSUME NEW first \in Nat, NEW n \in Nat \ {0}, NEW p \in Extended(first, n)
    PROVE  \/ p \in HeadRead(first, n) \cup TailRead(first, n)
           \/ \E nr \in Span(first, n) : p = LOG2PHYS(nr)
           \/ /\ \E nr \in Span(first, n) : p = SEC2SUM_NR(nr)
              /\ \A nr \in Nat : p = SEC2SUM_NR(nr) => nr \in Span(first, n)
<1> DEFINE N == NR_SUM_SEC
           c == NR_SUM_SEC + 1
           last == first + n - 1
           g == p \div c
           i == p % c
           f == first \div N
           l == last \div N
<1>1. /\ N \in Nat \ {0} /\ c \in Nat \ {0} /\ c = N + 1
      /\ last \in Nat /\ first <= last /\ first + n = last + 1
  BY NrSumSecAssumption
<1>2. /\ f \in Nat /\ l \in Nat
      /\ first % N \in 0 .. N - 1 /\ first = f * N + (first % N)
      /\ last % N \in 0 .. N - 1 /\ last = l * N + (last % N)
  BY <1>1, Quotient DEF Index
<1>3. /\ LOG2PHYS(first) = f * c + (first % N) /\ SEC2SUM_NR(first) = f * c + N
      /\ LOG2PHYS(last) = l * c + (last % N) /\ SEC2SUM_NR(last) = l * c + N
  BY DEF LOG2PHYS, SEC2SUM_NR
<1>4. LOG2PHYS(first) \in Nat /\ SEC2SUM_NR(last) \in Nat /\ LOG2PHYS(last) \in Nat
  BY <1>1, GroupOf
<1>5. p \in Nat /\ LOG2PHYS(first) <= p /\ p <= SEC2SUM_NR(last)
  BY <1>4 DEF Extended
<1>6. g \in Nat /\ i \in 0 .. N /\ p = g * c + i
  <2>1. p \div c \in Nat /\ p % c \in 0 .. c - 1 /\ p = (p \div c) * c + (p % c)
    BY <1>1, <1>5, Divided
  <2>2. 0 .. c - 1 = 0 .. N
    BY <1>1
  <2> QED BY <2>1, <2>2
<1> HIDE DEF g, i, f, l, N, c, last
<1>7. /\ f * c \in Nat /\ g * c \in Nat /\ l * c \in Nat
      /\ f * N \in Nat /\ g * N \in Nat /\ l * N \in Nat
  BY <1>1, <1>2, <1>6, SMT
<1>8. f <= g
  <2> SUFFICES ASSUME g < f PROVE FALSE
    BY <1>2, <1>6
  <2>1. g * c + c <= f * c
    BY <1>1, <1>2, <1>6, Product
  <2> QED BY <2>1, <1>1, <1>2, <1>3, <1>5, <1>6, <1>7
<1>9. g <= l
  <2> SUFFICES ASSUME l < g PROVE FALSE
    BY <1>2, <1>6
  <2>1. l * c + c <= g * c
    BY <1>1, <1>2, <1>6, Product
  <2> QED BY <2>1, <1>1, <1>2, <1>3, <1>5, <1>6, <1>7
<1>10. HeadRead(first, n) = IF first % N > 0 /\ n >= N - (first % N) THEN {f * c + N} ELSE {}
  BY <1>3 DEF HeadRead, N
<1>11. TailRead(first, n) = IF (first + n) % N > 0 THEN LOG2PHYS(last) + 1 .. SEC2SUM_NR(last) ELSE {}
  BY DEF TailRead, N, last
<1>12. ASSUME (first + n) % N = 0 PROVE last % N = N - 1
  <2> DEFINE k == (first + n) \div N
  <2>1. k \in Nat /\ last + 1 = k * N
    <3>1. first + n \in Nat
      BY <1>1
    <3>2. k \in Nat /\ first + n = k * N + ((first + n) % N)
      BY <3>1, <1>1, Divided
    <3> HIDE DEF k
    <3>3. k * N \in Nat
      BY <3>2, <1>1, SMT
    <3> QED BY <3>2, <3>3, <1>1, <1>12
  <2> HIDE DEF k
  <2>2. k * N \in Nat
    BY <1>1, <2>1, SMT
  <2>3. ~(k < l)
    BY <1>1, <1>2, <1>7, <2>1, <2>2, Product
  <2>4. CASE l < k
    <3>1. l * N + N <= k * N
      BY <1>1, <1>2, <2>1, <2>4, Product
    <3> QED BY <3>1, <1>1, <1>2, <1>7, <2>1, <2>2
  <2>5. CASE k = l
    BY <2>5, <1>1, <1>2, <1>7, <2>1
  <2> QED BY <2>1, <2>3, <2>4, <2>5, <1>2
\* A data sector.
<1>13. CASE i < N
  <2> DEFINE m == g * N + i
  <2>1. m \in Nat
    BY <1>6, <1>7, <1>1
  <2>2. m \div N = g /\ m % N = i
    BY <1>1, <1>6, <1>13, SMT
  <2>3. LOG2PHYS(m) = p
    BY <2>2, <1>6 DEF LOG2PHYS, N, c
  <2> HIDE DEF m
  <2>4. m >= first
    <3> SUFFICES ASSUME m < first PROVE FALSE
      BY <2>1
    <3>1. p = LOG2PHYS(first)
      BY <2>1, <2>3, <1>4, <1>5, InOrder
    <3> QED BY <3>1, <2>1, <2>3, SectorsApart
  <2>5. CASE m <= last
    BY <2>1, <2>3, <2>4, <2>5, <1>1 DEF Span, last
  <2>6. CASE last < m
    <3>1. LOG2PHYS(last) < p
      <4>1. LOG2PHYS(last) <= p /\ LOG2PHYS(last) # p
        BY <2>1, <2>3, <2>6, <1>1, InOrder, SectorsApart
      <4> QED BY <4>1, <1>4, <1>5
    <3>2. (first + n) % N > 0
      <4> SUFFICES ASSUME (first + n) % N = 0 PROVE FALSE
        BY <1>1, SMT
      <4>1. p = SEC2SUM_NR(last)
        BY <1>1, <1>3, <1>5, <1>7, <1>12, <3>1
      <4> QED BY <4>1, <2>1, <2>3, <1>1, SectorsApart
    <3> QED BY <3>1, <3>2, <1>4, <1>5, <1>11
  <2> QED BY <2>1, <2>5, <2>6, <1>1
\* A checksum sector.
<1>14. CASE i = N
  <2>1. ASSUME g = l, (first + n) % N > 0 PROVE p \in TailRead(first, n)
    <3>1. p = SEC2SUM_NR(last)
      BY <2>1, <1>3, <1>6, <1>14
    <3>2. LOG2PHYS(last) < SEC2SUM_NR(last)
      BY <1>1, GroupOf
    <3> QED BY <3>1, <3>2, <2>1, <1>4, <1>5, <1>11
  <2>2. g * N + N <= last + 1 \/ (g = l /\ (first + n) % N > 0)
    <3>1. CASE g < l
      <4>1. g * N + N <= l * N
        BY <3>1, <1>1, <1>2, <1>6, Product
      <4> QED BY <4>1, <1>1, <1>2, <1>7
    <3>2. CASE g = l /\ (first + n) % N = 0
      BY <3>2, <1>1, <1>2, <1>7, <1>12
    <3>3. (first + n) % N > 0 \/ (first + n) % N = 0
      BY <1>1, SMT
    <3> QED BY <3>1, <3>2, <3>3, <1>2, <1>6, <1>9
  <2>3. ASSUME g * N + N <= last + 1, g * N < first PROVE p \in HeadRead(first, n)
    <3>1. g = f
      <4> SUFFICES ASSUME f < g PROVE FALSE
        BY <1>2, <1>6, <1>8
      <4>1. f * N + N <= g * N
        BY <1>1, <1>2, <1>6, Product
      <4> QED BY <4>1, <2>3, <1>1, <1>2, <1>7
    <3>2. first % N > 0 /\ n >= N - (first % N)
      BY <3>1, <2>3, <1>1, <1>2, <1>7
    <3> QED BY <3>1, <3>2, <1>6, <1>10, <1>14
  <2>4. ASSUME g * N + N <= last + 1, first <= g * N, NEW nr \in Nat, SEC2SUM_NR(nr) = p
        PROVE  nr \in Span(first, n)
    <3> DEFINE q == nr \div N
    <3>1. q \in Nat /\ nr % N \in 0 .. N - 1 /\ nr = q * N + (nr % N)
      BY Quotient DEF Index, N
    <3>2. q * c + N = g * c + N
      BY <2>4, <1>6, <1>14 DEF SEC2SUM_NR, N, c
    <3> HIDE DEF q
    <3>3. q = g
      BY <3>1, <3>2, <1>1, <1>6, OneWay DEF N, c
    <3>4. first <= nr /\ nr <= last
      BY <3>1, <3>3, <2>4, <1>1, <1>7
    <3> QED BY <3>4, <1>1 DEF Span, last
  <2>5. ASSUME g * N + N <= last + 1, first <= g * N
        PROVE  \E nr \in Span(first, n) : p = SEC2SUM_NR(nr)
    <3>1. (g * N) \div N = g
      BY <1>1, <1>6, SMT
    <3>2. SEC2SUM_NR(g * N) = p
      BY <3>1, <1>6, <1>14 DEF SEC2SUM_NR, N, c
    <3>3. g * N \in Nat /\ g * N <= last
      BY <1>1, <1>7, <2>5
    <3>4. g * N \in Span(first, n)
      BY <2>5, <3>3, <1>1 DEF Span, last
    <3> QED BY <3>2, <3>4
  <2>6. g * N < first \/ first <= g * N
    BY <1>7
  <2> QED BY <2>1, <2>2, <2>3, <2>4, <2>5, <2>6
<1> QED BY <1>1, <1>6, <1>13, <1>14

\* What a write reads first is in its buffer, and is none of its own sectors.
LEMMA ReadsInBuffer ==
    ASSUME NEW first \in Nat, NEW n \in Nat \ {0}
    PROVE  /\ HeadRead(first, n) \cup TailRead(first, n) \subseteq Extended(first, n)
           /\ \A nr \in Span(first, n) : LOG2PHYS(nr) \notin HeadRead(first, n) \cup TailRead(first, n)
<1> DEFINE last == first + n - 1
<1>1. last \in Nat /\ first <= last /\ first \in Span(first, n) /\ last \in Span(first, n)
  BY DEF Span
<1>2. /\ SEC2SUM_NR(first) \in Extended(first, n)
      /\ LOG2PHYS(last) \in Extended(first, n) /\ SEC2SUM_NR(last) \in Extended(first, n)
  BY <1>1, InBuffer
<1>3. /\ LOG2PHYS(last) \in Nat /\ SEC2SUM_NR(last) \in Nat /\ LOG2PHYS(first) \in Nat
  BY <1>1, GroupOf
<1>4. HeadRead(first, n) \subseteq {SEC2SUM_NR(first)}
  BY DEF HeadRead
<1>5. TailRead(first, n) \subseteq LOG2PHYS(last) + 1 .. SEC2SUM_NR(last)
  BY DEF TailRead
<1>6. TailRead(first, n) \subseteq Extended(first, n)
  BY <1>2, <1>3, <1>5 DEF Extended
<1>7. ASSUME NEW nr \in Span(first, n)
      PROVE  LOG2PHYS(nr) \notin HeadRead(first, n) \cup TailRead(first, n)
  <2>1. nr \in Nat /\ nr <= last
    BY <1>1 DEF Span
  <2>2. LOG2PHYS(nr) # SEC2SUM_NR(first)
    BY <2>1, SectorsApart
  <2>3. LOG2PHYS(nr) <= LOG2PHYS(last) /\ LOG2PHYS(nr) \in Nat
    BY <1>1, <2>1, InOrder, GroupOf
  <2> QED BY <1>3, <1>4, <1>5, <2>2, <2>3
<1> QED BY <1>2, <1>4, <1>6, <1>7

\* Nothing of a sector that the filter offers lies beyond the end of the disk.
THEOREM OnDisk ==
    ASSUME NEW sectors \in Nat, NEW nr \in Nat, nr < convert(sectors)
    PROVE  LOG2PHYS(nr) < sectors /\ SEC2SUM_NR(nr) < sectors
<1> DEFINE c == NR_SUM_SEC + 1
           q == sectors \div c
           m == nr \div NR_SUM_SEC
<1>1. c \in Nat \ {0} /\ NR_SUM_SEC \in Nat /\ c = NR_SUM_SEC + 1
  BY NrSumSecAssumption
<1>2. q \in Nat /\ sectors % c \in 0 .. c - 1 /\ sectors = q * c + (sectors % c)
  BY <1>1, Divided
<1>3. m \in Nat /\ nr % NR_SUM_SEC \in Index /\ nr = m * NR_SUM_SEC + (nr % NR_SUM_SEC)
  BY Quotient
<1>4. nr < q * NR_SUM_SEC /\ SEC2SUM_NR(nr) = m * c + NR_SUM_SEC
  BY DEF convert, SEC2SUM_NR
<1> HIDE DEF c, q, m
<1>5. /\ q * c \in Nat /\ m * c \in Nat
      /\ q * NR_SUM_SEC \in Nat /\ m * NR_SUM_SEC \in Nat
  BY <1>1, <1>2, <1>3, SMT
<1>6. m < q
  <2>1. m # q
    BY <1>3, <1>4, <1>5 DEF Index
  <2>2. ~(q < m)
    <3> SUFFICES ASSUME q < m PROVE FALSE
      OBVIOUS
    <3>1. q * NR_SUM_SEC + NR_SUM_SEC <= m * NR_SUM_SEC
      BY <1>1, <1>2, <1>3, Product
    <3> QED BY <3>1, <1>1, <1>3, <1>4, <1>5 DEF Index
  <2> QED BY <2>1, <2>2, <1>2, <1>3
<1>7. m * c + c <= q * c
  BY <1>1, <1>2, <1>3, <1>6, Product
<1>8. SEC2SUM_NR(nr) < sectors
  BY <1>1, <1>2, <1>4, <1>5, <1>7
<1> QED BY <1>8, GroupOf

-----------------------------------------------------------------------------
(* The control of the filter.                                              *)

\* The disks in use, the sectors of the request, whom an operation is sent to.
Used == IF USE_MIRROR THEN Label ELSE {driver[DRIVER_MAIN].label}
At == Extended(req.first, req.n)
Spanned == IF req.op = "FLT_WRITE" THEN Span(req.first, req.n) ELSE {}
What == Head(todo).what
SentTo == IF USE_MIRROR /\ What # "FLT_READ" THEN Which ELSE {DRIVER_MAIN}
Waiting == pc[1] \in {"wait", "evaluate"}
Trying == Waiting \/ pc[1] = "send"

\* The values of pc.
Controls ==
    {<<"idle">>, <<"send">>, <<"reply">>}
        \cup ({"wait", "evaluate"} \X SUBSET Which)
        \cup ({"check"} \X Which \X (1 .. 2))
        \cup ({"restart"} \X Which)

\* The messages and the drivers' entries.
Message == [dst : Label \cup {NONE}, state : {"done", "valid", "revoked", "dead"}]

DriverState ==
    [label    : Label,
     endpt    : Label \cup {NONE},
     up_event : {"UP_EXPECTED", "UP_NONE", "UP_PENDING"},
     problem  : {"BD_NONE", "BD_DEAD", "BD_PROTO", "BD_DATA"},
     retries  : Nat,
     kills    : Nat]

\* The types of the variables that say where the filter is.
Types ==
    /\ up \subseteq Label /\ busy \subseteq Label /\ updated \subseteq Label
    /\ out \in [Label -> {NONE, "OK", "EIO"}]
    /\ amsgtable \in [Which -> Message]
    /\ driver \in [Which -> DriverState]
    /\ USE_MIRROR \in BOOLEAN
    /\ pc \in Controls
    /\ await \subseteq Which /\ failed \subseteq Which
    /\ DOMAIN got = Which
    /\ r \in {"OK", "error"}
    /\ faulty \subseteq Label

\* The mirror has both drivers in their places.  When it has lost the main one
\* the backup's entry takes its place, and may find the same driver again;
\* when it has lost the backup nobody looks for that any more.
Drivers ==
    /\ driver[DRIVER_MAIN].endpt = driver[DRIVER_MAIN].label
    /\ driver[DRIVER_BACKUP].label = BACKUP_LABEL
    /\ driver[DRIVER_BACKUP].endpt \in {NONE, BACKUP_LABEL}
    /\ USE_MIRROR => /\ driver[DRIVER_MAIN].label = MAIN_LABEL
                     /\ driver[DRIVER_BACKUP].endpt = BACKUP_LABEL
    /\ ~USE_MIRROR /\ driver[DRIVER_MAIN].label = MAIN_LABEL =>
          /\ driver[DRIVER_BACKUP].endpt = NONE
          /\ driver[DRIVER_BACKUP].problem = "BD_NONE"
          /\ pc \notin {<<"restart", DRIVER_BACKUP>>, <<"check", DRIVER_BACKUP, 2>>}

\* A request, and how far the filter has come with it.
Asked ==
    IF pc[1] = "idle" THEN req = NoRequest
    ELSE /\ req.op \in {"FLT_READ", "FLT_WRITE"}
         /\ req.first \in Nat /\ req.n \in Nat \ {0}
         /\ req.first + req.n <= convert(NrSectors)
         /\ req.data \in Value

\* What is left of a write that still has h and t to read.
TodoAt(at, h, t) == ReadFirst(h, ReadFirst(t, <<Io("FLT_WRITE", at), Io("FLT_READ2", at)>>))
Todo(h, t) == TodoAt(At, h, t)

\* What the write reads first, and the places of its data.
HeadAt == HeadRead(req.first, req.n)
TailAt == TailRead(req.first, req.n)
Spread == {LOG2PHYS(nr) : nr \in Span(req.first, req.n)}

\* How far it has come: what is to be read first, and the buffer has the rest.
Progress ==
    Trying =>
        \/ req.op = "FLT_READ" /\ todo = <<Io("FLT_READ", At)>>
        \/ /\ req.op = "FLT_WRITE"
           /\ \E h \in {{}, HeadAt}, t \in {{}, TailAt} :
                /\ todo = Todo(h, t)
                /\ Spread \cup (HeadAt \ h) \cup (TailAt \ t) \subseteq DOMAIN ext
        \/ req.op = "FLT_WRITE" /\ todo = <<Io("FLT_READ2", At)>>

\* The messages of an operation, all there is under way while the filter waits.
Exchange ==
    /\ Waiting => pc[2] = SentTo /\ await \subseteq SentTo
    /\ pc[1] # "wait" => await = {}
    /\ ~Waiting => failed = {} /\ \A w \in Which : got[w] = NONE
    /\ \A w \in Which : amsgtable[w].state \in {"valid", "dead"} =>
          Waiting /\ w \in SentTo /\ amsgtable[w].dst = driver[w].endpt

\* The invariant of the first layer.
ControlInv == Types /\ Drivers /\ Asked /\ Progress /\ Exchange

-----------------------------------------------------------------------------
(* What is in the sectors.                                                 *)

\* The data and the checksum of a sector, in a buffer or on a disk.
Data(b, nr) == b[LOG2PHYS(nr)]
Entry(b, nr) == b[SEC2SUM_NR(nr)][nr % NR_SUM_SEC]
HasData(b, nr) == LOG2PHYS(nr) \in DOMAIN b
HasEntry(b, nr) == SEC2SUM_NR(nr) \in DOMAIN b

\* A buffer for the places at, with checksums where these belong.
Filled(b, at) ==
    b \in [at -> Sector] /\ \A p \in at : b[p] \in IF IsSum(p) THEN SumSector ELSE Value \cup {Junk}

\* The type of all that holds sectors.
Sectors ==
    /\ DOMAIN disk = Label /\ \A l \in Label : Filled(disk[l], Phys)
    /\ DOMAIN ext \subseteq Phys /\ Filled(ext, DOMAIN ext)
    /\ \A w \in Which : got[w] # NONE =>
          IF What = "FLT_WRITE" THEN got[w] = <<>> ELSE Filled(got[w], Head(todo).at)
    /\ may \in [Logical -> SUBSET Value]

\* What a sector may hold, the write under way included, and its checksum.
Allowed(nr) == may[nr] \cup IF nr \in Spanned THEN {req.data} ELSE {}
Right(nr, sum) == sum = Junk \/ \E v \in Allowed(nr) : sum = calc_sum(nr, v)

\* Every checksum of a disk in use is right, or rotten.
DiskSums == \A l \in Used, nr \in Logical : Right(nr, Entry(disk[l], nr))

\* So is every one that has been read.
GotSums ==
    Waiting /\ What = "FLT_READ" /\ got[DRIVER_MAIN] # NONE =>
        \A nr \in Logical : HasEntry(got[DRIVER_MAIN], nr) => Right(nr, Entry(got[DRIVER_MAIN], nr))

\* make_sum has filled the buffer.
Made == What = "FLT_READ2" \/ (What = "FLT_WRITE" /\ pc[1] # "send")

\* The buffer of a write has right checksums, its own data, and from make_sum on
\* its own checksums.
ExtSums ==
    Trying /\ req.op = "FLT_WRITE" =>
        /\ \A nr \in Logical : HasEntry(ext, nr) => Right(nr, Entry(ext, nr))
        /\ \A nr \in Spanned : HasData(ext, nr) /\ Data(ext, nr) = req.data
        /\ Made => /\ DOMAIN ext = At
                   /\ \A nr \in Spanned : Entry(ext, nr) = calc_sum(nr, req.data)

\* What rot leaves.
Rotten(p) == IF IsSum(p) THEN [i \in Index |-> Junk] ELSE Junk
Rotted(l, p) == <<l, p>> \in Fragile /\ disk[l][p] = Rotten(p)

\* What is read back after a write is what is on the disk, but for rot.
ReadBack ==
    Waiting /\ What = "FLT_READ2" =>
        \A w \in SentTo : got[w] # NONE =>
            \A p \in At : disk[driver[w].endpt][p] = got[w][p] \/ Rotted(driver[w].endpt, p)

\* At the end of a request: every disk in use has the checksums of what was
\* written, and what was read may be there.
Replied ==
    pc[1] = "reply" /\ r = "OK" =>
        IF req.op = "FLT_WRITE"
        THEN \A l \in Used, nr \in Spanned : Entry(disk[l], nr) \in {calc_sum(nr, req.data), Junk}
        ELSE \A nr \in Span(req.first, req.n) : Data(ext, nr) \in may[nr]

\* The invariant of the second layer.
ContentsInv == Sectors /\ DiskSums /\ GotSums /\ ExtSums /\ ReadBack /\ Replied

-----------------------------------------------------------------------------
(* The mirror.                                                             *)

\* Outside the sectors that are being written, and those that may rot, both
\* disks of a mirror hold the same.
Solid(p) == \A l \in Label : <<l, p>> \notin Fragile
InWriting(p) == req.op = "FLT_WRITE" /\ pc[1] # "reply" /\ p \in At
Agree ==
    USE_MIRROR =>
        \A p \in Phys : Solid(p) /\ ~InWriting(p) => disk[MAIN_LABEL][p] = disk[BACKUP_LABEL][p]

-----------------------------------------------------------------------------
(* Faults.                                                                 *)

\* The disks that are no longer in use.
LostFaulty == Label \ Used \subseteq faulty

\* The filter has one disk only, and that shows rot somewhere.
Spoiled(b, nr) == Data(b, nr) = Junk \/ Entry(b, nr) = Junk
Alone == ~USE_MIRROR /\ \E nr \in Logical : Spoiled(disk[driver[DRIVER_MAIN].label], nr)

\* A driver that has done nothing wrong runs, unless it is the only one and has
\* such rot, which make_sum has copied there: then it may be down, but nobody
\* waits for it.
Awake ==
    \A l \in Label \ faulty :
        l \in up \/ (Alone /\ l = driver[DRIVER_MAIN].label /\ ~Waiting)

\* A driver that has done nothing wrong does what it is asked, and that only.
Honest(l) ==
    /\ l \notin busy /\ out[l] # "EIO"
    /\ out[l] = "OK" => \E w \in await : driver[w].endpt = l
    /\ \A w \in Which : amsgtable[w].dst = l => amsgtable[w].state \in {"done", "valid"}
    /\ Waiting => \A w \in SentTo : driver[w].endpt = l =>
          /\ w \notin failed
          /\ got[w] # NONE <=> amsgtable[w].state # "valid"
          /\ w \in await => (got[w] # NONE <=> out[l] = "OK")
          /\ w \notin await => got[w] # NONE

Trusty == \A l \in Label \ faulty : Honest(l)

\* A driver the filter is about to restart or has a problem with has done
\* something wrong, or is the only one and has rot.
Suspected(w) ==
    driver[w].problem # "BD_NONE" \/ pc \in {<<"check", w, 2>>, <<"restart", w>>}
Suspects ==
    \A w \in Which : Suspected(w) =>
        \/ driver[w].label \in faulty
        \/ w = DRIVER_MAIN /\ Alone /\ pc[1] \in {"check", "restart"} /\ pc[2] = w

\* A driver that is restarted has no problem any more.
Excused == pc[1] = "restart" => driver[pc[2]].problem = "BD_NONE"

\* A request fails when both have done something wrong, or for such rot.
GaveUp ==
    pc[1] = "reply" /\ r # "OK" => faulty = Label \/ Alone

\* Rot comes to the main disk by a fault of its own only, since a write reads
\* what it has to from there.
MainClean ==
    MAIN_LABEL \notin faulty =>
        \A nr \in Logical :
            /\ ~Spoiled(disk[MAIN_LABEL], nr)
            /\ Trying /\ req.op = "FLT_WRITE" =>
                  /\ HasData(ext, nr) => Data(ext, nr) # Junk
                  /\ HasEntry(ext, nr) => Entry(ext, nr) # Junk

\* A driver that has done nothing wrong and has served its message has written
\* what is in the buffer, or read what is on the disk.
Exact ==
    Waiting =>
        \A w \in SentTo : got[w] # NONE /\ driver[w].endpt \notin faulty =>
            \A p \in Head(todo).at :
                disk[driver[w].endpt][p] = IF What = "FLT_WRITE" THEN ext[p] ELSE got[w][p]

\* Such a disk has all of the buffer when it is read back.
Copied ==
    Trying /\ What = "FLT_READ2" =>
        \A l \in Used \ faulty, p \in At : disk[l][p] = ext[p]

\* While the filter has a mirror, or a single disk that has done nothing wrong,
\* a sector shows the same data and its checksum wherever it can be seen, unless
\* it is being written or has rotted.
Healthy == USE_MIRROR \/ driver[DRIVER_MAIN].label \notin faulty
InWrite == IF pc[1] # "reply" THEN Spanned ELSE {}
Shows(b, nr, v) ==
    /\ HasData(b, nr) => Data(b, nr) \in {v, Junk}
    /\ HasEntry(b, nr) => Entry(b, nr) \in {calc_sum(nr, v), Junk}
Same ==
    Healthy => \A nr \in Logical \ InWrite : \E v \in Value :
        /\ \A l \in Used : Shows(disk[l], nr, v)
        /\ Trying /\ req.op = "FLT_WRITE" => Shows(ext, nr, v)
        /\ Waiting /\ What = "FLT_READ" /\ got[DRIVER_MAIN] # NONE => Shows(got[DRIVER_MAIN], nr, v)

\* A disk that has done nothing wrong shows some data and its checksum at every
\* sector, but for rot, in the middle of a write too.
Whole == \A l \in Label \ faulty, nr \in Logical : \E v \in Value : Shows(disk[l], nr, v)

\* The invariant of the third layer.
FaultsInv ==
    /\ LostFaulty /\ Awake /\ Trusty /\ Suspects /\ Excused /\ GaveUp
    /\ MainClean /\ Exact /\ Copied /\ Same /\ Whole

-----------------------------------------------------------------------------
(* The control of the filter.                                              *)

\* The two places for a driver.
LEMMA Names ==
    /\ Which = {DRIVER_MAIN, DRIVER_BACKUP} /\ DRIVER_MAIN # DRIVER_BACKUP
    /\ Label = {MAIN_LABEL, BACKUP_LABEL} /\ MAIN_LABEL # BACKUP_LABEL
    /\ NONE \notin Label /\ NONE # "OK" /\ NONE # "EIO"
BY FilterAssumption DEF Which, DRIVER_MAIN, DRIVER_BACKUP, Label

\* Where the filter may be.
LEMMA Places ==
    ASSUME pc \in Controls
    PROVE  \/ pc = <<"idle">> \/ pc = <<"send">> \/ pc = <<"reply">>
           \/ \E S \in SUBSET Which : pc = <<"wait", S>> \/ pc = <<"evaluate", S>>
           \/ \E w \in Which : \/ \E n \in 1 .. 2 : pc = <<"check", w, n>>
                               \/ pc = <<"restart", w>>
BY DEF Controls

\* A sequence with an element put before it.
LEMMA Before ==
    ASSUME NEW T, NEW s \in Seq(T), NEW x \in T
    PROVE  /\ <<x>> \o s \in Seq(T)
           /\ Head(<<x>> \o s) = x /\ Tail(<<x>> \o s) = s
           /\ Len(<<x>> \o s) = Len(s) + 1
<1>1. <<x>> \in Seq(T) /\ Len(<<x>>) = 1 /\ <<x>>[1] = x
  OBVIOUS
<1>2. <<x>> \o s \in Seq(T) /\ Len(<<x>> \o s) = Len(s) + 1
  BY <1>1
<1>3. Head(<<x>> \o s) = x
  BY <1>1, <1>2
<1>4. Tail(<<x>> \o s) = s
  <2>1. Tail(<<x>> \o s) \in Seq(T) /\ Len(Tail(<<x>> \o s)) = Len(s)
    BY <1>2
  <2>2. \A i \in 1 .. Len(s) : Tail(<<x>> \o s)[i] = s[i]
    BY <1>1, <1>2
  <2> QED BY <2>1, <2>2
<1> QED BY <1>2, <1>3, <1>4

\* A list of what a write still has to do begins with its first operation.
LEMMA TodoAtHead ==
    ASSUME NEW at, NEW h, NEW t
    PROVE  /\ Len(TodoAt(at, h, t)) > 1
           /\ h # {} => Head(TodoAt(at, h, t)) = Io("FLT_READ", h) /\ Tail(TodoAt(at, h, t)) = TodoAt(at, {}, t)
           /\ h = {} /\ t # {} =>
                Head(TodoAt(at, h, t)) = Io("FLT_READ", t) /\ Tail(TodoAt(at, h, t)) = TodoAt(at, {}, {})
           /\ h = {} /\ t = {} =>
                /\ Head(TodoAt(at, h, t)) = Io("FLT_WRITE", at)
                /\ Tail(TodoAt(at, h, t)) = <<Io("FLT_READ2", at)>>
<1> DEFINE T == {Io("FLT_READ", h), Io("FLT_READ", t), Io("FLT_WRITE", at), Io("FLT_READ2", at)}
           ws == <<Io("FLT_WRITE", at), Io("FLT_READ2", at)>>
<1>1. Io("FLT_READ", h) \in T /\ Io("FLT_READ", t) \in T
  OBVIOUS
<1>2. /\ ws \in Seq(T) /\ Len(ws) > 1 /\ Head(ws) = Io("FLT_WRITE", at)
      /\ Tail(ws) = <<Io("FLT_READ2", at)>>
  OBVIOUS
<1> HIDE DEF T, ws
<1>3. ASSUME NEW u, NEW s \in Seq(T), Io("FLT_READ", u) \in T, Len(s) > 1
      PROVE  /\ ReadFirst(u, s) \in Seq(T) /\ Len(ReadFirst(u, s)) > 1
             /\ u # {} => Head(ReadFirst(u, s)) = Io("FLT_READ", u) /\ Tail(ReadFirst(u, s)) = s
  <2>1. CASE u = {}
    BY <1>3, <2>1 DEF ReadFirst
  <2>2. CASE u # {}
    <3> DEFINE x == Io("FLT_READ", u)
    <3>1. ReadFirst(u, s) = <<x>> \o s
      BY <2>2 DEF ReadFirst
    <3> HIDE DEF x
    <3>2. /\ <<x>> \o s \in Seq(T) /\ Head(<<x>> \o s) = x /\ Tail(<<x>> \o s) = s
          /\ Len(<<x>> \o s) = Len(s) + 1
      BY <1>3, Before DEF x
    <3>3. Len(s) + 1 > 1
      BY <1>3
    <3> QED BY <3>1, <3>2, <3>3 DEF x
  <2> QED BY <2>1, <2>2
<1>4. /\ ReadFirst(t, ws) \in Seq(T) /\ Len(ReadFirst(t, ws)) > 1
      /\ t # {} => Head(ReadFirst(t, ws)) = Io("FLT_READ", t) /\ Tail(ReadFirst(t, ws)) = ws
  BY <1>1, <1>2, <1>3
<1>7. /\ Len(ReadFirst(h, ReadFirst(t, ws))) > 1
      /\ h # {} => /\ Head(ReadFirst(h, ReadFirst(t, ws))) = Io("FLT_READ", h)
                   /\ Tail(ReadFirst(h, ReadFirst(t, ws))) = ReadFirst(t, ws)
  BY <1>1, <1>3, <1>4
<1>5. \A s : ReadFirst({}, s) = s
  BY DEF ReadFirst
<1>6. \A x, y : TodoAt(at, x, y) = ReadFirst(x, ReadFirst(y, ws))
  BY DEF TodoAt, ws
<1>8. CASE h # {}
  BY <1>5, <1>6, <1>7, <1>8
<1>9. CASE h = {} /\ t # {}
  <2>1. TodoAt(at, h, t) = ReadFirst(t, ws) /\ TodoAt(at, {}, {}) = ws
    BY <1>5, <1>6, <1>9
  <2> QED BY <1>4, <1>9, <2>1
<1>10. CASE h = {} /\ t = {}
  <2>1. TodoAt(at, h, t) = ws
    BY <1>5, <1>6, <1>10
  <2> QED BY <1>2, <1>10, <2>1
<1> QED BY <1>8, <1>9, <1>10

\* The same of the list of the request under way.
LEMMA TodoHead ==
    ASSUME NEW h, NEW t
    PROVE  /\ Len(Todo(h, t)) > 1
           /\ h # {} => Head(Todo(h, t)) = Io("FLT_READ", h) /\ Tail(Todo(h, t)) = Todo({}, t)
           /\ h = {} /\ t # {} =>
                Head(Todo(h, t)) = Io("FLT_READ", t) /\ Tail(Todo(h, t)) = Todo({}, {})
           /\ h = {} /\ t = {} =>
                /\ Head(Todo(h, t)) = Io("FLT_WRITE", At)
                /\ Tail(Todo(h, t)) = <<Io("FLT_READ2", At)>>
BY TodoAtHead DEF Todo

\* What the operation under way is.
LEMMA Operation ==
    ASSUME Asked, Progress, Trying
    PROVE  /\ What \in {"FLT_READ", "FLT_WRITE", "FLT_READ2"}
           /\ req.op = "FLT_READ" => What = "FLT_READ" /\ Head(todo).at = At /\ Len(todo) = 1
           /\ req.op = "FLT_WRITE" /\ What = "FLT_READ" =>
                /\ Len(todo) > 1
                /\ Head(todo).at \in {HeadAt, TailAt} \ {{}}
           /\ What # "FLT_READ" => req.op = "FLT_WRITE" /\ Head(todo).at = At
           /\ What = "FLT_WRITE" =>
                /\ Tail(todo) = <<Io("FLT_READ2", At)>>
                /\ Spread \cup HeadAt \cup TailAt \subseteq DOMAIN ext
           /\ What = "FLT_READ2" => todo = <<Io("FLT_READ2", At)>>
<1>1. CASE req.op = "FLT_READ" /\ todo = <<Io("FLT_READ", At)>>
  BY <1>1 DEF What, Io
<1>2. CASE req.op = "FLT_WRITE" /\ todo = <<Io("FLT_READ2", At)>>
  BY <1>2 DEF What, Io
<1>3. ASSUME req.op = "FLT_WRITE", NEW h \in {{}, HeadAt}, NEW t \in {{}, TailAt}, todo = Todo(h, t),
             Spread \cup (HeadAt \ h) \cup (TailAt \ t) \subseteq DOMAIN ext
      PROVE  /\ What = "FLT_READ" => Len(todo) > 1 /\ Head(todo).at \in {HeadAt, TailAt} \ {{}}
             /\ What # "FLT_READ" => What = "FLT_WRITE" /\ Head(todo).at = At
             /\ What = "FLT_WRITE" => /\ Tail(todo) = <<Io("FLT_READ2", At)>>
                                      /\ Spread \cup HeadAt \cup TailAt \subseteq DOMAIN ext
  <2>1. CASE h # {}
    <3>1. Head(todo) = Io("FLT_READ", h) /\ Len(todo) > 1
      BY <1>3, <2>1, TodoHead
    <3> QED BY <1>3, <2>1, <3>1 DEF What, Io
  <2>2. CASE h = {} /\ t # {}
    <3>1. Head(todo) = Io("FLT_READ", t) /\ Len(todo) > 1
      BY <1>3, <2>2, TodoHead
    <3> QED BY <1>3, <2>2, <3>1 DEF What, Io
  <2>3. CASE h = {} /\ t = {}
    <3>1. Head(todo) = Io("FLT_WRITE", At) /\ Tail(todo) = <<Io("FLT_READ2", At)>>
      BY <1>3, <2>3, TodoHead
    <3> QED BY <1>3, <2>3, <3>1 DEF What, Io
  <2> QED BY <2>1, <2>2, <2>3
<1> QED BY <1>1, <1>2, <1>3 DEF Progress

\* What a step leaves alone of the filter's own plan.
LEMMA SamePlan ==
    ASSUME ControlInv, UNCHANGED <<driver, USE_MIRROR, pc, req, todo, ext>>
    PROVE  Drivers' /\ Asked' /\ Progress'
BY DEF ControlInv, Drivers, Asked, Progress, Trying, Waiting, Todo, At, HeadAt, TailAt, Spread

\* A driver that serves its message preserves ControlInv.
LEMMA ServeControl ==
    ASSUME ControlInv, NEW l \in Label, NEW w \in Which, Serve(l, w)
    PROVE  ControlInv'
<1>1. /\ l \in up /\ l \notin busy /\ amsgtable[w] = [dst |-> l, state |-> "valid"]
      /\ amsgtable' = [amsgtable EXCEPT ![w] = Done]
      /\ DOMAIN got' = DOMAIN got /\ \A v \in Which : v # w => got'[v] = got[v]
      /\ out' = [out EXCEPT ![l] = "OK"]
      /\ UNCHANGED <<up, busy, updated, driver, USE_MIRROR, pc, req, todo, ext, r, await, failed, faulty>>
  BY DEF Serve, Free, Sent, Reply_to, ControlInv, Types, request, history, ds
<1>2. Drivers' /\ Asked' /\ Progress'
  BY <1>1, SamePlan
<1>3. Types'
  BY <1>1, Names DEF ControlInv, Types, Message, Done
<1>4. Exchange'
  BY <1>1, <1>3 DEF ControlInv, Exchange, Types, Message, Done, Waiting, SentTo, What
<1> QED BY <1>2, <1>3, <1>4 DEF ControlInv

\* One that refuses it preserves ControlInv.
LEMMA RefuseControl ==
    ASSUME ControlInv, NEW l \in Label, Refuse(l)
    PROVE  ControlInv'
<1>1. /\ busy' \subseteq busy
      /\ \A v \in Which : amsgtable'[v] \in {amsgtable[v], Done}
      /\ amsgtable' \in [Which -> Message]
      /\ out' = [out EXCEPT ![l] = "EIO"]
      /\ UNCHANGED <<up, updated, driver, USE_MIRROR, pc, req, todo, ext, r, await, got, failed, faulty>>
  BY Names DEF Refuse, Reply_to, ControlInv, Types, request, history, Done, Message, ds
<1>2. Drivers' /\ Asked' /\ Progress'
  BY <1>1, SamePlan
<1>3. Types'
  BY <1>1, Names DEF ControlInv, Types
<1>4. Exchange'
  BY <1>1 DEF ControlInv, Exchange, Done, Waiting, SentTo, What
<1> QED BY <1>2, <1>3, <1>4 DEF ControlInv

\* Messages that are given up on.
LEMMA TornControl ==
    ASSUME Types, NEW l \in Label, NEW w \in Which, Torn(l, w)
    PROVE  /\ amsgtable' \in [Which -> Message]
           /\ \A v \in Which : amsgtable'[v] \in {amsgtable[v], Done}
BY Names DEF Torn, Types, Done, Message

\* One that reports an error preserves ControlInv.
LEMMA FailControl ==
    ASSUME ControlInv, NEW l \in Label, Fail(l)
    PROVE  ControlInv'
<1>1. /\ amsgtable' \in [Which -> Message]
      /\ \A v \in Which : amsgtable'[v] \in {amsgtable[v], Done}
  BY TornControl DEF Fail, ControlInv
<1>2. /\ out' = [out EXCEPT ![l] = "EIO"] /\ faulty' = faulty \cup {l}
      /\ UNCHANGED <<up, busy, updated, driver, USE_MIRROR, pc, req, todo, ext, r, await, got, failed>>
  BY DEF Fail, Reply_to, request, Blame, ds
<1>3. Drivers' /\ Asked' /\ Progress'
  BY <1>2, SamePlan
<1>4. Types'
  BY <1>1, <1>2, Names DEF ControlInv, Types
<1>5. Exchange'
  BY <1>1, <1>2 DEF ControlInv, Exchange, Done, Waiting, SentTo, What
<1> QED BY <1>3, <1>4, <1>5 DEF ControlInv

\* A crash preserves ControlInv.
LEMMA CrashControl ==
    ASSUME ControlInv, NEW l \in Label, Crash(l)
    PROVE  ControlInv'
<1>1. /\ amsgtable' \in [Which -> Message]
      /\ \A v \in Which : amsgtable'[v] \in {amsgtable[v], Done}
  <2>1. CASE UNCHANGED amsgtable
    BY <2>1 DEF ControlInv, Types
  <2> QED BY <2>1, TornControl DEF Crash, ControlInv
<1>2. /\ out' = [out EXCEPT ![l] = NONE] /\ faulty' = faulty \cup {l}
      /\ up' = up \ {l} /\ busy' = busy \ {l}
      /\ UNCHANGED <<updated, driver, USE_MIRROR, pc, req, todo, ext, r, await, got, failed>>
  BY DEF Crash, Stopped, request, Blame, ds
<1>3. Drivers' /\ Asked' /\ Progress'
  BY <1>2, SamePlan
<1>4. Types'
  BY <1>1, <1>2, Names DEF ControlInv, Types
<1>5. Exchange'
  BY <1>1, <1>2 DEF ControlInv, Exchange, Done, Waiting, SentTo, What
<1> QED BY <1>3, <1>4, <1>5 DEF ControlInv

\* A start of a driver preserves ControlInv.
LEMMA StartControl ==
    ASSUME ControlInv, NEW l \in Label, Start(l)
    PROVE  ControlInv'
<1>1. /\ up' = up \cup {l} /\ updated' = updated \cup {l}
      /\ UNCHANGED <<busy, out, amsgtable, driver, USE_MIRROR, pc, req, todo, ext, r, await, got, failed, faulty>>
  BY DEF Start, request, exchange, history
<1>2. Drivers' /\ Asked' /\ Progress'
  BY <1>1, SamePlan
<1>3. Types'
  BY <1>1 DEF ControlInv, Types
<1>4. Exchange'
  BY <1>1 DEF ControlInv, Exchange, Waiting, SentTo, What
<1> QED BY <1>2, <1>3, <1>4 DEF ControlInv

\* Rot preserves ControlInv.
LEMMA RotControl ==
    ASSUME ControlInv, NEW l \in Label, NEW p \in Phys, Rot(l, p)
    PROVE  ControlInv'
<1>1. /\ faulty' = faulty \cup {l}
      /\ UNCHANGED <<up, busy, updated, out, amsgtable, driver, USE_MIRROR, pc, req, todo, ext, r, await, got, failed>>
  BY DEF Rot, request, exchange, Blame, ds
<1>2. Drivers' /\ Asked' /\ Progress'
  BY <1>1, SamePlan
<1>3. Types'
  BY <1>1 DEF ControlInv, Types
<1>4. Exchange'
  BY <1>1 DEF ControlInv, Exchange, Waiting, SentTo, What
<1> QED BY <1>2, <1>3, <1>4 DEF ControlInv

\* An event of DS preserves ControlInv.
LEMMA EventControl ==
    ASSUME ControlInv, Event
    PROVE  ControlInv'
<1>1. PICK l \in updated :
        /\ updated' = updated \ {l}
        /\ \/ driver' = driver
           \/ \E v \in Which : driver' = [driver EXCEPT ![v].up_event =
                                  IF @ = "UP_EXPECTED" THEN "UP_NONE" ELSE "UP_PENDING"]
  BY Names DEF Event, ds_event
<1>2. /\ UNCHANGED <<disk, up, busy, out, amsgtable, USE_MIRROR, pc, req, todo, ext, r, await, got, failed, faulty>>
  BY DEF Event, external, request, exchange, history
<1>3. /\ driver' \in [Which -> DriverState]
      /\ \A v \in Which : /\ driver'[v].label = driver[v].label /\ driver'[v].endpt = driver[v].endpt
                          /\ driver'[v].problem = driver[v].problem
  BY <1>1 DEF ControlInv, Types, DriverState
<1>4. Types'
  BY <1>1, <1>2, <1>3 DEF ControlInv, Types
<1>5. Drivers'
  BY <1>2, <1>3, Names DEF ControlInv, Drivers
<1>6. Asked' /\ Progress' /\ Exchange'
  BY <1>2, <1>3 DEF ControlInv, Asked, Progress, Exchange, Trying, Waiting, Todo, At, HeadAt, TailAt,
                    Spread, SentTo, What
<1> QED BY <1>4, <1>5, <1>6 DEF ControlInv

\* The list of a request that is tried, or tried again.
LEMMA TransferControl ==
    ASSUME Transfer(req'), req'.op \in {"FLT_READ", "FLT_WRITE"}
    PROVE  /\ Progress'
           /\ pc' = <<"send">>
           /\ req'.op = "FLT_WRITE" => DOMAIN ext' = Spread'
<1>1. /\ todo' = transfer(req') /\ pc' = <<"send">>
      /\ req'.op = "FLT_WRITE" => DOMAIN ext' = Spread'
  BY DEF Transfer, expand, Spread
<1>2. CASE req'.op = "FLT_READ"
  BY <1>1, <1>2 DEF Progress, transfer, At
<1>3. CASE req'.op = "FLT_WRITE"
  <2>1. todo' = Todo(HeadAt, TailAt)'
    BY <1>1, <1>3 DEF transfer, Todo, TodoAt, HeadAt, TailAt, At
  <2>2. (Spread \cup (HeadAt \ HeadAt) \cup (TailAt \ TailAt) \subseteq DOMAIN ext)'
    BY <1>1, <1>3
  <2>3. (\E h \in {{}, HeadAt}, t \in {{}, TailAt} :
            /\ todo = Todo(h, t)
            /\ Spread \cup (HeadAt \ h) \cup (TailAt \ t) \subseteq DOMAIN ext)'
    BY <2>1, <2>2
  <2> QED BY <1>1, <1>3, <2>3 DEF Progress
<1> QED BY <1>1, <1>2, <1>3

\* The beginning of a request preserves ControlInv.
LEMMA RequestControl ==
    ASSUME ControlInv, Request
    PROVE  ControlInv'
<1>1. PICK s \in Requests, data \in Value, op \in {"FLT_READ", "FLT_WRITE"} :
        do_rdwt([op |-> op, first |-> s[1], n |-> s[2], data |-> data])
  BY DEF Request
<1> DEFINE q == [op |-> op, first |-> s[1], n |-> s[2], data |-> data]
<1>2. /\ pc[1] = "idle" /\ req' = q /\ Transfer(req')
      /\ driver' = [w \in Which |-> [driver[w] EXCEPT !.retries = 0, !.kills = 0]]
      /\ UNCHANGED <<disk, up, busy, out, updated, amsgtable, await, got, failed, USE_MIRROR, r, may, faulty>>
  BY <1>1 DEF do_rdwt, external, exchange, history, ds
<1>3. /\ q.op = op /\ q.first = s[1] /\ q.n = s[2] /\ q.data = data
      /\ s[1] \in Nat /\ s[2] \in Nat \ {0} /\ s[1] + s[2] <= convert(NrSectors)
  BY FilterAssumption
<1>4. Progress' /\ pc' = <<"send">>
  BY <1>2, <1>3, TransferControl
<1>5. Asked'
  BY <1>2, <1>3, <1>4 DEF Asked
<1>6. /\ driver' \in [Which -> DriverState]
      /\ \A v \in Which : /\ driver'[v].label = driver[v].label /\ driver'[v].endpt = driver[v].endpt
                          /\ driver'[v].problem = driver[v].problem
  <2>1. ASSUME NEW d \in DriverState
        PROVE  LET e == [d EXCEPT !.retries = 0, !.kills = 0]
               IN  e \in DriverState /\ e.label = d.label /\ e.endpt = d.endpt /\ e.problem = d.problem
    BY DEF DriverState
  <2>2. \A w \in Which : driver[w] \in DriverState
    BY DEF ControlInv, Types
  <2> QED BY <1>2, <2>1, <2>2
<1>7. Types'
  BY <1>2, <1>4, <1>6 DEF ControlInv, Types, Controls
<1>8. Drivers'
  BY <1>2, <1>4, <1>6, Names DEF ControlInv, Drivers
<1>9. Exchange'
  BY <1>2, <1>4 DEF ControlInv, Exchange, Waiting
<1> QED BY <1>4, <1>5, <1>7, <1>8, <1>9 DEF ControlInv

\* The grants go, and with them the messages that wait for an answer.
LEMMA RevokeControl ==
    ASSUME Types, NEW table \in [Which -> Message], Revoke(table),
           \A w \in Which : table[w].state = "valid" => table[w].dst \in Label
    PROVE  /\ amsgtable' \in [Which -> Message]
           /\ \A w \in Which : /\ amsgtable'[w].state \in {"done", "revoked"}
                               /\ table[w].state \notin {"valid", "dead"} => amsgtable'[w] = table[w]
                               /\ table[w].state = "dead" => amsgtable'[w] = Done
                               /\ table[w].state = "valid" =>
                                    amsgtable'[w] \in {[table[w] EXCEPT !.state = "revoked"], Done}
           /\ busy' \subseteq Label
           /\ \A l \in busy' \ busy :
                 \E w \in Which : table[w] = [dst |-> l, state |-> "valid"]
           /\ await' = {} /\ disk' = disk /\ up' = up /\ out' = out
<1> DEFINE valid == {w \in Which : table[w].state = "valid"}
<1>1. PICK taken \in SUBSET valid :
        /\ amsgtable' = [w \in Which |->
                            CASE w \in valid \ taken -> [table[w] EXCEPT !.state = "revoked"]
                              [] w \in taken \/ table[w].state = "dead" -> Done
                              [] OTHER -> table[w]]
        /\ busy' = busy \cup {table[w].dst : w \in taken}
  BY DEF Revoke
<1>2. \A w \in Which :
        /\ w \in valid => table[w].state = "valid" /\ amsgtable'[w] \in {[table[w] EXCEPT !.state = "revoked"], Done}
        /\ w \notin valid /\ table[w].state = "dead" => amsgtable'[w] = Done
        /\ w \notin valid /\ table[w].state # "dead" => amsgtable'[w] = table[w]
  <2> SUFFICES ASSUME NEW w \in Which
      PROVE  /\ w \in valid => table[w].state = "valid" /\ amsgtable'[w] \in {[table[w] EXCEPT !.state = "revoked"], Done}
             /\ w \notin valid /\ table[w].state = "dead" => amsgtable'[w] = Done
             /\ w \notin valid /\ table[w].state # "dead" => amsgtable'[w] = table[w]
    OBVIOUS
  <2>1. CASE w \in taken
    BY <1>1, <2>1
  <2>2. CASE w \in valid \ taken
    BY <1>1, <2>2
  <2>3. CASE w \notin valid
    BY <1>1, <2>3
  <2> QED BY <2>1, <2>2, <2>3
<1>3. amsgtable' \in [Which -> Message]
  <2>1. amsgtable' = [w \in Which |-> amsgtable'[w]]
    BY <1>1
  <2>2. \A w \in Which : amsgtable'[w] \in Message
    BY <1>2, Names DEF Message, Done
  <2> QED BY <2>1, <2>2
<1>4. \A w \in taken : table[w] = [dst |-> table[w].dst, state |-> "valid"]
  BY <1>1 DEF Message
<1>5. await' = {} /\ disk' = disk /\ up' = up /\ out' = out
  BY DEF Revoke
<1>6. \A w \in Which : table[w].state \in {"done", "valid", "revoked", "dead"}
  BY DEF Message
<1>7. \A w \in Which : amsgtable'[w].state \in {"done", "revoked"}
  BY <1>2, <1>6 DEF Done, Message
<1>8. busy' \subseteq Label
  BY <1>1 DEF Types
<1> QED BY <1>1, <1>2, <1>3, <1>4, <1>5, <1>7, <1>8

\* A try that fails.
LEMMA RedoControl ==
    ASSUME ControlInv, Waiting \/ pc[1] = "send", NEW d \in [Which -> DriverState], Redo(d),
           \A w \in Which : d[w].label = driver[w].label /\ d[w].endpt = driver[w].endpt,
           USE_MIRROR \/ d[DRIVER_BACKUP].problem = driver[DRIVER_BACKUP].problem,
           NEW table \in [Which -> Message], Revoke(table),
           \A w \in Which : table[w].state = "valid" => table[w].dst \in Label,
           updated' = updated, USE_MIRROR' = USE_MIRROR, faulty' \subseteq Label
    PROVE  ControlInv'
<1>1. /\ driver' = d /\ pc' = <<"check", DRIVER_MAIN, 1>> /\ failed' = {}
      /\ got' = [w \in Which |-> NONE] /\ req' = req /\ r' = r
  BY DEF Redo
<1>2. /\ amsgtable' \in [Which -> Message] /\ busy' \subseteq Label
      /\ \A w \in Which : amsgtable'[w].state \in {"done", "revoked"}
      /\ await' = {} /\ up' = up /\ out' = out
  BY RevokeControl DEF ControlInv
<1>3. Types'
  BY <1>1, <1>2, Names DEF ControlInv, Types, Controls
<1>4. Drivers'
  BY <1>1, Names DEF ControlInv, Drivers
<1>5. Asked'
  BY <1>1 DEF ControlInv, Asked, Waiting
<1>6. Progress'
  BY <1>1 DEF Progress, Trying, Waiting
<1>7. Exchange'
  BY <1>1, <1>2 DEF Exchange, Waiting
<1> QED BY <1>3, <1>4, <1>5, <1>6, <1>7 DEF ControlInv

\* One driver is bad.
LEMMA BadDriver ==
    ASSUME Types, NEW w \in Which, NEW problem \in {"BD_DEAD", "BD_PROTO", "BD_DATA"}
    PROVE  LET d == bad_driver(driver, w, problem)
           IN  /\ d \in [Which -> DriverState]
               /\ \A v \in Which : /\ d[v].label = driver[v].label /\ d[v].endpt = driver[v].endpt
                                   /\ d[v].up_event = driver[v].up_event
                                   /\ v # w => d[v] = driver[v]
               /\ d[w].problem = problem
BY DEF bad_driver, Types, DriverState

\* The beginning of read_write preserves ControlInv.
LEMMA SendControl ==
    ASSUME ControlInv, read_write
    PROVE  ControlInv'
<1> DEFINE table == [w \in Which |->
                        IF w \in SentTo
                        THEN [dst   |-> driver[w].endpt,
                              state |-> IF driver[w].endpt \in up THEN "valid" ELSE "dead"]
                        ELSE amsgtable[w]]
<1>1. /\ pc[1] = "send" /\ UNCHANGED <<updated, USE_MIRROR, may, faulty>>
      /\ \/ /\ SentTo # Which /\ check_senda(table, DRIVER_MAIN) = "BD_DEAD"
            /\ Revoke(table)
            /\ Redo(bad_driver(driver, DRIVER_MAIN, "BD_DEAD"))
         \/ /\ amsgtable' = table
            /\ await' = SentTo
            /\ got' = [w \in Which |-> NONE] /\ failed' = {}
            /\ ext' = IF What = "FLT_WRITE" THEN make_sum(req.first, req.n, ext) ELSE ext
            /\ pc' = <<"wait", SentTo>>
            /\ UNCHANGED <<disk, up, busy, out, driver, req, asked, todo, r>>
  BY DEF read_write, SentTo, What, external, history, ds
<1>2. SentTo \in SUBSET Which
  BY Names DEF SentTo
<1>3. table \in [Which -> Message]
  BY DEF ControlInv, Types, DriverState, Message
<1>4. \A w \in Which : driver[w].endpt \in Label \cup {NONE}
  BY DEF ControlInv, Types, DriverState
<1>5. \A w \in SentTo : driver[w].endpt \in Label
  <2>1. \A w \in Which : driver[w].label \in Label
    BY DEF ControlInv, Types, DriverState
  <2> QED BY <2>1, Names DEF SentTo, ControlInv, Drivers
<1>6. \A w \in Which : w \notin SentTo => table[w] = amsgtable[w] /\ amsgtable[w].state \notin {"valid", "dead"}
  BY <1>1 DEF ControlInv, Exchange, Waiting
<1>7. \A w \in SentTo : table[w].dst = driver[w].endpt
  BY <1>2
<1> HIDE DEF table
<1>8. CASE /\ Revoke(table)
           /\ Redo(bad_driver(driver, DRIVER_MAIN, "BD_DEAD"))
  <2> DEFINE d == bad_driver(driver, DRIVER_MAIN, "BD_DEAD")
  <2>1. /\ d \in [Which -> DriverState]
        /\ \A v \in Which : /\ d[v].label = driver[v].label /\ d[v].endpt = driver[v].endpt
                            /\ v # DRIVER_MAIN => d[v] = driver[v]
    BY BadDriver, Names DEF ControlInv
  <2>2. \A w \in Which : table[w].state = "valid" => table[w].dst \in Label
    BY <1>5, <1>6, <1>7
  <2>3. faulty' \subseteq Label
    BY <1>1 DEF ControlInv, Types
  <2> HIDE DEF d
  <2> QED BY <1>1, <1>3, <1>8, <2>1, <2>2, <2>3, RedoControl, Names DEF d
<1>9. CASE /\ amsgtable' = table
           /\ await' = SentTo
           /\ got' = [w \in Which |-> NONE] /\ failed' = {}
           /\ ext' = IF What = "FLT_WRITE" THEN make_sum(req.first, req.n, ext) ELSE ext
           /\ pc' = <<"wait", SentTo>>
           /\ UNCHANGED <<disk, up, busy, out, driver, req, asked, todo, r>>
  <2>1. Types'
    BY <1>1, <1>2, <1>3, <1>9 DEF ControlInv, Types, Controls
  <2>2. Drivers'
    BY <1>1, <1>9 DEF ControlInv, Drivers
  <2>3. Asked'
    BY <1>1, <1>9 DEF ControlInv, Asked
  <2>4. Trying /\ SentTo' = SentTo /\ Trying'
    BY <1>1, <1>9 DEF SentTo, What, Trying, Waiting
  <2>5. Progress'
    <3>1. At' = At /\ HeadAt' = HeadAt /\ TailAt' = TailAt /\ Spread' = Spread /\ todo' = todo /\ req' = req
      BY <1>9 DEF At, HeadAt, TailAt, Spread
    <3>2. \A h, t : Todo(h, t)' = Todo(h, t)
      BY <3>1 DEF Todo
    <3>3. CASE ext' = ext
      BY <2>4, <3>1, <3>2, <3>3 DEF ControlInv, Progress
    <3>4. CASE What = "FLT_WRITE"
      <4>1. Spread \cup HeadAt \cup TailAt \subseteq At /\ DOMAIN ext' = At
        <5>1. DOMAIN ext' = At
          BY <1>9, <3>4 DEF make_sum, At
        <5>2. Spread \subseteq At
          BY <1>1, InBuffer DEF ControlInv, Asked, Spread, At
        <5>3. HeadAt \cup TailAt \subseteq At
          BY <1>1, ReadsInBuffer DEF ControlInv, Asked, HeadAt, TailAt, At
        <5> QED BY <5>1, <5>2, <5>3
      <4> QED BY <2>4, <3>1, <3>2, <4>1 DEF ControlInv, Progress
    <3> QED BY <1>9, <3>3, <3>4
  <2>6. Exchange'
    BY <1>1, <1>6, <1>7, <1>9, <2>4 DEF ControlInv, Exchange, Waiting
  <2> QED BY <2>1, <2>2, <2>3, <2>5, <2>6 DEF ControlInv
<1> QED BY <1>1, <1>8, <1>9

\* A reply that is received preserves ControlInv.
LEMMA ReceiveControl ==
    ASSUME ControlInv, NEW w \in Which, flt_receive(w)
    PROVE  ControlInv'
<1>1. /\ pc[1] = "wait" /\ w \in await
      /\ out' = [out EXCEPT ![driver[w].endpt] = NONE]
      /\ failed' \subseteq failed \cup {w}
      /\ await' = await \ {w}
      /\ pc' = IF await' = {} THEN <<"evaluate", pc[2]>> ELSE pc
      /\ UNCHANGED <<disk, up, busy, updated, amsgtable, got, driver, USE_MIRROR, req, todo, ext, r, faulty>>
  BY DEF flt_receive, request, history, ds
<1>2. pc = <<"wait", SentTo>> /\ SentTo \in SUBSET Which
  BY <1>1, Places, Names DEF ControlInv, Types, Exchange, Waiting, SentTo
<1>3. pc' = pc \/ pc' = <<"evaluate", SentTo>>
  BY <1>1, <1>2
<1>4. Types'
  <2>1. pc' \in Controls
    BY <1>2, <1>3 DEF Controls
  <2>2. out' \in [Label -> {NONE, "OK", "EIO"}]
    BY <1>1 DEF ControlInv, Types
  <2> QED BY <1>1, <2>1, <2>2 DEF ControlInv, Types
<1>5. Drivers' /\ Asked'
  BY <1>1, <1>2, <1>3 DEF ControlInv, Drivers, Asked
<1>6. Trying /\ Waiting /\ Waiting' /\ SentTo' = SentTo
  BY <1>1, <1>2, <1>3 DEF Trying, Waiting, SentTo, What
<1>7. Progress'
  BY <1>1, <1>6 DEF ControlInv, Progress, Todo, At, HeadAt, TailAt, Spread
<1>8. Exchange'
  BY <1>1, <1>2, <1>3, <1>6 DEF ControlInv, Exchange
<1> QED BY <1>4, <1>5, <1>7, <1>8 DEF ControlInv

\* A reply that is skipped preserves ControlInv.
LEMMA StrayControl ==
    ASSUME ControlInv, NEW l \in Label, Stray(l)
    PROVE  ControlInv'
<1>1. /\ out' = [out EXCEPT ![l] = NONE]
      /\ UNCHANGED <<up, busy, updated, amsgtable, driver, USE_MIRROR, pc, req, todo, ext, r, await, got, failed, faulty>>
  BY DEF Stray, request, exchange, history, ds
<1>2. Drivers' /\ Asked' /\ Progress'
  BY <1>1, SamePlan
<1>3. Types'
  BY <1>1 DEF ControlInv, Types
<1>4. Exchange'
  BY <1>1 DEF ControlInv, Exchange, Waiting, SentTo, What
<1> QED BY <1>2, <1>3, <1>4 DEF ControlInv

\* Whom the filter asks, it knows.
LEMMA Reached ==
    ASSUME Types, Drivers
    PROVE  /\ \A w \in Which : driver[w].label \in Label
           /\ \A w \in SentTo : driver[w].endpt = driver[w].label /\ driver[w].endpt \in Used
           /\ SentTo \subseteq Which /\ DRIVER_MAIN \in SentTo
           /\ \A v, w \in SentTo : driver[v].endpt = driver[w].endpt => v = w
           /\ DRIVER_BACKUP \in SentTo => USE_MIRROR
           /\ Used \subseteq Label /\ driver[DRIVER_MAIN].label \in Used
           /\ \A l \in Label : InUse(l) <=> l \in Used
<1>1. \A w \in Which : driver[w].label \in Label
  BY DEF Types, DriverState
<1>2. SentTo \subseteq Which /\ DRIVER_MAIN \in SentTo /\ (DRIVER_BACKUP \in SentTo => USE_MIRROR)
  BY Names DEF SentTo
<1>3. \A w \in SentTo : driver[w].endpt = driver[w].label /\ driver[w].endpt \in Used
  BY <1>1, <1>2, Names DEF Drivers, Used
<1>4. \A v, w \in SentTo : driver[v].endpt = driver[w].endpt => v = w
  BY <1>2, <1>3, Names DEF Drivers
<1>5. Used \subseteq Label /\ driver[DRIVER_MAIN].label \in Used
  BY <1>1, Names DEF Used
<1>6. \A l \in Label : InUse(l) <=> l \in Used
  BY <1>1, Names DEF InUse, Drivers, Used
<1> QED BY <1>1, <1>2, <1>3, <1>4, <1>5, <1>6

\* The messages that are under way go to drivers in use.
LEMMA SentToUsed ==
    ASSUME ControlInv, NEW w \in Which, amsgtable[w].state \in {"valid", "dead"}
    PROVE  /\ Waiting /\ w \in SentTo
           /\ amsgtable[w].dst = driver[w].endpt /\ amsgtable[w].dst \in Used
           /\ amsgtable[w].dst \in Label
BY Reached DEF ControlInv, Exchange

\* The alarm preserves ControlInv.
LEMMA TimeoutControl ==
    ASSUME ControlInv, Timeout
    PROVE  ControlInv'
<1> DEFINE d == [w \in Which |-> IF w \in await
                                 THEN [driver[w] EXCEPT !.problem = check_senda(amsgtable, w)] ELSE driver[w]]
           late == {driver[w].endpt : w \in {v \in await : Pending(v)}}
<1>1. /\ pc[1] = "wait" /\ faulty' = faulty \cup late /\ Redo(d) /\ Revoke(amsgtable)
      /\ UNCHANGED <<updated, USE_MIRROR, may>>
  BY DEF Timeout, Blame, ds
<1>2. await \subseteq SentTo
  BY <1>1 DEF ControlInv, Exchange, Waiting
<1>3. /\ d \in [Which -> DriverState]
      /\ \A v \in Which : /\ d[v].label = driver[v].label /\ d[v].endpt = driver[v].endpt
                          /\ v \notin await => d[v] = driver[v]
  <2>1. ASSUME NEW e \in DriverState, NEW problem \in {"BD_DEAD", "BD_PROTO"}
        PROVE  LET f == [e EXCEPT !.problem = problem]
               IN  f \in DriverState /\ f.label = e.label /\ f.endpt = e.endpt
    BY DEF DriverState
  <2>2. \A w \in Which : driver[w] \in DriverState /\ check_senda(amsgtable, w) \in {"BD_DEAD", "BD_PROTO"}
    BY DEF ControlInv, Types, check_senda
  <2> QED BY <2>1, <2>2
<1>4. USE_MIRROR \/ d[DRIVER_BACKUP].problem = driver[DRIVER_BACKUP].problem
  BY <1>2, <1>3, Reached, Names DEF ControlInv
<1>5. late \subseteq Label
  BY <1>2, Reached DEF ControlInv
<1>6. /\ amsgtable \in [Which -> Message]
      /\ \A w \in Which : amsgtable[w].state = "valid" => amsgtable[w].dst \in Label
  BY SentToUsed DEF ControlInv, Types
<1>7. faulty' \subseteq Label
  BY <1>1, <1>5 DEF ControlInv, Types
<1> HIDE DEF d, late
<1> QED BY <1>1, <1>3, <1>4, <1>6, <1>7, RedoControl DEF Waiting

\* What may come of the replies: a driver is bad, the next operation is due, or
\* the request is done.
LEMMA Outcomes ==
    ASSUME ControlInv, Evaluate
    PROVE  /\ pc = <<"evaluate", SentTo>> /\ Revoke(amsgtable)
           /\ UNCHANGED <<updated, USE_MIRROR, may, faulty, faults>>
           /\ \/ \E w \in SentTo, problem \in {"BD_PROTO", "BD_DATA"} :
                    /\ Redo(bad_driver(driver, w, problem))
                    /\ \/ Unserved(w)
                       \/ ~Unserved(w) /\ What = "FLT_READ2" /\ got[w] # ext
                       \/ /\ ~Unserved(w) /\ w = DRIVER_MAIN /\ req.op = "FLT_READ"
                          /\ ~check_sum(req.first, req.n, got[w])
              \/ /\ \A w \in SentTo : ~Unserved(w)
                 /\ \/ What = "FLT_WRITE" /\ Next_io(ext)
                    \/ /\ What = "FLT_READ" /\ req.op = "FLT_WRITE"
                       /\ Next_io([p \in DOMAIN ext \cup Head(todo).at |->
                                     IF p \in Head(todo).at THEN got[DRIVER_MAIN][p] ELSE ext[p]])
                    \/ /\ What = "FLT_READ" /\ req.op = "FLT_READ"
                       /\ check_sum(req.first, req.n, got[DRIVER_MAIN])
                       /\ Answer("OK", driver) /\ ext' = got[DRIVER_MAIN]
                    \/ /\ What = "FLT_READ2" /\ \A w \in SentTo : got[w] = ext
                       /\ Answer("OK", driver) /\ UNCHANGED ext
<1>1. pc[1] = "evaluate"
  BY DEF Evaluate
<1>2. pc = <<"evaluate", SentTo>> /\ pc[2] = SentTo /\ Trying
  BY <1>1, Places DEF ControlInv, Types, Exchange, Waiting, Trying
<1>3. Revoke(amsgtable) /\ UNCHANGED <<updated, USE_MIRROR, may, faulty, faults>>
  BY DEF Evaluate, history, ds
<1>4. DRIVER_MAIN \in SentTo
  BY Reached DEF ControlInv
<1>5. /\ What = "FLT_READ" /\ Len(todo) > 1 => req.op = "FLT_WRITE"
      /\ What = "FLT_READ" /\ Len(todo) = 1 => req.op = "FLT_READ"
  <2>1. /\ req.op = "FLT_READ" => Len(todo) = 1
        /\ req.op = "FLT_WRITE" /\ What = "FLT_READ" => Len(todo) > 1
        /\ req.op \in {"FLT_READ", "FLT_WRITE"}
    BY <1>1, <1>2, Operation DEF ControlInv, Asked
  <2>2. ~(1 > 1)
    OBVIOUS
  <2> QED BY <2>1, <2>2, Zenon
<1>6. \/ Unserved(DRIVER_MAIN) /\ Redo(bad_driver(driver, DRIVER_MAIN, "BD_PROTO"))
      \/ /\ ~Unserved(DRIVER_MAIN) /\ DRIVER_BACKUP \in SentTo /\ Unserved(DRIVER_BACKUP)
         /\ Redo(bad_driver(driver, DRIVER_BACKUP, "BD_PROTO"))
      \/ /\ \A w \in SentTo : ~Unserved(w)
         /\ \/ What = "FLT_WRITE" /\ Next_io(ext)
            \/ /\ What = "FLT_READ" /\ Len(todo) > 1
               /\ Next_io([p \in DOMAIN ext \cup Head(todo).at |->
                             IF p \in Head(todo).at THEN got[DRIVER_MAIN][p] ELSE ext[p]])
            \/ /\ What = "FLT_READ" /\ Len(todo) = 1
               /\ check_sum(req.first, req.n, got[DRIVER_MAIN])
               /\ Answer("OK", driver) /\ ext' = got[DRIVER_MAIN]
            \/ /\ What = "FLT_READ" /\ Len(todo) = 1
               /\ ~check_sum(req.first, req.n, got[DRIVER_MAIN])
               /\ Redo(bad_driver(driver, DRIVER_MAIN, "BD_DATA"))
            \/ /\ What = "FLT_READ2" /\ got[DRIVER_MAIN] # ext
               /\ Redo(bad_driver(driver, DRIVER_MAIN, "BD_DATA"))
            \/ /\ What = "FLT_READ2" /\ DRIVER_BACKUP \in SentTo /\ got[DRIVER_BACKUP] # ext
               /\ Redo(bad_driver(driver, DRIVER_BACKUP, "BD_DATA"))
            \/ /\ What = "FLT_READ2" /\ \A w \in SentTo : got[w] = ext
               /\ Answer("OK", driver) /\ UNCHANGED ext
  BY <1>2 DEF Evaluate, What
<1> QED BY <1>2, <1>3, <1>4, <1>5, <1>6

\* What is done with the replies preserves ControlInv.
LEMMA EvaluateControl ==
    ASSUME ControlInv, Evaluate
    PROVE  ControlInv'
<1>1. /\ pc = <<"evaluate", SentTo>> /\ Revoke(amsgtable)
      /\ UNCHANGED <<updated, USE_MIRROR, may, faulty>>
  BY Outcomes
<1>2. Waiting /\ Trying /\ Types
  BY <1>1 DEF Waiting, Trying, ControlInv
<1>3. /\ amsgtable \in [Which -> Message]
      /\ \A w \in Which : amsgtable[w].state = "valid" => amsgtable[w].dst \in Label
  BY SentToUsed DEF ControlInv, Types
<1>4. /\ amsgtable' \in [Which -> Message] /\ busy' \subseteq Label
      /\ \A w \in Which : amsgtable'[w].state \in {"done", "revoked"}
      /\ await' = {} /\ up' = up /\ out' = out
  BY <1>1, <1>2, <1>3, RevokeControl
<1>5. ASSUME NEW w \in SentTo, NEW problem \in {"BD_PROTO", "BD_DATA"},
             Redo(bad_driver(driver, w, problem))
      PROVE  ControlInv'
  <2> DEFINE d == bad_driver(driver, w, problem)
  <2>1. w \in Which /\ (w = DRIVER_BACKUP => USE_MIRROR)
    BY Reached DEF ControlInv
  <2>2. /\ d \in [Which -> DriverState]
        /\ \A v \in Which : /\ d[v].label = driver[v].label /\ d[v].endpt = driver[v].endpt
                            /\ v # w => d[v] = driver[v]
    BY <1>2, <2>1, BadDriver
  <2>3. USE_MIRROR \/ d[DRIVER_BACKUP].problem = driver[DRIVER_BACKUP].problem
    BY <2>1, <2>2, Names
  <2>4. faulty' \subseteq Label
    BY <1>1 DEF ControlInv, Types
  <2> HIDE DEF d
  <2> QED BY <1>1, <1>2, <1>3, <1>5, <2>2, <2>3, <2>4, RedoControl DEF d
<1>6. ASSUME NEW buffer, Next_io(buffer), What # "FLT_READ2", req.op = "FLT_WRITE",
             What = "FLT_WRITE" => buffer = ext,
             What = "FLT_READ" => DOMAIN buffer = DOMAIN ext \cup Head(todo).at
      PROVE  ControlInv'
  <2>1. /\ todo' = Tail(todo) /\ ext' = buffer /\ pc' = <<"send">> /\ failed' = {}
        /\ got' = [w \in Which |-> NONE] /\ UNCHANGED <<driver, req, r>>
    BY <1>6 DEF Next_io
  <2>2. Types'
    BY <1>1, <1>4, <2>1 DEF ControlInv, Types, Controls
  <2>3. Drivers' /\ Asked' /\ Exchange'
    BY <1>1, <1>4, <2>1 DEF ControlInv, Drivers, Asked, Exchange, Waiting
  <2>4. At' = At /\ HeadAt' = HeadAt /\ TailAt' = TailAt /\ Spread' = Spread
    BY <2>1 DEF At, HeadAt, TailAt, Spread
  <2>5. \A h, t : Todo(h, t)' = Todo(h, t)
    BY <2>4 DEF Todo
  <2>6. Progress'
    <3>1. CASE What = "FLT_WRITE"
      <4>1. todo' = <<Io("FLT_READ2", At)>>
        BY <1>2, <2>1, <3>1, Operation DEF ControlInv
      <4> QED BY <1>6, <2>1, <2>4, <4>1 DEF Progress
    <3>2. CASE What = "FLT_READ"
      <4>1. PICK h \in {{}, HeadAt}, t \in {{}, TailAt} :
                /\ todo = Todo(h, t)
                /\ Spread \cup (HeadAt \ h) \cup (TailAt \ t) \subseteq DOMAIN ext
        BY <1>2, <1>6, <3>2 DEF ControlInv, Progress, What, Io
      <4>2. CASE h # {}
        <5>1. Head(todo).at = h /\ todo' = Todo({}, t)
          BY <2>1, <4>1, <4>2, TodoHead DEF Io
        <5>2. Spread \cup (HeadAt \ {}) \cup (TailAt \ t) \subseteq DOMAIN ext'
          BY <1>6, <2>1, <3>2, <4>1, <4>2, <5>1
        <5> QED BY <1>6, <2>1, <2>4, <2>5, <4>1, <5>1, <5>2 DEF Progress
      <4>3. CASE h = {} /\ t # {}
        <5>1. Head(todo).at = t /\ todo' = Todo({}, {})
          BY <2>1, <4>1, <4>3, TodoHead DEF Io
        <5>2. Spread \cup (HeadAt \ {}) \cup (TailAt \ {}) \subseteq DOMAIN ext'
          BY <1>6, <2>1, <3>2, <4>1, <4>3, <5>1
        <5> QED BY <1>6, <2>1, <2>4, <2>5, <4>1, <5>1, <5>2 DEF Progress
      <4>4. CASE h = {} /\ t = {}
        BY <3>2, <4>1, <4>4, TodoHead DEF Io, What
      <4> QED BY <4>2, <4>3, <4>4
    <3> QED BY <1>2, <1>6, <3>1, <3>2, Operation DEF ControlInv
  <2> QED BY <2>2, <2>3, <2>6 DEF ControlInv
<1>7. ASSUME Answer("OK", driver)
      PROVE  ControlInv'
  <2>1. /\ pc' = <<"reply">> /\ failed' = {} /\ r' = "OK"
        /\ got' = [w \in Which |-> NONE] /\ UNCHANGED <<driver, req>>
    BY <1>7 DEF Answer
  <2>2. Types'
    BY <1>1, <1>4, <2>1 DEF ControlInv, Types, Controls
  <2>3. Drivers' /\ Asked' /\ Exchange' /\ Progress'
    BY <1>1, <1>4, <2>1 DEF ControlInv, Drivers, Asked, Exchange, Waiting, Progress, Trying
  <2> QED BY <2>2, <2>3 DEF ControlInv
<1>8. What = "FLT_WRITE" => req.op = "FLT_WRITE"
  BY <1>2, Operation DEF ControlInv
<1> QED BY <1>5, <1>6, <1>7, <1>8, Outcomes

\* Whose turn it is to be checked.
LEMMA Checked ==
    ASSUME Types, pc[1] = "check"
    PROVE  /\ pc[2] \in Which /\ pc[3] \in 1 .. 2 /\ pc = <<"check", pc[2], pc[3]>>
BY Places DEF Types

\* The driver's entry after its endpoint is given to it again.
LEMMA GivenDriver ==
    ASSUME Types, NEW w \in Which
    PROVE  /\ Given(w) \in [Which -> DriverState]
           /\ Given(w)[w].label = driver[w].label /\ Given(w)[w].endpt = driver[w].label
           /\ Given(w)[w].problem = "BD_NONE" /\ Given(w)[w].up_event = driver[w].up_event
           /\ \A v \in Which : v # w => Given(w)[v] = driver[v]
<1>1. driver[w] \in DriverState /\ DOMAIN driver = Which /\ \A v \in Which : driver[v] \in DriverState
  BY DEF Types
<1>2. Given(w) = [driver EXCEPT ![w].endpt = driver[w].label, ![w].problem = "BD_NONE"]
  BY DEF Given
<1>3. \A v \in Which : v # w => Given(w)[v] = driver[v]
  BY <1>1, <1>2
<1>4. /\ Given(w)[w] \in DriverState
      /\ Given(w)[w].label = driver[w].label /\ Given(w)[w].endpt = driver[w].label
      /\ Given(w)[w].problem = "BD_NONE" /\ Given(w)[w].up_event = driver[w].up_event
  <2> DEFINE e == [driver[w] EXCEPT !.endpt = driver[w].label, !.problem = "BD_NONE"]
  <2>1. Given(w)[w] = e
    BY <1>1, <1>2 DEF DriverState
  <2>2. /\ e \in DriverState /\ e.label = driver[w].label /\ e.endpt = driver[w].label
        /\ e.problem = "BD_NONE" /\ e.up_event = driver[w].up_event
    BY <1>1 DEF DriverState
  <2> QED BY <2>1, <2>2
<1>5. DOMAIN Given(w) = Which /\ Given(w) = [v \in Which |-> Given(w)[v]]
  BY <1>1, <1>2
<1> QED BY <1>1, <1>3, <1>4, <1>5

\* And with its retries and kills counted.
LEMMA CountedDriver ==
    ASSUME Types, NEW w \in Which
    PROVE  LET retried == [Given(w) EXCEPT ![w].retries = @ + 1]
           IN  /\ \A d \in {retried, Killed(w)} :
                    /\ d \in [Which -> DriverState]
                    /\ d[w].label = driver[w].label /\ d[w].endpt = driver[w].label
                    /\ d[w].problem = "BD_NONE" /\ d[w].up_event = driver[w].up_event
                    /\ \A v \in Which : v # w => d[v] = driver[v]
<1> DEFINE g == Given(w)
<1>1. /\ g \in [Which -> DriverState]
      /\ g[w].label = driver[w].label /\ g[w].endpt = driver[w].label
      /\ g[w].problem = "BD_NONE" /\ g[w].up_event = driver[w].up_event
      /\ \A v \in Which : v # w => g[v] = driver[v]
  BY GivenDriver
<1>2. Killed(w) = [g EXCEPT ![w].retries = 0, ![w].kills = @ + 1]
  BY DEF Killed
<1> HIDE DEF g
<1>3. g[w] \in DriverState
  BY <1>1
<1>4. LET d == [g EXCEPT ![w].retries = @ + 1]
      IN  /\ d \in [Which -> DriverState]
          /\ d[w].label = driver[w].label /\ d[w].endpt = driver[w].label
          /\ d[w].problem = "BD_NONE" /\ d[w].up_event = driver[w].up_event
          /\ \A v \in Which : v # w => d[v] = driver[v]
  BY <1>1, <1>3 DEF DriverState
<1>5. Killed(w) = [g EXCEPT ![w] = [g[w] EXCEPT !.retries = 0, !.kills = g[w].kills + 1]]
  BY <1>1, <1>2, <1>3 DEF DriverState
<1>6. LET e == [g[w] EXCEPT !.retries = 0, !.kills = g[w].kills + 1]
      IN  /\ e \in DriverState
          /\ e.label = g[w].label /\ e.endpt = g[w].endpt
          /\ e.problem = g[w].problem /\ e.up_event = g[w].up_event
  <2>1. ASSUME NEW f \in DriverState, NEW k \in Nat
        PROVE  LET e == [f EXCEPT !.retries = 0, !.kills = k]
               IN  /\ e \in DriverState
                   /\ e.label = f.label /\ e.endpt = f.endpt
                   /\ e.problem = f.problem /\ e.up_event = f.up_event
    BY DEF DriverState
  <2>2. g[w].kills + 1 \in Nat
    BY <1>3 DEF DriverState
  <2> QED BY <1>3, <2>1, <2>2
<1>7. /\ Killed(w) \in [Which -> DriverState]
      /\ Killed(w)[w].label = driver[w].label /\ Killed(w)[w].endpt = driver[w].label
      /\ Killed(w)[w].problem = "BD_NONE" /\ Killed(w)[w].up_event = driver[w].up_event
      /\ \A v \in Which : v # w => Killed(w)[v] = driver[v]
  BY <1>1, <1>5, <1>6
<1> QED BY <1>4, <1>7 DEF g

\* A driver has been checked.
LEMMA ReturnControl ==
    ASSUME ControlInv, pc[1] \in {"check", "restart"}, NEW w \in Which, Return(w), req' = req
    PROVE  /\ Asked' /\ Progress' /\ pc' \in Controls
           /\ pc' = IF w = DRIVER_MAIN THEN <<"check", DRIVER_BACKUP, 1>> ELSE <<"send">>
<1>1. req.op \in {"FLT_READ", "FLT_WRITE"}
  BY DEF ControlInv, Asked
<1>2. CASE w = DRIVER_MAIN
  <2>1. pc' = <<"check", DRIVER_BACKUP, 1>>
    BY <1>2 DEF Return
  <2> QED BY <1>2, <2>1, Names DEF ControlInv, Asked, Progress, Trying, Waiting, Controls
<1>3. CASE w # DRIVER_MAIN
  <2>1. Transfer(req')
    BY <1>3 DEF Return
  <2>2. Progress' /\ pc' = <<"send">>
    BY <1>1, <2>1, TransferControl
  <2> QED BY <1>3, <2>2 DEF ControlInv, Asked, Controls
<1> QED BY <1>2, <1>3

\* Between tries nothing is under way.
LEMMA NothingSent ==
    ASSUME Exchange, ~Waiting, ~Waiting', failed' = {}, \A w \in Which : got'[w] = NONE,
           UNCHANGED <<amsgtable, await>>
    PROVE  Exchange'
BY DEF Exchange, Waiting

\* A disk that is not used any more is not checked any more.
LEMMA NotDropped ==
    ASSUME ControlInv, NEW w \in Which, NEW n \in 1 .. 2, pc = <<"check", w, n>>,
           n > 1 \/ driver[w].problem # "BD_NONE"
    PROVE  w = DRIVER_MAIN \/ USE_MIRROR \/ driver[DRIVER_MAIN].label # MAIN_LABEL
BY Names DEF ControlInv, Drivers

\* The branches of check_driver.
LEMMA CheckOutcomes ==
    ASSUME ControlInv, NEW w \in Which, NEW n \in 1 .. 2, check_driver(w, n)
    PROVE  /\ pc = <<"check", w, n>>
           /\ got' = [v \in Which |-> NONE] /\ failed' = {}
           /\ UNCHANGED <<disk, updated, amsgtable, await, may, faulty, faults, req>>
           /\ \/ /\ n = 1 /\ driver[w].problem = "BD_NONE" /\ Return(w)
                 /\ UNCHANGED <<up, busy, out, driver, USE_MIRROR, r>>
              \/ /\ n > 1 \/ driver[w].problem # "BD_NONE"
                 /\ driver' \in [Which -> DriverState]
                 /\ driver'[w].label = driver[w].label /\ driver'[w].endpt = driver[w].label
                 /\ driver'[w].problem = "BD_NONE"
                 /\ \A v \in Which : v # w => driver'[v] = driver[v]
                 /\ \/ Return(w) /\ UNCHANGED <<up, busy, out, USE_MIRROR, r>>
                    \/ /\ pc' = <<"restart", w>> /\ UNCHANGED <<USE_MIRROR, todo, ext, r>>
                       /\ IF driver[w].up_event # "UP_PENDING" /\ Problem(w, n) # "BD_DEAD"
                          THEN Stopped(driver[w].label) ELSE UNCHANGED <<up, busy, out>>
                       /\ driver'[w].up_event =
                            IF driver[w].up_event = "UP_EXPECTED" THEN "UP_NONE" ELSE driver[w].up_event
                    \/ /\ ~USE_MIRROR /\ Answer("error", driver')
                       /\ UNCHANGED <<up, busy, out, USE_MIRROR>>
              \/ /\ n > 1 \/ driver[w].problem # "BD_NONE"
                 /\ USE_MIRROR /\ ~USE_MIRROR' /\ Return(w) /\ UNCHANGED <<up, busy, out, r>>
                 /\ driver' \in [Which -> DriverState]
                 /\ driver'[DRIVER_MAIN].label = IF w = DRIVER_MAIN THEN BACKUP_LABEL ELSE MAIN_LABEL
                 /\ driver'[DRIVER_MAIN].endpt = driver'[DRIVER_MAIN].label
                 /\ driver'[DRIVER_MAIN].problem = driver[IF w = DRIVER_MAIN THEN DRIVER_BACKUP
                                                          ELSE DRIVER_MAIN].problem
                 /\ driver'[DRIVER_BACKUP].label = BACKUP_LABEL
                 /\ driver'[DRIVER_BACKUP].endpt = NONE
                 /\ driver'[DRIVER_BACKUP].problem =
                        IF w = DRIVER_MAIN THEN driver[DRIVER_BACKUP].problem ELSE "BD_NONE"
<1>1. /\ pc = <<"check", w, n>>
      /\ got' = [v \in Which |-> NONE] /\ failed' = {}
      /\ UNCHANGED <<updated, amsgtable, await, may, faulty, faults>>
  BY DEF check_driver, ds
<1>2. Types /\ Drivers
  BY DEF ControlInv
<1>3. LET retried == [Given(w) EXCEPT ![w].retries = @ + 1]
      IN  \A d \in {Given(w), retried, Killed(w)} :
            /\ d \in [Which -> DriverState]
            /\ d[w].label = driver[w].label /\ d[w].endpt = driver[w].label
            /\ d[w].problem = "BD_NONE" /\ d[w].up_event = driver[w].up_event
            /\ \A v \in Which : v # w => d[v] = driver[v]
  <2> DEFINE retried == [Given(w) EXCEPT ![w].retries = @ + 1]
             Fine(d) == /\ d \in [Which -> DriverState]
                        /\ d[w].label = driver[w].label /\ d[w].endpt = driver[w].label
                        /\ d[w].problem = "BD_NONE" /\ d[w].up_event = driver[w].up_event
                        /\ \A v \in Which : v # w => d[v] = driver[v]
  <2>1. Fine(Given(w))
    BY <1>2, GivenDriver
  <2>2. \A d \in {retried, Killed(w)} : Fine(d)
    BY <1>2, CountedDriver
  <2> HIDE DEF retried, Fine
  <2>3. \A d \in {Given(w), retried, Killed(w)} : Fine(d)
    BY <2>1, <2>2
  <2> QED BY <2>3 DEF retried, Fine
<1>4. CASE n = 1 /\ NoProblem(w)
  BY <1>1, <1>4 DEF NoProblem, external
<1>5. CASE NewInstance(w) /\ (n > 1 \/ driver[w].problem # "BD_NONE")
  BY <1>1, <1>3, <1>5 DEF NewInstance, external
<1>6. CASE Retry(w, n) /\ (n > 1 \/ driver[w].problem # "BD_NONE")
  BY <1>1, <1>3, <1>6 DEF Retry, external
<1>7. CASE Restart(w, n) /\ (n > 1 \/ driver[w].problem # "BD_NONE")
  <2>1. driver' = [Killed(w) EXCEPT ![w].up_event = IF @ = "UP_EXPECTED" THEN "UP_NONE" ELSE @]
    BY <1>7 DEF Restart
  <2>2. /\ driver' \in [Which -> DriverState]
        /\ driver'[w].label = driver[w].label /\ driver'[w].endpt = driver[w].label
        /\ driver'[w].problem = "BD_NONE"
        /\ \A v \in Which : v # w => driver'[v] = driver[v]
        /\ driver'[w].up_event =
             IF driver[w].up_event = "UP_EXPECTED" THEN "UP_NONE" ELSE driver[w].up_event
    <3> DEFINE k == Killed(w)
    <3> HIDE DEF k
    <3>1. /\ k \in [Which -> DriverState]
          /\ k[w].label = driver[w].label /\ k[w].endpt = driver[w].label
          /\ k[w].problem = "BD_NONE" /\ k[w].up_event = driver[w].up_event
          /\ \A v \in Which : v # w => k[v] = driver[v]
      BY <1>3 DEF k
    <3>2. driver' = [k EXCEPT ![w].up_event = IF @ = "UP_EXPECTED" THEN "UP_NONE" ELSE @]
      BY <2>1 DEF k
    <3> QED BY <3>1, <3>2 DEF DriverState
  <2>3. /\ pc' = <<"restart", w>> /\ UNCHANGED <<USE_MIRROR, todo, ext, r, req, disk>>
        /\ IF driver[w].up_event # "UP_PENDING" /\ Problem(w, n) # "BD_DEAD"
           THEN Stopped(driver[w].label) ELSE UNCHANGED <<up, busy, out>>
    BY <1>7 DEF Restart, tell_rs, external, request
  <2> QED BY <1>1, <1>7, <2>2, <2>3
<1>8. CASE Drop(w) /\ (n > 1 \/ driver[w].problem # "BD_NONE")
  <2>1. /\ USE_MIRROR /\ ~USE_MIRROR' /\ Return(w)
        /\ UNCHANGED <<disk, up, busy, out, req, r>>
        /\ driver' = [[Killed(w) EXCEPT ![DRIVER_MAIN] = IF w = DRIVER_MAIN THEN driver[DRIVER_BACKUP]
                                                         ELSE @]
                        EXCEPT ![DRIVER_BACKUP].endpt = NONE]
    BY <1>8 DEF Drop, external
  <2>2. /\ driver' \in [Which -> DriverState]
        /\ driver'[DRIVER_MAIN].label = IF w = DRIVER_MAIN THEN BACKUP_LABEL ELSE MAIN_LABEL
        /\ driver'[DRIVER_MAIN].endpt = driver'[DRIVER_MAIN].label
        /\ driver'[DRIVER_MAIN].problem = driver[IF w = DRIVER_MAIN THEN DRIVER_BACKUP
                                                 ELSE DRIVER_MAIN].problem
        /\ driver'[DRIVER_BACKUP].label = BACKUP_LABEL
        /\ driver'[DRIVER_BACKUP].endpt = NONE
        /\ driver'[DRIVER_BACKUP].problem =
               IF w = DRIVER_MAIN THEN driver[DRIVER_BACKUP].problem ELSE "BD_NONE"
    <3> DEFINE k == Killed(w)
    <3> HIDE DEF k
    <3>1. /\ k \in [Which -> DriverState]
          /\ k[w].label = driver[w].label /\ k[w].endpt = driver[w].label
          /\ k[w].problem = "BD_NONE"
          /\ \A v \in Which : v # w => k[v] = driver[v]
      BY <1>3 DEF k
    <3>2. driver' = [[k EXCEPT ![DRIVER_MAIN] = IF w = DRIVER_MAIN THEN driver[DRIVER_BACKUP]
                                                ELSE k[DRIVER_MAIN]]
                        EXCEPT ![DRIVER_BACKUP].endpt = NONE]
      BY <2>1 DEF k
    <3>3. /\ driver \in [Which -> DriverState]
          /\ driver[DRIVER_MAIN].endpt = driver[DRIVER_MAIN].label
          /\ driver[DRIVER_BACKUP].label = BACKUP_LABEL
          /\ driver[DRIVER_MAIN].label = MAIN_LABEL /\ driver[DRIVER_BACKUP].endpt = BACKUP_LABEL
      BY <1>2, <2>1 DEF Types, Drivers
    <3> DEFINE j == [k EXCEPT ![DRIVER_MAIN] = IF w = DRIVER_MAIN THEN driver[DRIVER_BACKUP]
                                                ELSE k[DRIVER_MAIN]]
    <3>4. /\ j \in [Which -> DriverState]
          /\ j[DRIVER_MAIN] = driver[IF w = DRIVER_MAIN THEN DRIVER_BACKUP ELSE DRIVER_MAIN]
          /\ j[DRIVER_BACKUP] = k[DRIVER_BACKUP]
      BY <3>1, <3>3, Names
    <3>5. /\ k[DRIVER_BACKUP].label = BACKUP_LABEL
          /\ k[DRIVER_BACKUP].problem =
               IF w = DRIVER_MAIN THEN driver[DRIVER_BACKUP].problem ELSE "BD_NONE"
      BY <3>1, <3>3, Names
    <3>6. driver' = [j EXCEPT ![DRIVER_BACKUP].endpt = NONE]
      BY <3>2
    <3> HIDE DEF j
    <3>7. /\ driver' \in [Which -> DriverState]
          /\ driver'[DRIVER_MAIN] = j[DRIVER_MAIN]
          /\ driver'[DRIVER_BACKUP].label = j[DRIVER_BACKUP].label
          /\ driver'[DRIVER_BACKUP].problem = j[DRIVER_BACKUP].problem
          /\ driver'[DRIVER_BACKUP].endpt = NONE
      BY <3>4, <3>6, Names DEF DriverState
    <3> QED BY <3>3, <3>4, <3>5, <3>7, Names
  <2> QED BY <1>1, <1>8, <2>1, <2>2
<1>9. CASE GiveUp(w) /\ (n > 1 \/ driver[w].problem # "BD_NONE")
  <2>1. /\ ~USE_MIRROR /\ Answer("error", Killed(w)) /\ UNCHANGED <<disk, up, busy, out, USE_MIRROR>>
    BY <1>9 DEF GiveUp, external
  <2>2. driver' = Killed(w) /\ req' = req
    BY <2>1 DEF Answer
  <2> QED BY <1>1, <1>3, <1>9, <2>1, <2>2
<1> QED BY <1>4, <1>5, <1>6, <1>7, <1>8, <1>9 DEF check_driver

\* check_driver preserves ControlInv.
LEMMA CheckControl ==
    ASSUME ControlInv, NEW w \in Which, NEW n \in 1 .. 2, check_driver(w, n)
    PROVE  ControlInv'
<1>1. /\ pc = <<"check", w, n>>
      /\ got' = [v \in Which |-> NONE] /\ failed' = {}
      /\ UNCHANGED <<updated, amsgtable, await, faulty, req>>
  BY CheckOutcomes
<1>2. pc[1] = "check" /\ ~Waiting /\ Types /\ Drivers
  BY <1>1 DEF Waiting, ControlInv
<1>3. UNCHANGED <<up, busy, out>> \/ Stopped(driver[w].label)
  BY CheckOutcomes
<1>4. /\ up' \subseteq Label /\ busy' \subseteq Label
      /\ out' \in [Label -> {NONE, "OK", "EIO"}]
  BY <1>2, <1>3, Names DEF Types, Stopped
<1>5. ASSUME Asked', Progress', Drivers', driver' \in [Which -> DriverState], pc' \in Controls,
             pc'[1] \in {"send", "check", "restart", "reply"}, r' \in {r, "error"},
             USE_MIRROR' \in BOOLEAN
      PROVE  ControlInv'
  <2>1. Types'
    BY <1>1, <1>2, <1>4, <1>5, Names DEF Types
  <2>2. Exchange'
    <3>1. ~Waiting'
      BY <1>5 DEF Waiting
    <3> QED BY <1>1, <1>2, <3>1, NothingSent DEF ControlInv
  <2> QED BY <1>5, <2>1, <2>2 DEF ControlInv
<1>6. ASSUME Return(w)
      PROVE  /\ Asked' /\ Progress' /\ pc' \in Controls /\ pc'[1] \in {"send", "check"}
             /\ pc' # <<"restart", DRIVER_BACKUP>> /\ pc' # <<"check", DRIVER_BACKUP, 2>>
  BY <1>1, <1>2, <1>6, ReturnControl, Names
<1>7. CASE /\ n = 1 /\ driver[w].problem = "BD_NONE" /\ Return(w)
           /\ UNCHANGED <<up, busy, out, driver, USE_MIRROR, r>>
  <2>1. Drivers'
    BY <1>2, <1>6, <1>7 DEF Drivers
  <2> QED BY <1>2, <1>5, <1>6, <1>7, <2>1 DEF Types
<1>8. CASE /\ n > 1 \/ driver[w].problem # "BD_NONE"
           /\ driver' \in [Which -> DriverState]
           /\ driver'[w].label = driver[w].label /\ driver'[w].endpt = driver[w].label
           /\ driver'[w].problem = "BD_NONE"
           /\ \A v \in Which : v # w => driver'[v] = driver[v]
           /\ USE_MIRROR' = USE_MIRROR
           /\ \/ Return(w) /\ r' = r
              \/ pc' = <<"restart", w>> /\ UNCHANGED <<todo, ext, r>>
              \/ ~USE_MIRROR /\ Answer("error", driver')
  <2>1. w = DRIVER_MAIN \/ USE_MIRROR \/ driver[DRIVER_MAIN].label # MAIN_LABEL
    BY <1>1, <1>8, NotDropped
  <2>2. /\ driver'[DRIVER_MAIN].endpt = driver'[DRIVER_MAIN].label
        /\ driver'[DRIVER_BACKUP].label = BACKUP_LABEL
        /\ driver'[DRIVER_BACKUP].endpt \in {NONE, BACKUP_LABEL}
        /\ driver'[DRIVER_MAIN].label = driver[DRIVER_MAIN].label
        /\ w = DRIVER_MAIN => driver'[DRIVER_BACKUP] = driver[DRIVER_BACKUP]
        /\ USE_MIRROR => driver'[DRIVER_BACKUP].endpt = BACKUP_LABEL
    BY <1>2, <1>8, Names DEF Drivers
  <2>3. pc' \in {<<"restart", DRIVER_BACKUP>>, <<"check", DRIVER_BACKUP, 2>>} => w = DRIVER_BACKUP
    <3>1. CASE Return(w)
      BY <1>6, <3>1
    <3>2. CASE pc' = <<"restart", w>>
      BY <3>2
    <3>3. CASE Answer("error", driver')
      BY <3>3 DEF Answer
    <3> QED BY <1>8, <3>1, <3>2, <3>3
  <2>4. Drivers'
    BY <1>2, <1>8, <2>1, <2>2, <2>3, Names DEF Drivers
  <2>5. CASE Return(w) /\ r' = r
    BY <1>2, <1>5, <1>6, <1>8, <2>4, <2>5 DEF Types
  <2>6. CASE pc' = <<"restart", w>> /\ UNCHANGED <<todo, ext, r>>
    <3>1. Asked' /\ Progress' /\ pc' \in Controls
      BY <1>1, <1>2, <2>6 DEF ControlInv, Asked, Progress, Trying, Waiting, Controls
    <3> QED BY <1>2, <1>5, <1>8, <2>4, <2>6, <3>1 DEF Types
  <2>7. CASE Answer("error", driver')
    <3>1. pc' = <<"reply">> /\ r' = "error"
      BY <2>7 DEF Answer
    <3>2. Asked' /\ Progress' /\ pc' \in Controls
      BY <1>1, <1>2, <3>1 DEF ControlInv, Asked, Progress, Trying, Waiting, Controls
    <3> QED BY <1>2, <1>5, <1>8, <2>4, <3>1, <3>2 DEF Types
  <2> QED BY <1>8, <2>5, <2>6, <2>7
<1>9. CASE /\ USE_MIRROR /\ ~USE_MIRROR' /\ Return(w) /\ UNCHANGED <<up, busy, out, r>>
           /\ driver' \in [Which -> DriverState]
           /\ driver'[DRIVER_MAIN].label = IF w = DRIVER_MAIN THEN BACKUP_LABEL ELSE MAIN_LABEL
           /\ driver'[DRIVER_MAIN].endpt = driver'[DRIVER_MAIN].label
           /\ driver'[DRIVER_BACKUP].label = BACKUP_LABEL
           /\ driver'[DRIVER_BACKUP].endpt = NONE
           /\ driver'[DRIVER_BACKUP].problem =
                  IF w = DRIVER_MAIN THEN driver[DRIVER_BACKUP].problem ELSE "BD_NONE"
  <2>1. USE_MIRROR' \in BOOLEAN
    BY <1>2, CheckOutcomes DEF check_driver, NoProblem, NewInstance, Retry, Restart, Drop, GiveUp, Types
  <2>2. Drivers'
    BY <1>6, <1>9, Names DEF Drivers
  <2> QED BY <1>2, <1>5, <1>6, <1>9, <2>1, <2>2 DEF Types
<1> QED BY <1>7, <1>8, <1>9, CheckOutcomes

\* The end of restart_driver preserves ControlInv.
LEMMA RestartControl ==
    ASSUME ControlInv, NEW w \in Which, restart_driver(w)
    PROVE  ControlInv'
<1>1. /\ pc = <<"restart", w>> /\ pc[1] = "restart"
      /\ UNCHANGED <<disk, up, busy, out, updated, amsgtable, await, got, failed, driver, USE_MIRROR,
                     req, r, faulty>>
      /\ Return(w) \/ (pc' = <<"check", w, 2>> /\ UNCHANGED <<todo, ext>>)
  BY DEF restart_driver, external, exchange, ds
<1>2. /\ Asked' /\ Progress' /\ pc' \in Controls /\ pc'[1] \in {"send", "check"}
      /\ pc' # <<"restart", DRIVER_BACKUP>>
      /\ pc' = <<"check", DRIVER_BACKUP, 2>> => w = DRIVER_BACKUP
  <2>1. CASE Return(w)
    BY <1>1, <2>1, ReturnControl, Names
  <2>2. CASE pc' = <<"check", w, 2>> /\ UNCHANGED <<todo, ext>>
    BY <1>1, <2>2 DEF ControlInv, Asked, Progress, Trying, Waiting, Controls
  <2> QED BY <1>1, <2>1, <2>2
<1>3. Types'
  BY <1>1, <1>2 DEF ControlInv, Types
<1>4. Drivers'
  BY <1>1, <1>2 DEF ControlInv, Drivers
<1>5. Exchange'
  <2>1. ~Waiting /\ ~Waiting'
    BY <1>1, <1>2 DEF Waiting
  <2> QED BY <1>1, <2>1, NothingSent DEF ControlInv, Exchange
<1> QED BY <1>2, <1>3, <1>4, <1>5 DEF ControlInv

\* The reply to the caller preserves ControlInv.
LEMMA ReplyControl ==
    ASSUME ControlInv, Reply
    PROVE  ControlInv'
<1>1. /\ pc[1] = "reply" /\ pc' = <<"idle">> /\ req' = NoRequest /\ r' = "OK"
      /\ UNCHANGED <<up, busy, out, updated, amsgtable, await, got, failed, driver, USE_MIRROR, faulty>>
  BY DEF Reply, external, exchange, ds
<1>2. Types' /\ Drivers'
  BY <1>1 DEF ControlInv, Types, Drivers, Controls
<1>3. Asked' /\ Progress'
  BY <1>1 DEF Asked, Progress, Trying, Waiting
<1>4. Exchange'
  <2>1. ~Waiting /\ ~Waiting'
    BY <1>1 DEF Waiting
  <2> QED BY <1>1, <2>1, NothingSent DEF ControlInv, Exchange
<1> QED BY <1>2, <1>3, <1>4 DEF ControlInv

\* The start of the system establishes ControlInv.
LEMMA InitControl ==
    ASSUME Init
    PROVE  ControlInv
<1>1. /\ up = Label /\ busy = {} /\ out = [l \in Label |-> NONE] /\ updated = Label
      /\ amsgtable = [w \in Which |-> Done] /\ USE_MIRROR \in BOOLEAN
      /\ pc = <<"idle">> /\ req = NoRequest /\ r = "OK"
      /\ await = {} /\ got = [w \in Which |-> NONE] /\ failed = {}
      /\ faulty \subseteq Label
  BY FilterAssumption, Names DEF Init
<1>2. /\ driver \in [Which -> DriverState]
      /\ driver[DRIVER_MAIN].label = MAIN_LABEL /\ driver[DRIVER_MAIN].endpt = MAIN_LABEL
      /\ driver[DRIVER_BACKUP].label = BACKUP_LABEL
      /\ driver[DRIVER_BACKUP].endpt = IF USE_MIRROR THEN BACKUP_LABEL ELSE NONE
      /\ driver[DRIVER_BACKUP].problem = "BD_NONE"
  BY Names DEF Init, DriverState
<1>3. Types
  BY <1>1, <1>2 DEF Types, Controls, Message, Done
<1>4. Drivers
  BY <1>1, <1>2, Names DEF Drivers
<1>5. Asked /\ Progress
  BY <1>1 DEF Asked, Progress, Trying, Waiting
<1>6. Exchange
  BY <1>1 DEF Exchange, Waiting, Done
<1> QED BY <1>3, <1>4, <1>5, <1>6 DEF ControlInv

\* A step of nobody preserves ControlInv.
LEMMA StutterControl ==
    ASSUME ControlInv, UNCHANGED vars
    PROVE  ControlInv'
<1>1. UNCHANGED <<up, busy, out, updated, amsgtable, await, got, failed, driver, USE_MIRROR, pc, req,
                  todo, ext, r, faulty>>
  BY DEF vars, external, request, exchange, history, ds
<1>2. Types'
  BY <1>1 DEF ControlInv, Types
<1>3. Drivers' /\ Asked' /\ Progress'
  BY <1>1, SamePlan
<1>4. Exchange'
  BY <1>1 DEF ControlInv, Exchange, Waiting, SentTo, What
<1> QED BY <1>2, <1>3, <1>4 DEF ControlInv

\* The steps of the system, one by one.
LEMMA Steps ==
    ASSUME Next
    PROVE  \/ \E l \in Label, w \in Which : Serve(l, w)
           \/ \E l \in Label : Refuse(l) \/ Fail(l) \/ Crash(l) \/ Start(l) \/ Stray(l)
           \/ \E l \in Label, p \in Phys : Rot(l, p)
           \/ Request \/ Event \/ read_write \/ Timeout \/ Evaluate \/ Reply
           \/ \E w \in Which : flt_receive(w) \/ restart_driver(w)
           \/ \E w \in Which, n \in 1 .. 2 : check_driver(w, n)
BY DEF Next, External, Internal

\* Any step preserves ControlInv.
LEMMA NextControl ==
    ASSUME ControlInv, [Next]_vars
    PROVE  ControlInv'
<1>1. CASE UNCHANGED vars
  BY <1>1, StutterControl
<1>2. CASE Next
  BY <1>2, Steps, ServeControl, RefuseControl, FailControl, CrashControl, StartControl, StrayControl,
     RotControl, RequestControl, EventControl, SendControl, TimeoutControl, EvaluateControl,
     ReplyControl, ReceiveControl, RestartControl, CheckControl
<1> QED BY <1>1, <1>2

\* The filter keeps track of its request, its drivers and their messages.
THEOREM FilterControl == Spec => []ControlInv
<1>1. Init => ControlInv
  BY InitControl
<1>2. ControlInv /\ [Next]_vars => ControlInv'
  BY NextControl
<1> QED BY <1>1, <1>2, PTL DEF Spec

\* Where the sectors of the filter's disk are on a real one.
LEMMA PlacesOnDisk ==
    ASSUME NEW nr \in Logical
    PROVE  /\ nr \in Nat /\ nr % NR_SUM_SEC \in Index
           /\ LOG2PHYS(nr) \in Phys /\ ~IsSum(LOG2PHYS(nr))
           /\ SEC2SUM_NR(nr) \in Phys /\ IsSum(SEC2SUM_NR(nr))
<1> DEFINE c == NR_SUM_SEC + 1
           q == nr \div NR_SUM_SEC
           i == nr % NR_SUM_SEC
<1>1. c \in Nat \ {0} /\ NR_SUM_SEC \in Nat \ {0} /\ c = NR_SUM_SEC + 1
  BY NrSumSecAssumption
<1>2. convert(NrSectors) \in Nat
  <2>1. NrSectors \div c \in Nat
    BY <1>1, FilterAssumption, Divided
  <2> QED BY <1>1, <2>1, SMT DEF convert, c
<1>3. nr \in Nat /\ nr < convert(NrSectors)
  BY <1>2 DEF Logical
<1>4. q \in Nat /\ i \in Index
  BY <1>3, Quotient
<1>5. LOG2PHYS(nr) = q * c + i /\ SEC2SUM_NR(nr) = q * c + NR_SUM_SEC
  BY DEF LOG2PHYS, SEC2SUM_NR
<1>6. LOG2PHYS(nr) < NrSectors /\ SEC2SUM_NR(nr) < NrSectors
  BY <1>3, OnDisk, FilterAssumption
<1>7. LOG2PHYS(nr) \in Nat /\ SEC2SUM_NR(nr) \in Nat
  BY <1>3, GroupOf
<1>8. LOG2PHYS(nr) \in Phys /\ SEC2SUM_NR(nr) \in Phys
  BY <1>6, <1>7, FilterAssumption DEF Phys
<1> HIDE DEF c, q, i
<1>9. (q * c + i) % c = i /\ (q * c + NR_SUM_SEC) % c = NR_SUM_SEC
  <2>1. i \in 0 .. c - 1 /\ NR_SUM_SEC \in 0 .. c - 1
    BY <1>1, <1>4 DEF Index
  <2>2. ASSUME NEW j \in 0 .. c - 1 PROVE (q * c + j) % c = j
    BY <1>1, <1>4, SMT
  <2> QED BY <2>1, <2>2
<1>10. i # NR_SUM_SEC
  BY <1>1, <1>4 DEF Index
<1> QED BY <1>3, <1>4, <1>5, <1>8, <1>9, <1>10 DEF IsSum, c, i

\* The sectors whose checksums a checksum sector holds.
LEMMA GroupAt ==
    ASSUME NEW p \in Phys, IsSum(p), NEW i \in Index
    PROVE  LET nr == (p \div (NR_SUM_SEC + 1)) * NR_SUM_SEC + i
           IN  nr \in Logical /\ SEC2SUM_NR(nr) = p /\ nr % NR_SUM_SEC = i
<1> DEFINE N == NR_SUM_SEC
           c == NR_SUM_SEC + 1
           g == p \div c
           k == NrSectors \div c
<1>1. c \in Nat \ {0} /\ N \in Nat \ {0} /\ c = N + 1 /\ i \in Nat /\ i < N
  BY NrSumSecAssumption DEF Index
<1>2. p \in Nat /\ p < NrSectors /\ NrSectors \in Nat
  BY FilterAssumption DEF Phys
<1>3. g \in Nat /\ p = g * c + N
  BY <1>1, <1>2, Divided DEF IsSum
<1>4. k \in Nat /\ NrSectors % c \in 0 .. c - 1 /\ NrSectors = k * c + (NrSectors % c)
  BY <1>1, <1>2, Divided
<1> HIDE DEF N, c, g, k
<1>5. g * c \in Nat /\ k * c \in Nat /\ g * N \in Nat /\ k * N \in Nat
  BY <1>1, <1>3, <1>4, SMT
<1>6. g < k
  <2> SUFFICES ASSUME k <= g PROVE FALSE
    BY <1>3, <1>4
  <2>1. k = g \/ k * c + c <= g * c
    BY <1>1, <1>3, <1>4, Product
  <2> QED BY <2>1, <1>1, <1>2, <1>3, <1>4, <1>5
<1>7. g * N + N <= k * N
  BY <1>1, <1>3, <1>4, <1>6, Product
<1>8. g * N + i \in 0 .. k * N - 1
  BY <1>1, <1>5, <1>7
<1>9. (g * N + i) \div N = g /\ (g * N + i) % N = i
  BY <1>1, <1>3, SMT
<1> QED BY <1>3, <1>8, <1>9 DEF Logical, convert, SEC2SUM_NR, N, c, g, k

\* A request lies on the disk, with all that is read and written for it.
LEMMA RequestOnDisk ==
    ASSUME Asked, pc[1] # "idle"
    PROVE  /\ At \subseteq Phys /\ Span(req.first, req.n) \subseteq Logical /\ Spread \subseteq At
           /\ HeadAt \subseteq At /\ TailAt \subseteq At
           /\ HeadAt \cap Spread = {} /\ TailAt \cap Spread = {}
<1>1. /\ req.first \in Nat /\ req.n \in Nat \ {0} /\ req.first + req.n <= convert(NrSectors)
      /\ convert(NrSectors) \in Int
  <2>1. NrSectors \div (NR_SUM_SEC + 1) \in Nat
    BY NrSumSecAssumption, FilterAssumption, Divided
  <2> QED BY <2>1, NrSumSecAssumption, SMT DEF Asked, convert
<1> DEFINE last == req.first + req.n - 1
<1>2. /\ Span(req.first, req.n) \subseteq Logical
      /\ req.first \in Span(req.first, req.n) /\ last \in Span(req.first, req.n)
  BY <1>1 DEF Span, Logical
<1>3. LOG2PHYS(req.first) \in Phys /\ SEC2SUM_NR(last) \in Phys
  BY <1>2, PlacesOnDisk
<1>4. At \subseteq Phys
  BY <1>3, FilterAssumption DEF At, Extended, Phys
<1>5. Spread \subseteq At
  BY <1>1, InBuffer DEF Spread, At
<1>6. HeadAt \cup TailAt \subseteq At /\ \A nr \in Span(req.first, req.n) : LOG2PHYS(nr) \notin HeadAt \cup TailAt
  BY <1>1, ReadsInBuffer DEF HeadAt, TailAt, At
<1> QED BY <1>2, <1>4, <1>5, <1>6 DEF Spread

-----------------------------------------------------------------------------
(* What is in the sectors.                                                 *)

\* The type of what lies in a buffer.
LEMMA FilledFacts ==
    ASSUME NEW at, NEW b, Filled(b, at)
    PROVE  /\ DOMAIN b = at
           /\ \A p \in at : b[p] \in IF IsSum(p) THEN SumSector ELSE Value \cup {Junk}
BY DEF Filled

\* And how to show it.
LEMMA FilledFrom ==
    ASSUME NEW at, NEW b, b = [p \in at |-> b[p]],
           \A p \in at : b[p] \in IF IsSum(p) THEN SumSector ELSE Value \cup {Junk}
    PROVE  Filled(b, at)
<1>1. \A p \in at : b[p] \in Sector
  BY DEF Sector
<1> QED BY <1>1 DEF Filled

\* Steps that change neither a sector nor what the filter is doing.
LEMMA SameContents ==
    ASSUME ContentsInv, UNCHANGED <<disk, got, ext, todo, may, req, r, USE_MIRROR>>,
           Waiting' = Waiting, Trying' = Trying, Made' = Made,
           pc'[1] = "reply" <=> pc[1] = "reply",
           \A w \in Which : driver'[w].label = driver[w].label /\ driver'[w].endpt = driver[w].endpt
    PROVE  ContentsInv'
<1>1. Used' = Used /\ SentTo' = SentTo /\ What' = What /\ At' = At /\ Spanned' = Spanned
  BY Names DEF Used, SentTo, What, At, Spanned
<1>2. \A nr, sum : Right(nr, sum)' = Right(nr, sum)
  BY <1>1 DEF Right, Allowed
<1>3. \A l, p : Rotted(l, p)' = Rotted(l, p)
  BY DEF Rotted
<1>4. Sectors' /\ DiskSums' /\ GotSums' /\ ExtSums'
  BY <1>1, <1>2 DEF ContentsInv, Sectors, DiskSums, GotSums, ExtSums
<1>5. SentTo \subseteq Which
  BY Names DEF SentTo
<1>6. ReadBack'
  BY <1>1, <1>3, <1>5 DEF ContentsInv, ReadBack
<1>7. Replied'
  BY <1>1 DEF ContentsInv, Replied
<1> QED BY <1>4, <1>6, <1>7 DEF ContentsInv

\* And with the filter where it was.
LEMMA QuietContents ==
    ASSUME ContentsInv, UNCHANGED <<disk, got, ext, todo, may, req, r, USE_MIRROR, pc>>,
           \A w \in Which : driver'[w].label = driver[w].label /\ driver'[w].endpt = driver[w].endpt
    PROVE  ContentsInv'
<1>1. Waiting' = Waiting /\ Trying' = Trying /\ Made' = Made
  BY DEF Waiting, Trying, Made, What
<1> QED BY <1>1, SameContents

\* An event of DS preserves ContentsInv.
LEMMA EventContents ==
    ASSUME ControlInv, ContentsInv, Event
    PROVE  ContentsInv'
<1>1. PICK l \in updated :
        \/ driver' = driver
        \/ \E v \in Which : driver' = [driver EXCEPT ![v].up_event =
                               IF @ = "UP_EXPECTED" THEN "UP_NONE" ELSE "UP_PENDING"]
  BY Names DEF Event, ds_event
<1>2. UNCHANGED <<disk, got, ext, todo, may, req, r, USE_MIRROR, pc>>
  BY DEF Event, external, request, exchange, history
<1>3. \A v \in Which : driver'[v].label = driver[v].label /\ driver'[v].endpt = driver[v].endpt
  BY <1>1 DEF ControlInv, Types, DriverState
<1> QED BY <1>2, <1>3, QuietContents

\* A reply that is received preserves ContentsInv.
LEMMA ReceiveContents ==
    ASSUME ControlInv, ContentsInv, NEW w \in Which, flt_receive(w)
    PROVE  ContentsInv'
<1>1. /\ pc[1] = "wait" /\ pc'[1] \in {"wait", "evaluate"}
      /\ UNCHANGED <<disk, got, ext, todo, may, req, r, USE_MIRROR, driver>>
  BY DEF flt_receive, request, history
<1>2. Waiting' = Waiting /\ Trying' = Trying /\ Made' = Made
  BY <1>1 DEF Waiting, Trying, Made, What
<1> QED BY <1>1, <1>2, SameContents

\* Some of what the filter writes is on a disk.
LEMMA WriteContents ==
    ASSUME ControlInv, ContentsInv, Waiting, What = "FLT_WRITE", NEW l \in Label, NEW places \in SUBSET At,
           disk' = Written(l, places), UNCHANGED <<may, req, pc>>, Used' = Used
    PROVE  /\ DOMAIN disk' = Label /\ \A k \in Label : Filled(disk'[k], Phys)
           /\ DiskSums'
<1>1. pc[1] \notin {"idle", "send"} /\ Trying
  BY DEF Waiting, Trying
<1>2. At \subseteq Phys
  BY <1>1, RequestOnDisk DEF ControlInv
<1>3. req.op = "FLT_WRITE" /\ Made
  BY <1>1, Operation DEF ControlInv, Made
<1>4. DOMAIN ext = At /\ Filled(ext, At)
  BY <1>1, <1>3 DEF ContentsInv, ExtSums, Sectors
<1>5. /\ DOMAIN disk' = Label
      /\ \A k \in Label : k # l => disk'[k] = disk[k]
      /\ disk'[l] = [p \in Phys |-> IF p \in places THEN ext[p] ELSE disk[l][p]]
  BY DEF Written, ContentsInv, Sectors
<1>6. ASSUME NEW k \in Label PROVE Filled(disk'[k], Phys)
  <2>1. CASE k # l
    BY <1>5, <2>1 DEF ContentsInv, Sectors
  <2>2. CASE k = l
    <3>1. Filled(disk[l], Phys)
      BY DEF ContentsInv, Sectors
    <3>2. \A p \in Phys : disk'[l][p] \in IF IsSum(p) THEN SumSector ELSE Value \cup {Junk}
      <4>1. \A p \in Phys : disk[l][p] \in IF IsSum(p) THEN SumSector ELSE Value \cup {Junk}
        BY <3>1, FilledFacts
      <4>2. \A p \in At : ext[p] \in IF IsSum(p) THEN SumSector ELSE Value \cup {Junk}
        BY <1>4, FilledFacts
      <4> QED BY <1>5, <4>1, <4>2
    <3>3. disk'[l] = [p \in Phys |-> disk'[l][p]]
      BY <1>5
    <3> QED BY <2>2, <3>2, <3>3, FilledFrom
  <2> QED BY <2>1, <2>2
<1>7. DiskSums'
  <2>1. \A nr, sum : Right(nr, sum)' = Right(nr, sum)
    BY DEF Right, Allowed, Spanned
  <2>2. ASSUME NEW k \in Used, NEW nr \in Logical PROVE Right(nr, Entry(disk'[k], nr))
    <3>1. SEC2SUM_NR(nr) \in Phys /\ Right(nr, Entry(disk[k], nr)) /\ k \in Label
      BY PlacesOnDisk, Reached DEF ControlInv, ContentsInv, DiskSums
    <3>2. CASE k = l /\ SEC2SUM_NR(nr) \in places
      <4>1. HasEntry(ext, nr)
        BY <1>4, <3>2 DEF HasEntry
      <4>2. Right(nr, Entry(ext, nr))
        BY <1>1, <1>3, <4>1 DEF ContentsInv, ExtSums
      <4> QED BY <1>5, <3>1, <3>2, <4>2 DEF Entry
    <3>3. CASE ~(k = l /\ SEC2SUM_NR(nr) \in places)
      BY <1>5, <3>1, <3>3 DEF Entry
    <3> QED BY <3>2, <3>3
  <2>3. ASSUME NEW k \in Used, NEW nr \in Logical PROVE Right(nr, Entry(disk[k], nr))'
    <3>1. Right(nr, Entry(disk'[k], nr))
      BY <2>3, <2>2
    <3> QED BY <3>1 DEF Right, Allowed, Spanned
  <2> QED BY <2>3 DEF DiskSums
<1> QED BY <1>5, <1>6, <1>7

\* The driver that has a message.
LEMMA Asking ==
    ASSUME ControlInv, NEW l \in Label, NEW w \in Which, Sent(l, w, "valid")
    PROVE  /\ Waiting /\ w \in SentTo /\ driver[w].endpt = l /\ l \in Used
           /\ \A v \in SentTo : driver[v].endpt = l => v = w
<1>1. amsgtable[w].state = "valid" /\ amsgtable[w].dst = l
  BY DEF Sent
<1>2. Waiting /\ w \in SentTo /\ driver[w].endpt = l /\ l \in Used
  BY <1>1, SentToUsed
<1> QED BY <1>2, Reached DEF ControlInv

\* A driver that serves its message preserves ContentsInv.
LEMMA ServeContents ==
    ASSUME ControlInv, ContentsInv, NEW l \in Label, NEW w \in Which, Serve(l, w)
    PROVE  ContentsInv'
<1>1. /\ Sent(l, w, "valid")
      /\ got' = [got EXCEPT ![w] = IF Writing THEN <<>> ELSE Restrict(disk[l], Head(todo).at)]
      /\ disk' = IF Writing THEN Written(l, Head(todo).at) ELSE disk
      /\ UNCHANGED <<driver, USE_MIRROR, pc, req, todo, ext, r, may>>
  BY DEF Serve, request, history
<1>2. Waiting /\ w \in SentTo /\ driver[w].endpt = l
  BY <1>1, Asking
<1>3. Writing <=> What = "FLT_WRITE"
  BY DEF Writing, What
<1>4. Trying /\ pc[1] \notin {"idle", "send", "reply"}
  BY <1>2 DEF Trying, Waiting
<1>5. /\ Used' = Used /\ SentTo' = SentTo /\ What' = What /\ At' = At /\ Spanned' = Spanned
      /\ Waiting' /\ Made' = Made /\ Trying'
  BY <1>1, <1>2, <1>4 DEF Used, SentTo, What, At, Spanned, Waiting, Made, Trying
<1>6. \A nr, sum : Right(nr, sum)' = Right(nr, sum)
  BY <1>1, <1>5 DEF Right, Allowed
<1>7. ExtSums' /\ Replied'
  BY <1>1, <1>4, <1>5, <1>6 DEF ContentsInv, ExtSums, Replied
<1>8. DOMAIN got = Which /\ SentTo \subseteq Which
  BY Reached DEF ControlInv, Types
<1>9. CASE What = "FLT_WRITE"
  <2>1. Head(todo).at = At
    BY <1>4, <1>9, Operation DEF ControlInv
  <2>2. got'[w] = <<>> /\ \A v \in Which : v # w => got'[v] = got[v]
    BY <1>1, <1>3, <1>8, <1>9
  <2>3. disk' = Written(l, At)
    BY <1>1, <1>3, <1>9, <2>1
  <2>4. DOMAIN disk' = Label /\ (\A k \in Label : Filled(disk'[k], Phys)) /\ DiskSums'
    BY <1>1, <1>2, <1>5, <1>9, <2>3, WriteContents
  <2>5. Sectors'
    BY <1>1, <1>5, <1>9, <2>2, <2>4 DEF ContentsInv, Sectors
  <2>6. GotSums' /\ ReadBack'
    BY <1>5, <1>9 DEF GotSums, ReadBack
  <2> QED BY <1>7, <2>4, <2>5, <2>6 DEF ContentsInv
<1>10. CASE What # "FLT_WRITE"
  <2> DEFINE at == Head(todo).at
  <2>1. at \subseteq Phys
    <3>1. At \subseteq Phys /\ HeadAt \subseteq At /\ TailAt \subseteq At
      BY <1>4, RequestOnDisk DEF ControlInv
    <3>2. at = At \/ at = HeadAt \/ at = TailAt
      BY <1>4, Operation DEF ControlInv, Asked
    <3> QED BY <3>1, <3>2
  <2> HIDE DEF at
  <2>2. disk' = disk /\ got'[w] = [p \in at |-> disk[l][p]] /\ \A v \in Which : v # w => got'[v] = got[v]
    BY <1>1, <1>3, <1>8, <1>10 DEF Restrict, at
  <2>3. Filled(got'[w], at)
    <3>1. \A p \in at : disk[l][p] \in IF IsSum(p) THEN SumSector ELSE Value \cup {Junk}
      BY <2>1, FilledFacts DEF ContentsInv, Sectors
    <3> QED BY <2>2, <3>1, FilledFrom
  <2>4. Sectors'
    BY <1>1, <1>5, <1>10, <2>2, <2>3 DEF ContentsInv, Sectors, at
  <2>5. DiskSums'
    BY <1>5, <1>6, <2>2 DEF ContentsInv, DiskSums
  <2>6. GotSums'
    <3>1. CASE w = DRIVER_MAIN
      <4>1. l \in Used
        BY <1>2, Reached DEF ControlInv
      <4>2. ASSUME NEW nr \in Logical, HasEntry(got'[w], nr)
            PROVE  Right(nr, Entry(got'[w], nr))
        <5>1. Entry(got'[w], nr) = Entry(disk[l], nr)
          BY <2>2, <4>2 DEF HasEntry, Entry
        <5> QED BY <4>1, <5>1 DEF ContentsInv, DiskSums
      <4> QED BY <1>6, <3>1, <4>2 DEF GotSums
    <3>2. CASE w # DRIVER_MAIN
      <4>1. got'[DRIVER_MAIN] = got[DRIVER_MAIN]
        BY <2>2, <3>2, Names
      <4> QED BY <1>2, <1>5, <1>6, <4>1 DEF ContentsInv, GotSums
    <3> QED BY <3>1, <3>2
  <2>7. ReadBack'
    <3>1. ASSUME What = "FLT_READ2", NEW v \in SentTo, got'[v] # NONE, NEW p \in At
          PROVE  disk[driver[v].endpt][p] = got'[v][p] \/ Rotted(driver[v].endpt, p)
      <4>1. CASE v = w
        <5>1. at = At
          BY <1>4, <3>1, Operation DEF ControlInv, at
        <5> QED BY <1>2, <2>2, <4>1, <5>1
      <4>2. CASE v # w
        BY <1>2, <1>8, <2>2, <3>1, <4>2 DEF ContentsInv, ReadBack
      <4> QED BY <4>1, <4>2
    <3>2. \A k, p : Rotted(k, p)' = Rotted(k, p)
      BY <2>2 DEF Rotted
    <3> QED BY <1>1, <1>5, <2>2, <3>1, <3>2 DEF ReadBack
  <2> QED BY <1>7, <2>4, <2>5, <2>6, <2>7 DEF ContentsInv
<1> QED BY <1>9, <1>10

\* A driver that stops in the middle of what it was asked.
LEMMA TornContents ==
    ASSUME ControlInv, ContentsInv, NEW l \in Label, NEW w \in Which, Torn(l, w),
           UNCHANGED <<driver, USE_MIRROR, pc, req, todo, ext, r, may, got>>
    PROVE  ContentsInv'
<1>1. Sent(l, w, "valid")
  BY DEF Torn
<1>2. Waiting
  BY <1>1, Asking
<1>3. Writing <=> What = "FLT_WRITE"
  BY DEF Writing, What
<1>4. CASE ~Writing
  <2>1. disk' = disk
    BY <1>4 DEF Torn
  <2> QED BY <2>1, QuietContents
<1>5. CASE Writing
  <2>1. Trying /\ Head(todo).at = At
    BY <1>2, <1>3, <1>5, Operation DEF ControlInv, Trying
  <2>2. PICK p \in At : disk' = Written(l, {q \in At : q < p})
    BY <1>5, <2>1 DEF Torn
  <2>3. Used' = Used
    BY DEF Used
  <2>4. PICK places \in SUBSET At : disk' = Written(l, places)
    BY <2>2
  <2>5. DOMAIN disk' = Label /\ (\A k \in Label : Filled(disk'[k], Phys)) /\ DiskSums'
    BY <1>2, <1>3, <1>5, <2>3, <2>4, WriteContents
  <2>6. What' = What /\ Waiting' = Waiting /\ Trying' = Trying /\ Made' = Made /\ At' = At /\ Spanned' = Spanned
    BY DEF What, Waiting, Trying, Made, At, Spanned
  <2>7. \A nr, sum : Right(nr, sum)' = Right(nr, sum)
    BY <2>6 DEF Right, Allowed
  <2>8. Sectors' /\ GotSums' /\ ExtSums'
    BY <2>5, <2>6, <2>7 DEF ContentsInv, Sectors, GotSums, ExtSums
  <2>9. ReadBack' /\ Replied'
    BY <1>2, <1>3, <1>5, <2>6 DEF ReadBack, Replied, Waiting
  <2> QED BY <2>5, <2>8, <2>9 DEF ContentsInv
<1> QED BY <1>4, <1>5

\* One that reports an error preserves ContentsInv.
LEMMA FailContents ==
    ASSUME ControlInv, ContentsInv, NEW l \in Label, Fail(l)
    PROVE  ContentsInv'
<1>1. UNCHANGED <<driver, USE_MIRROR, pc, req, todo, ext, r, may, got>>
  BY DEF Fail, request
<1> QED BY <1>1, TornContents DEF Fail

\* A crash preserves ContentsInv.
LEMMA CrashContents ==
    ASSUME ControlInv, ContentsInv, NEW l \in Label, Crash(l)
    PROVE  ContentsInv'
<1>1. UNCHANGED <<driver, USE_MIRROR, pc, req, todo, ext, r, may, got>>
  BY DEF Crash, request
<1>2. CASE UNCHANGED disk
  BY <1>1, <1>2, QuietContents
<1> QED BY <1>1, <1>2, TornContents DEF Crash

\* Rot preserves ContentsInv.
LEMMA RotContents ==
    ASSUME ControlInv, ContentsInv, NEW l \in Label, NEW p \in Phys, Rot(l, p)
    PROVE  ContentsInv'
<1>1. /\ disk' = [disk EXCEPT ![l][p] = Rotten(p)] /\ <<l, p>> \in Fragile
      /\ UNCHANGED <<driver, USE_MIRROR, pc, req, todo, ext, r, may, got>>
  BY DEF Rot, Rotten, request, exchange
<1>2. /\ DOMAIN disk' = Label
      /\ \A k \in Label : k # l => disk'[k] = disk[k]
      /\ disk'[l] = [disk[l] EXCEPT ![p] = Rotten(p)]
      /\ DOMAIN disk[l] = Phys
  BY <1>1, FilledFacts DEF ContentsInv, Sectors
<1>3. /\ disk'[l][p] = Rotten(p) /\ \A q \in Phys : q # p => disk'[l][q] = disk[l][q]
      /\ disk'[l] = [q \in Phys |-> disk'[l][q]]
  BY <1>2
<1>4. \A k \in Label, q \in Phys : disk'[k][q] = disk[k][q] \/ (disk'[k][q] = Rotten(q) /\ <<k, q>> \in Fragile)
  BY <1>1, <1>2, <1>3
<1>5. Rotten(p) \in IF IsSum(p) THEN SumSector ELSE Value \cup {Junk}
  BY DEF Rotten, SumSector
<1>6. /\ Used' = Used /\ SentTo' = SentTo /\ What' = What /\ At' = At /\ Spanned' = Spanned
      /\ Waiting' = Waiting /\ Trying' = Trying /\ Made' = Made
  BY <1>1 DEF Used, SentTo, What, At, Spanned, Waiting, Trying, Made
<1>7. \A nr, sum : Right(nr, sum)' = Right(nr, sum)
  BY <1>1, <1>6 DEF Right, Allowed
<1>8. Sectors'
  <2>1. Filled(disk'[l], Phys)
    BY <1>3, <1>5, FilledFacts, FilledFrom DEF ContentsInv, Sectors
  <2> QED BY <1>1, <1>2, <1>6, <2>1 DEF ContentsInv, Sectors
<1>9. \A k \in Label, nr \in Logical : Entry(disk'[k], nr) = Entry(disk[k], nr) \/ Entry(disk'[k], nr) = Junk
  <2> SUFFICES ASSUME NEW k \in Label, NEW nr \in Logical
               PROVE  Entry(disk'[k], nr) = Entry(disk[k], nr) \/ Entry(disk'[k], nr) = Junk
    OBVIOUS
  <2>1. SEC2SUM_NR(nr) \in Phys /\ IsSum(SEC2SUM_NR(nr)) /\ nr % NR_SUM_SEC \in Index
    BY PlacesOnDisk
  <2>2. Rotten(SEC2SUM_NR(nr))[nr % NR_SUM_SEC] = Junk
    BY <2>1 DEF Rotten
  <2> QED BY <1>4, <2>1, <2>2 DEF Entry
<1>10. Used \subseteq Label
  BY Reached DEF ControlInv
<1>11. DiskSums'
  <2>1. ASSUME NEW k \in Used, NEW nr \in Logical PROVE Right(nr, Entry(disk'[k], nr))
    BY <1>9, <1>10 DEF ContentsInv, DiskSums, Right
  <2> QED BY <1>6, <1>7, <2>1 DEF DiskSums
<1>12. GotSums' /\ ExtSums'
  BY <1>1, <1>6, <1>7 DEF ContentsInv, GotSums, ExtSums
<1>13. ReadBack'
  <2> SUFFICES ASSUME Waiting, What = "FLT_READ2", NEW w \in SentTo, got[w] # NONE, NEW q \in At
               PROVE  disk'[driver[w].endpt][q] = got[w][q] \/ Rotted(driver[w].endpt, q)'
    BY <1>1, <1>6 DEF ReadBack
  <2>1. q \in Phys /\ driver[w].endpt \in Label
    <3>1. pc[1] # "idle"
      BY DEF Waiting
    <3> QED BY <3>1, RequestOnDisk, Reached DEF ControlInv
  <2>2. disk[driver[w].endpt][q] = got[w][q] \/ Rotted(driver[w].endpt, q)
    BY DEF ContentsInv, ReadBack
  <2> QED BY <1>1, <1>4, <2>1, <2>2 DEF Rotted
<1>14. Replied'
  <2>1. CASE pc[1] = "reply" /\ r = "OK" /\ req.op = "FLT_WRITE"
    <3>1. Spanned \subseteq Logical
      BY <2>1, RequestOnDisk DEF ControlInv, Spanned
    <3> QED BY <1>1, <1>6, <1>9, <1>10, <2>1, <3>1 DEF ContentsInv, Replied
  <2>2. CASE ~(pc[1] = "reply" /\ r = "OK" /\ req.op = "FLT_WRITE")
    BY <1>1, <2>2 DEF ContentsInv, Replied
  <2> QED BY <2>1, <2>2
<1> QED BY <1>8, <1>11, <1>12, <1>13, <1>14 DEF ContentsInv

\* Nothing is in an empty buffer.
LEMMA EmptyFilled == Filled(<<>>, {}) /\ DOMAIN <<>> = {}
<1>1. DOMAIN <<>> = {}
  OBVIOUS
<1>2. <<>> \in [{} -> Sector]
  OBVIOUS
<1> QED BY <1>1, <1>2 DEF Filled

\* A try that fails.
LEMMA RedoContents ==
    ASSUME ControlInv, ContentsInv, NEW d, Redo(d), UNCHANGED <<disk, may, USE_MIRROR>>,
           d[DRIVER_MAIN].label = driver[DRIVER_MAIN].label
    PROVE  ContentsInv'
<1>1. /\ pc'[1] = "check" /\ ext' = <<>> /\ req' = req /\ driver' = d
      /\ \A w \in Which : got'[w] = NONE
  BY DEF Redo
<1>2. ~Waiting' /\ ~Trying' /\ Used' = Used
  BY <1>1 DEF Waiting, Trying, Used
<1>3. Sectors'
  BY <1>1, EmptyFilled DEF ContentsInv, Sectors
<1>4. \A nr, sum : Right(nr, sum)' = Right(nr, sum)
  BY <1>1 DEF Right, Allowed, Spanned
<1>5. DiskSums'
  BY <1>2, <1>4 DEF ContentsInv, DiskSums
<1>6. GotSums' /\ ExtSums' /\ ReadBack' /\ Replied'
  BY <1>1, <1>2 DEF GotSums, ExtSums, ReadBack, Replied
<1> QED BY <1>3, <1>5, <1>6 DEF ContentsInv

\* The alarm preserves ContentsInv.
LEMMA TimeoutContents ==
    ASSUME ControlInv, ContentsInv, Timeout
    PROVE  ContentsInv'
<1> DEFINE d == [w \in Which |-> IF w \in await
                                 THEN [driver[w] EXCEPT !.problem = check_senda(amsgtable, w)] ELSE driver[w]]
<1>1. Redo(d) /\ UNCHANGED <<disk, may, USE_MIRROR>>
  BY DEF Timeout, Revoke
<1>2. d[DRIVER_MAIN].label = driver[DRIVER_MAIN].label
  <2>1. driver[DRIVER_MAIN] \in DriverState
    BY Names DEF ControlInv, Types
  <2> QED BY <2>1, Names DEF DriverState
<1> HIDE DEF d
<1> QED BY <1>1, <1>2, RedoContents

\* The checksums make_sum puts in, and the ones it leaves.
LEMMA SummedBuffer ==
    ASSUME ControlInv, ContentsInv, Trying, What = "FLT_WRITE", NEW b, b = make_sum(req.first, req.n, ext)
    PROVE  /\ Filled(b, At)
           /\ \A nr \in Logical : HasEntry(b, nr) => Right(nr, Entry(b, nr))
           /\ \A nr \in Spanned : /\ HasData(b, nr) /\ Data(b, nr) = req.data
                                  /\ Entry(b, nr) = calc_sum(nr, req.data)
           /\ \A nr \in Logical : HasEntry(b, nr) /\ nr \notin Spanned =>
                HasEntry(ext, nr) /\ Entry(b, nr) = Entry(ext, nr)
           /\ \A nr \in Logical : HasData(b, nr) => HasData(ext, nr) /\ Data(b, nr) = Data(ext, nr)
<1>1. pc[1] # "idle" /\ req.op = "FLT_WRITE" /\ Spread \cup HeadAt \cup TailAt \subseteq DOMAIN ext
  BY Operation DEF ControlInv, Trying, Waiting
<1>2. req.first \in Nat /\ req.n \in Nat \ {0} /\ req.data \in Value /\ Spanned = Span(req.first, req.n)
  BY <1>1 DEF ControlInv, Asked, Spanned
<1>3. At \subseteq Phys /\ Spanned \subseteq Logical
  BY <1>1, <1>2, RequestOnDisk DEF ControlInv
<1>4. DOMAIN b = At
  BY DEF make_sum, At
\* What lies in the buffer has been read or is of the request.
<1>5. ASSUME NEW p \in At
      PROVE  \/ p \in DOMAIN ext /\ \A nr \in Spanned : p # SEC2SUM_NR(nr)
             \/ p \in DOMAIN ext /\ IsSum(p)
             \/ /\ \E nr \in Spanned : p = SEC2SUM_NR(nr)
                /\ \A nr \in Nat : p = SEC2SUM_NR(nr) => nr \in Spanned
  <2>1. \/ p \in HeadAt \cup TailAt
        \/ \E nr \in Spanned : p = LOG2PHYS(nr)
        \/ /\ \E nr \in Spanned : p = SEC2SUM_NR(nr)
           /\ \A nr \in Nat : p = SEC2SUM_NR(nr) => nr \in Spanned
    BY <1>2, NothingUnread DEF At, HeadAt, TailAt
  <2>2. CASE p \in HeadAt \cup TailAt
    <3>1. ASSUME NEW nr \in Spanned, p = SEC2SUM_NR(nr) PROVE IsSum(p)
      BY <1>3, <3>1, PlacesOnDisk
    <3> QED BY <1>1, <2>2, <3>1
  <2>3. ASSUME NEW nr \in Spanned, p = LOG2PHYS(nr)
        PROVE  p \in DOMAIN ext /\ \A m \in Spanned : p # SEC2SUM_NR(m)
    <3>1. p \in Spread
      BY <1>2, <2>3 DEF Spread
    <3>2. \A m \in Spanned : p # SEC2SUM_NR(m)
      BY <1>3, <2>3, PlacesOnDisk
    <3> QED BY <1>1, <3>1, <3>2
  <2> QED BY <2>1, <2>2, <2>3
<1>6. \A nr \in Spanned : LOG2PHYS(nr) \in DOMAIN ext /\ ext[LOG2PHYS(nr)] = req.data
  BY <1>1 DEF ContentsInv, ExtSums, HasData, Data
<1>7. ASSUME NEW p \in At, \A nr \in Spanned : p # SEC2SUM_NR(nr)
      PROVE  p \in DOMAIN ext /\ b[p] = ext[p]
  <2>1. p \in DOMAIN ext
    BY <1>5, <1>7
  <2>2. b[p] = ext[p]
    BY <1>2, <1>7 DEF make_sum, At
  <2> QED BY <2>1, <2>2
<1>8. ASSUME NEW p \in At, \E nr \in Spanned : p = SEC2SUM_NR(nr)
      PROVE  IsSum(p) /\ b[p] \in SumSector
  <2>1. IsSum(p) /\ p \in Phys
    BY <1>3, <1>8, PlacesOnDisk
  <2> DEFINE nr(i) == (p \div (NR_SUM_SEC + 1)) * NR_SUM_SEC + i
             e(i) == IF nr(i) \in Spanned THEN calc_sum(nr(i), ext[LOG2PHYS(nr(i))]) ELSE ext[p][i]
  <2>2. b[p] = [i \in Index |-> e(i)]
    BY <1>2, <1>8 DEF make_sum, At
  <2>3. \A i \in Index : nr(i) \in Logical /\ SEC2SUM_NR(nr(i)) = p
    BY <2>1, GroupAt
  <2> HIDE DEF nr
  <2>4. ASSUME NEW i \in Index PROVE e(i) \in Sum \cup {Junk}
    <3>1. CASE nr(i) \in Spanned
      <4>1. e(i) = calc_sum(nr(i), req.data)
        BY <1>6, <3>1
      <4> QED BY <1>2, <2>3, <4>1 DEF Sum
    <3>2. CASE nr(i) \notin Spanned
      <4>1. p \in DOMAIN ext
        <5>1. nr(i) \in Nat
          BY <2>3, PlacesOnDisk
        <5> QED BY <1>5, <1>8, <2>3, <3>2, <5>1
      <4>2. ext[p] \in SumSector
        BY <2>1, <4>1, FilledFacts DEF ContentsInv, Sectors
      <4> QED BY <3>2, <4>2 DEF SumSector
    <3> QED BY <3>1, <3>2
  <2> HIDE DEF e
  <2>5. b[p] \in SumSector
    BY <2>2, <2>4 DEF SumSector
  <2> QED BY <2>1, <2>5
<1>9. Filled(b, At)
  <2>1. ASSUME NEW p \in At PROVE b[p] \in IF IsSum(p) THEN SumSector ELSE Value \cup {Junk}
    <3>1. CASE \E nr \in Spanned : p = SEC2SUM_NR(nr)
      BY <1>8, <3>1
    <3>2. CASE \A nr \in Spanned : p # SEC2SUM_NR(nr)
      BY <1>7, <3>2, FilledFacts DEF ContentsInv, Sectors
    <3> QED BY <3>1, <3>2
  <2>2. b = [p \in At |-> b[p]]
    BY DEF make_sum, At
  <2> QED BY <2>1, <2>2, FilledFrom
<1>10. ASSUME NEW nr \in Logical, HasData(b, nr) PROVE HasData(ext, nr) /\ Data(b, nr) = Data(ext, nr)
  <2>1. LOG2PHYS(nr) \in At
    BY <1>4, <1>10 DEF HasData
  <2>2. \A m \in Spanned : LOG2PHYS(nr) # SEC2SUM_NR(m)
    BY <1>3, PlacesOnDisk
  <2> QED BY <1>7, <2>1, <2>2 DEF HasData, Data
<1>11. ASSUME NEW nr \in Logical, HasEntry(b, nr), nr \notin Spanned
       PROVE  HasEntry(ext, nr) /\ Entry(b, nr) = Entry(ext, nr)
  <2>1. nr \in Nat /\ SEC2SUM_NR(nr) \in At
    BY <1>4, <1>11, PlacesOnDisk DEF HasEntry
  <2>2. SEC2SUM_NR(nr) \in DOMAIN ext
    BY <1>5, <1>11, <2>1
  <2>3. Entry(b, nr) = Entry(ext, nr)
    BY <1>2, <1>11, <2>1, OthersKept DEF Entry, At
  <2> QED BY <2>2, <2>3 DEF HasEntry
<1>12. ASSUME NEW nr \in Spanned
       PROVE  HasData(b, nr) /\ Data(b, nr) = req.data /\ Entry(b, nr) = calc_sum(nr, req.data)
  <2>1. LOG2PHYS(nr) \in At
    BY <1>1, <1>2, RequestOnDisk DEF ControlInv, Spread
  <2>2. HasData(b, nr) /\ Data(b, nr) = req.data
    BY <1>3, <1>4, <1>6, <1>10, <2>1 DEF HasData, Data
  <2>3. check_sum(req.first, req.n, b)
    BY <1>2, SumsMatch
  <2>4. Entry(b, nr) = calc_sum(nr, Data(b, nr))
    BY <1>2, <2>3 DEF check_sum, Entry, Data
  <2> QED BY <2>2, <2>4
<1>13. ASSUME NEW nr \in Logical, HasEntry(b, nr) PROVE Right(nr, Entry(b, nr))
  <2>1. CASE nr \in Spanned
    <3>1. req.data \in Allowed(nr)
      BY <2>1 DEF Allowed
    <3> QED BY <1>12, <2>1, <3>1 DEF Right
  <2>2. CASE nr \notin Spanned
    BY <1>1, <1>11, <1>13, <2>2 DEF ContentsInv, ExtSums
  <2> QED BY <2>1, <2>2
<1> QED BY <1>9, <1>10, <1>11, <1>12, <1>13

\* The first operation of a try is not the last one of a write.
LEMMA NotReadBack ==
    ASSUME NEW q, q.op \in {"FLT_READ", "FLT_WRITE"}
    PROVE  Head(transfer(q)).what # "FLT_READ2"
<1> DEFINE at == Extended(q.first, q.n)
           h == HeadRead(q.first, q.n)
           t == TailRead(q.first, q.n)
<1>1. CASE q.op = "FLT_READ"
  <2>1. transfer(q) = <<Io("FLT_READ", at)>>
    BY <1>1 DEF transfer
  <2> QED BY <2>1 DEF Io
<1>2. CASE q.op = "FLT_WRITE"
  <2>1. transfer(q) = TodoAt(at, h, t)
    BY <1>2 DEF transfer, TodoAt
  <2> HIDE DEF at, h, t
  <2>2. Head(TodoAt(at, h, t)) \in {Io("FLT_READ", h), Io("FLT_READ", t), Io("FLT_WRITE", at)}
    BY TodoAtHead
  <2> QED BY <2>1, <2>2 DEF Io
<1> QED BY <1>1, <1>2

\* The buffer of a try that begins.
LEMMA TransferContents ==
    ASSUME Transfer(req'), Asked', pc'[1] # "idle"
    PROVE  /\ DOMAIN ext' \subseteq Phys /\ Filled(ext', DOMAIN ext')
           /\ ExtSums'
           /\ What' # "FLT_READ2" /\ ~Made' /\ ~Waiting'
<1>1. /\ req'.op \in {"FLT_READ", "FLT_WRITE"} /\ req'.first \in Nat /\ req'.n \in Nat \ {0}
      /\ req'.data \in Value
  BY DEF Asked
<1>2. /\ todo' = transfer(req') /\ pc' = <<"send">>
      /\ ext' = IF req'.op = "FLT_WRITE"
                THEN expand(req'.first, req'.n, [nr \in Span(req'.first, req'.n) |-> req'.data]) ELSE <<>>
  BY DEF Transfer
<1>3. What' # "FLT_READ2" /\ ~Made' /\ ~Waiting'
  BY <1>1, <1>2, NotReadBack DEF What, Made, Waiting
<1>4. CASE req'.op = "FLT_READ"
  <2>1. ext' = <<>>
    BY <1>2, <1>4
  <2>2. ExtSums'
    BY <1>4 DEF ExtSums
  <2> QED BY <1>3, <2>1, <2>2, EmptyFilled
<1>5. CASE req'.op = "FLT_WRITE"
  <2> DEFINE S == Span(req'.first, req'.n)
             places == {LOG2PHYS(nr) : nr \in S}
             data == [nr \in S |-> req'.data]
  <2>1. S \subseteq Logical
    <3>1. (Asked /\ pc[1] # "idle" => Span(req.first, req.n) \subseteq Logical)'
      BY RequestOnDisk, PTL
    <3> QED BY <3>1
  <2>2. ext' = [p \in places |-> data[CHOOSE nr \in S : LOG2PHYS(nr) = p]]
    BY <1>2, <1>5 DEF expand
  <2>3. ASSUME NEW p \in places PROVE ext'[p] = req'.data
    <3>1. (CHOOSE nr \in S : LOG2PHYS(nr) = p) \in S
      OBVIOUS
    <3> QED BY <2>2, <3>1
  <2>4. places \subseteq Phys /\ \A p \in places : ~IsSum(p)
    BY <2>1, PlacesOnDisk
  <2>5. DOMAIN ext' = places /\ ext' = [p \in places |-> ext'[p]]
    BY <2>2
  <2>6. \A p \in places : ext'[p] \in IF IsSum(p) THEN SumSector ELSE Value \cup {Junk}
    BY <1>1, <2>3, <2>4
  <2>7. Filled(ext', places)
    BY <2>5, <2>6, FilledFrom
  <2>8. \A nr \in Logical : ~HasEntry(ext', nr)
    BY <2>4, <2>5, PlacesOnDisk DEF HasEntry
  <2>9. \A nr \in S : HasData(ext', nr) /\ Data(ext', nr) = req'.data
    BY <2>3, <2>5 DEF HasData, Data
  <2>10. Spanned' = S
    BY <1>5 DEF Spanned
  <2>11. ExtSums'
    BY <1>3, <2>8, <2>9, <2>10 DEF ExtSums
  <2> QED BY <1>3, <2>4, <2>5, <2>7, <2>11
<1> QED BY <1>1, <1>4, <1>5

\* A disk that is no longer in use need not hold anything.
LEMMA FewerDisks ==
    ASSUME DiskSums, disk' = disk, Used' \subseteq Used,
           \A nr \in Logical : Allowed(nr) \subseteq Allowed(nr)'
    PROVE  DiskSums'
<1>1. ASSUME NEW l \in Used', NEW nr \in Logical PROVE Right(nr, Entry(disk[l], nr))'
  <2>1. Right(nr, Entry(disk[l], nr))
    BY <1>1 DEF DiskSums
  <2>2. Entry(disk[l], nr)' = Entry(disk[l], nr)
    BY DEF Entry
  <2> QED BY <2>1, <2>2 DEF Right
<1> QED BY <1>1 DEF DiskSums

\* A try that begins.
LEMMA BeginContents ==
    ASSUME ControlInv, ControlInv', ContentsInv, Transfer(req'), UNCHANGED <<disk, may>>, Used' \subseteq Used,
           \A nr \in Logical : Allowed(nr) \subseteq Allowed(nr)',
           \A w \in Which : got'[w] = NONE
    PROVE  ContentsInv'
<1>1. pc' = <<"send">>
  BY DEF Transfer
<1>2. /\ DOMAIN ext' \subseteq Phys /\ Filled(ext', DOMAIN ext') /\ ExtSums' /\ ~Waiting'
  BY <1>1, TransferContents DEF ControlInv
<1>3. Sectors'
  BY <1>2 DEF ContentsInv, Sectors
<1>4. DiskSums'
  BY FewerDisks DEF ContentsInv
<1>5. GotSums' /\ ReadBack' /\ Replied'
  BY <1>1, <1>2 DEF GotSums, ReadBack, Replied
<1> QED BY <1>2, <1>3, <1>4, <1>5 DEF ContentsInv

\* The beginning of a request preserves ContentsInv.
LEMMA RequestContents ==
    ASSUME ControlInv, ControlInv', ContentsInv, Request
    PROVE  ContentsInv'
<1>1. PICK s \in Requests, data \in Value, op \in {"FLT_READ", "FLT_WRITE"} :
        do_rdwt([op |-> op, first |-> s[1], n |-> s[2], data |-> data])
  BY DEF Request
<1>2. /\ pc[1] = "idle" /\ Transfer(req')
      /\ driver' = [w \in Which |-> [driver[w] EXCEPT !.retries = 0, !.kills = 0]]
      /\ UNCHANGED <<disk, got, USE_MIRROR, may>>
  BY <1>1 DEF do_rdwt, external, exchange, history
<1>3. driver'[DRIVER_MAIN].label = driver[DRIVER_MAIN].label
  <2>1. driver[DRIVER_MAIN] \in DriverState
    BY Names DEF ControlInv, Types
  <2> QED BY <1>2, <2>1, Names DEF DriverState
<1>4. Used' = Used
  BY <1>2, <1>3 DEF Used
<1>5. \A nr \in Logical : Allowed(nr) \subseteq Allowed(nr)'
  <2>1. Spanned = {}
    <3>1. req = NoRequest
      BY <1>2 DEF ControlInv, Asked
    <3> QED BY <3>1 DEF NoRequest, Spanned
  <2> QED BY <1>2, <2>1 DEF Allowed
<1>6. \A w \in Which : got'[w] = NONE
  BY <1>2 DEF ControlInv, Exchange, Waiting
<1> QED BY <1>2, <1>4, <1>5, <1>6, BeginContents

\* The beginning of read_write preserves ContentsInv.
LEMMA SendContents ==
    ASSUME ControlInv, ContentsInv, read_write
    PROVE  ContentsInv'
<1>1. /\ pc[1] = "send" /\ UNCHANGED <<disk, may, USE_MIRROR>>
      /\ \/ Redo(bad_driver(driver, DRIVER_MAIN, "BD_DEAD"))
         \/ /\ got' = [w \in Which |-> NONE]
            /\ ext' = IF What = "FLT_WRITE" THEN make_sum(req.first, req.n, ext) ELSE ext
            /\ pc'[1] = "wait"
            /\ UNCHANGED <<driver, req, todo, r>>
  BY DEF read_write, SentTo, What, external, history, Revoke
<1>2. CASE Redo(bad_driver(driver, DRIVER_MAIN, "BD_DEAD"))
  <2>1. bad_driver(driver, DRIVER_MAIN, "BD_DEAD")[DRIVER_MAIN].label = driver[DRIVER_MAIN].label
    BY BadDriver, Names DEF ControlInv
  <2> QED BY <1>1, <1>2, <2>1, RedoContents
<1>3. CASE /\ got' = [w \in Which |-> NONE]
           /\ ext' = IF What = "FLT_WRITE" THEN make_sum(req.first, req.n, ext) ELSE ext
           /\ pc'[1] = "wait"
           /\ UNCHANGED <<driver, req, todo, r>>
  <2>1. Trying /\ Trying' /\ Waiting' /\ (\A w \in Which : got'[w] = NONE)
    BY <1>1, <1>3 DEF Trying, Waiting
  <2>2. Used' = Used /\ SentTo' = SentTo /\ What' = What /\ At' = At /\ Spanned' = Spanned
    BY <1>1, <1>3 DEF Used, SentTo, What, At, Spanned
  <2>3. \A nr, sum : Right(nr, sum)' = Right(nr, sum)
    BY <1>1, <1>3, <2>2 DEF Right, Allowed
  <2>4. At \subseteq Phys
    BY <1>1, RequestOnDisk DEF ControlInv
  <2>5. DOMAIN ext' \subseteq Phys /\ Filled(ext', DOMAIN ext') /\ ExtSums'
    <3>1. CASE What = "FLT_WRITE"
      <4>1. ext' = make_sum(req.first, req.n, ext)
        BY <1>3, <3>1
      <4>2. /\ Filled(ext', At)
            /\ \A nr \in Logical : HasEntry(ext', nr) => Right(nr, Entry(ext', nr))
            /\ \A nr \in Spanned : /\ HasData(ext', nr) /\ Data(ext', nr) = req.data
                                   /\ Entry(ext', nr) = calc_sum(nr, req.data)
        BY <2>1, <3>1, <4>1, SummedBuffer
      <4>3. DOMAIN ext' = At
        BY <4>2, FilledFacts
      <4>4. ExtSums'
        BY <1>3, <2>2, <2>3, <4>2, <4>3 DEF ExtSums
      <4> QED BY <2>4, <4>2, <4>3, <4>4
    <3>2. CASE What # "FLT_WRITE"
      <4>1. ext' = ext
        BY <1>3, <3>2
      <4>2. Made' = Made
        BY <2>2, <3>2 DEF Made
      <4>3. ExtSums'
        BY <1>3, <2>1, <2>2, <2>3, <4>1, <4>2 DEF ContentsInv, ExtSums
      <4> QED BY <4>1, <4>3 DEF ContentsInv, Sectors
    <3> QED BY <3>1, <3>2
  <2>6. Sectors'
    BY <1>1, <2>1, <2>5 DEF ContentsInv, Sectors
  <2>7. DiskSums'
    BY <1>1, <2>2, <2>3 DEF ContentsInv, DiskSums
  <2>8. GotSums' /\ ReadBack' /\ Replied'
    BY <1>3, <2>1, <2>2, Names, Reached DEF ControlInv, GotSums, ReadBack, Replied
  <2> QED BY <2>5, <2>6, <2>7, <2>8 DEF ContentsInv
<1> QED BY <1>1, <1>2, <1>3

\* Whoever is in use has been sent what is not only read.
LEMMA AllSent ==
    ASSUME Types, Drivers, What # "FLT_READ", NEW l \in Used
    PROVE  \E w \in SentTo : driver[w].endpt = l
<1>1. CASE USE_MIRROR
  BY <1>1, Names DEF Used, SentTo, Drivers
<1>2. CASE ~USE_MIRROR
  BY <1>2, Names DEF Used, SentTo, Drivers
<1> QED BY <1>1, <1>2

\* Between a read and reading back there is the write.
LEMMA AfterRead ==
    ASSUME Progress, Trying, What = "FLT_READ", req.op = "FLT_WRITE"
    PROVE  Head(Tail(todo)).what # "FLT_READ2"
<1>1. PICK h, t : todo = Todo(h, t)
  BY DEF Progress, What, Io
<1>2. CASE h # {}
  <2>1. Tail(todo) = Todo({}, t)
    BY <1>1, <1>2, TodoHead
  <2>2. Head(Todo({}, t)) \in {Io("FLT_READ", t), Io("FLT_WRITE", At)}
    BY TodoHead
  <2>3. Head(Todo({}, t)).what \in {"FLT_READ", "FLT_WRITE"}
    <3> DEFINE e == Head(Todo({}, t))
    <3> HIDE DEF e
    <3> SUFFICES e \in {Io("FLT_READ", t), Io("FLT_WRITE", At)} => e.what \in {"FLT_READ", "FLT_WRITE"}
      BY <2>2 DEF e
    <3> QED BY DEF Io
  <2> QED BY <2>1, <2>3
<1>3. CASE h = {} /\ t # {}
  <2>1. Tail(todo) = Todo({}, {})
    BY <1>1, <1>3, TodoHead
  <2>2. Head(Todo({}, {})) = Io("FLT_WRITE", At)
    BY TodoHead
  <2>3. Io("FLT_WRITE", At).what = "FLT_WRITE"
    BY DEF Io
  <2>4. Head(Tail(todo)) = Io("FLT_WRITE", At)
    BY <2>1, <2>2
  <2>5. Head(Tail(todo)).what = "FLT_WRITE"
    BY <2>3, <2>4
  <2> QED BY <2>5
<1>4. CASE h = {} /\ t = {}
  BY <1>1, <1>4, TodoHead DEF What, Io
<1> QED BY <1>2, <1>3, <1>4

\* What is done with the replies preserves ContentsInv.
LEMMA EvaluateContents ==
    ASSUME ControlInv, ContentsInv, Evaluate
    PROVE  ContentsInv'
<1>1. /\ pc = <<"evaluate", SentTo>> /\ disk' = disk
      /\ UNCHANGED <<USE_MIRROR, may>>
  BY Outcomes DEF Revoke
<1>2. Waiting /\ Trying /\ Types /\ Drivers /\ DRIVER_MAIN \in SentTo /\ pc[1] # "send" /\ SentTo \subseteq Which
  BY <1>1, Reached DEF Waiting, Trying, ControlInv
<1>3. ASSUME NEW w \in SentTo, NEW problem \in {"BD_PROTO", "BD_DATA"},
             Redo(bad_driver(driver, w, problem))
      PROVE  ContentsInv'
  <2>1. bad_driver(driver, w, problem)[DRIVER_MAIN].label = driver[DRIVER_MAIN].label
    BY <1>2, BadDriver, Names
  <2> QED BY <1>1, <1>3, <2>1, RedoContents
<1>4. ASSUME NEW buffer, Next_io(buffer), req.op = "FLT_WRITE",
             DOMAIN buffer \subseteq Phys, Filled(buffer, DOMAIN buffer),
             \A nr \in Logical : HasEntry(buffer, nr) => Right(nr, Entry(buffer, nr)),
             \A nr \in Spanned : HasData(buffer, nr) /\ Data(buffer, nr) = req.data,
             Made' => /\ DOMAIN buffer = At
                      /\ \A nr \in Spanned : Entry(buffer, nr) = calc_sum(nr, req.data)
      PROVE  ContentsInv'
  <2>1. /\ ext' = buffer /\ pc' = <<"send">> /\ UNCHANGED <<driver, req, r>>
        /\ \A w \in Which : got'[w] = NONE
    BY <1>4 DEF Next_io
  <2>2. ~Waiting' /\ Used' = Used /\ Spanned' = Spanned /\ At' = At
    BY <1>1, <2>1 DEF Waiting, Used, Spanned, At
  <2>3. \A nr, sum : Right(nr, sum)' = Right(nr, sum)
    BY <1>1, <2>1, <2>2 DEF Right, Allowed
  <2>4. Sectors'
    BY <1>1, <1>4, <2>1 DEF ContentsInv, Sectors
  <2>5. DiskSums'
    BY <1>1, <2>2, <2>3 DEF ContentsInv, DiskSums
  <2>6. ExtSums'
    BY <1>4, <2>1, <2>2, <2>3 DEF ExtSums
  <2>7. GotSums' /\ ReadBack' /\ Replied'
    BY <2>1, <2>2 DEF GotSums, ReadBack, Replied
  <2> QED BY <2>4, <2>5, <2>6, <2>7 DEF ContentsInv
<1>5. CASE What = "FLT_WRITE" /\ Next_io(ext)
  <2>1. req.op = "FLT_WRITE" /\ Made
    BY <1>2, <1>5, Operation DEF ControlInv, Made
  <2>2. /\ DOMAIN ext \subseteq Phys /\ Filled(ext, DOMAIN ext)
        /\ \A nr \in Logical : HasEntry(ext, nr) => Right(nr, Entry(ext, nr))
        /\ \A nr \in Spanned : HasData(ext, nr) /\ Data(ext, nr) = req.data
        /\ DOMAIN ext = At
        /\ \A nr \in Spanned : Entry(ext, nr) = calc_sum(nr, req.data)
    BY <1>2, <2>1 DEF ContentsInv, Sectors, ExtSums
  <2> QED BY <1>4, <1>5, <2>1, <2>2
<1>6. CASE /\ What = "FLT_READ" /\ req.op = "FLT_WRITE" /\ ~Unserved(DRIVER_MAIN)
           /\ Next_io([p \in DOMAIN ext \cup Head(todo).at |->
                         IF p \in Head(todo).at THEN got[DRIVER_MAIN][p] ELSE ext[p]])
  <2> DEFINE at == Head(todo).at
             buffer == [p \in DOMAIN ext \cup at |-> IF p \in at THEN got[DRIVER_MAIN][p] ELSE ext[p]]
  <2>1. /\ at \subseteq Phys /\ at \cap Spread = {}
    <3>1. /\ At \subseteq Phys /\ HeadAt \subseteq At /\ TailAt \subseteq At
          /\ HeadAt \cap Spread = {} /\ TailAt \cap Spread = {}
      BY <1>1, RequestOnDisk DEF ControlInv
    <3>2. at \in {HeadAt, TailAt}
      BY <1>2, <1>6, Operation DEF ControlInv
    <3> QED BY <3>1, <3>2
  <2>2. /\ Filled(got[DRIVER_MAIN], at)
        /\ \A nr \in Logical : HasEntry(got[DRIVER_MAIN], nr) => Right(nr, Entry(got[DRIVER_MAIN], nr))
    BY <1>2, <1>6, Names DEF Unserved, ContentsInv, Sectors, GotSums
  <2>3. /\ DOMAIN ext \subseteq Phys /\ Filled(ext, DOMAIN ext)
        /\ \A nr \in Logical : HasEntry(ext, nr) => Right(nr, Entry(ext, nr))
        /\ \A nr \in Spanned : HasData(ext, nr) /\ Data(ext, nr) = req.data
    BY <1>2, <1>6 DEF ContentsInv, Sectors, ExtSums
  <2>4. DOMAIN got[DRIVER_MAIN] = at
    BY <2>2, FilledFacts
  <2>5. Next_io(buffer)
    BY <1>6
  <2>6. ~Made'
    <3>1. todo' = Tail(todo) /\ pc' = <<"send">>
      BY <1>6 DEF Next_io
    <3>2. Head(todo').what # "FLT_READ2"
      BY <1>2, <1>6, <3>1, AfterRead DEF ControlInv
    <3> QED BY <3>1, <3>2 DEF Made, What
  <2> HIDE DEF at
  <2>7. DOMAIN buffer = DOMAIN ext \cup at /\ buffer = [p \in DOMAIN buffer |-> buffer[p]]
    OBVIOUS
  <2>8. /\ \A p \in at : p \in DOMAIN buffer /\ buffer[p] = got[DRIVER_MAIN][p]
        /\ \A p \in DOMAIN buffer : p \notin at => p \in DOMAIN ext /\ buffer[p] = ext[p]
    OBVIOUS
  <2> HIDE DEF buffer
  <2>9. Filled(buffer, DOMAIN buffer)
    <3>1. \A p \in DOMAIN buffer : buffer[p] \in IF IsSum(p) THEN SumSector ELSE Value \cup {Junk}
      BY <2>2, <2>3, <2>8, FilledFacts
    <3> QED BY <2>7, <3>1, FilledFrom
  <2>10. ASSUME NEW nr \in Logical, HasEntry(buffer, nr) PROVE Right(nr, Entry(buffer, nr))
    <3>1. CASE SEC2SUM_NR(nr) \in at
      BY <2>2, <2>4, <2>8, <3>1 DEF HasEntry, Entry
    <3>2. CASE SEC2SUM_NR(nr) \notin at
      BY <2>3, <2>8, <2>10, <3>2 DEF HasEntry, Entry
    <3> QED BY <3>1, <3>2
  <2>11. ASSUME NEW nr \in Spanned PROVE HasData(buffer, nr) /\ Data(buffer, nr) = req.data
    <3>1. LOG2PHYS(nr) \in Spread
      BY DEF Spanned, Spread
    <3>2. LOG2PHYS(nr) \notin at
      BY <2>1, <3>1
    <3> QED BY <2>3, <2>7, <2>8, <3>2 DEF HasData, Data
  <2> QED BY <1>4, <1>6, <2>1, <2>3, <2>5, <2>6, <2>7, <2>9, <2>10, <2>11
<1>7. ASSUME Answer("OK", driver), DOMAIN ext' \subseteq Phys, Filled(ext', DOMAIN ext'),
             IF req.op = "FLT_WRITE"
             THEN \A l \in Used, nr \in Spanned : Entry(disk[l], nr) \in {calc_sum(nr, req.data), Junk}
             ELSE \A nr \in Span(req.first, req.n) : Data(ext', nr) \in may[nr]
      PROVE  ContentsInv'
  <2>1. /\ pc' = <<"reply">> /\ UNCHANGED <<driver, req>>
        /\ \A w \in Which : got'[w] = NONE
    BY <1>7 DEF Answer
  <2>2. ~Waiting' /\ ~Trying' /\ Used' = Used /\ Spanned' = Spanned
    BY <1>1, <2>1 DEF Waiting, Trying, Used, Spanned
  <2>3. Sectors'
    BY <1>1, <1>7, <2>1 DEF ContentsInv, Sectors
  <2>4. DiskSums'
    BY <1>1, <2>1, <2>2 DEF ContentsInv, DiskSums, Right, Allowed
  <2>5. GotSums' /\ ExtSums' /\ ReadBack'
    BY <2>2 DEF GotSums, ExtSums, ReadBack
  <2>6. Replied'
    BY <1>1, <1>7, <2>1, <2>2 DEF Replied
  <2> QED BY <2>3, <2>4, <2>5, <2>6 DEF ContentsInv
<1>8. CASE /\ What = "FLT_READ" /\ req.op = "FLT_READ" /\ ~Unserved(DRIVER_MAIN)
           /\ check_sum(req.first, req.n, got[DRIVER_MAIN])
           /\ Answer("OK", driver) /\ ext' = got[DRIVER_MAIN]
  <2>1. Head(todo).at = At /\ At \subseteq Phys /\ Span(req.first, req.n) \subseteq Logical
    BY <1>1, <1>2, <1>8, Operation, RequestOnDisk DEF ControlInv
  <2>2. /\ Filled(ext', At)
        /\ \A nr \in Logical : HasEntry(ext', nr) => Right(nr, Entry(ext', nr))
    BY <1>2, <1>8, <2>1, Names DEF Unserved, ContentsInv, Sectors, GotSums
  <2>3. DOMAIN ext' = At
    BY <2>2, FilledFacts
  <2>4. ASSUME NEW nr \in Span(req.first, req.n) PROVE Data(ext', nr) \in may[nr]
    <3>1. nr \in Logical /\ LOG2PHYS(nr) \in At /\ SEC2SUM_NR(nr) \in At
      BY <1>1, <2>1, InBuffer DEF ControlInv, Asked, At
    <3>2. Entry(ext', nr) = calc_sum(nr, Data(ext', nr))
      BY <1>8 DEF check_sum, Entry, Data
    <3>3. Right(nr, Entry(ext', nr))
      BY <2>2, <2>3, <3>1 DEF HasEntry
    <3>4. Data(ext', nr) \in Value \cup {Junk}
      BY <2>2, <3>1, PlacesOnDisk, FilledFacts DEF Data
    <3>5. Entry(ext', nr) # Junk
      <4>1. CASE Data(ext', nr) \in Value
        BY <3>1, <3>2, <4>1, FilterAssumption DEF Sum
      <4>2. CASE Data(ext', nr) = Junk
        BY <3>1, <3>2, <4>2, FilterAssumption
      <4> QED BY <3>4, <4>1, <4>2
    <3>6. PICK v \in Allowed(nr) : Entry(ext', nr) = calc_sum(nr, v)
      BY <3>3, <3>5 DEF Right
    <3>7. v = Data(ext', nr)
      BY <3>2, <3>6 DEF calc_sum
    <3>8. Allowed(nr) = may[nr]
      BY <1>8 DEF Allowed, Spanned
    <3> QED BY <3>7, <3>8
  <2> QED BY <1>7, <1>8, <2>1, <2>2, <2>3, <2>4
<1>9. CASE /\ What = "FLT_READ2" /\ \A w \in SentTo : ~Unserved(w)
           /\ \A w \in SentTo : got[w] = ext
           /\ Answer("OK", driver) /\ UNCHANGED ext
  <2>1. req.op = "FLT_WRITE" /\ Made
    BY <1>2, <1>9, Operation DEF ControlInv, Made
  <2>2. /\ DOMAIN ext \subseteq Phys /\ Filled(ext, DOMAIN ext)
        /\ \A nr \in Spanned : Entry(ext, nr) = calc_sum(nr, req.data)
    BY <1>2, <2>1 DEF ContentsInv, Sectors, ExtSums
  <2>3. ASSUME NEW l \in Used, NEW nr \in Spanned
        PROVE  Entry(disk[l], nr) \in {calc_sum(nr, req.data), Junk}
    <3>1. PICK w \in SentTo : driver[w].endpt = l
      BY <1>2, <1>9, AllSent
    <3>2. nr \in Logical /\ SEC2SUM_NR(nr) \in At
      BY <1>1, <2>1, InBuffer, RequestOnDisk DEF ControlInv, Asked, At, Spanned
    <3>3. disk[l][SEC2SUM_NR(nr)] = ext[SEC2SUM_NR(nr)] \/ disk[l][SEC2SUM_NR(nr)] = Rotten(SEC2SUM_NR(nr))
      BY <1>2, <1>9, <3>1, <3>2 DEF Unserved, ContentsInv, ReadBack, Rotted
    <3>4. IsSum(SEC2SUM_NR(nr)) /\ nr % NR_SUM_SEC \in Index
      BY <3>2, PlacesOnDisk
    <3>5. Rotten(SEC2SUM_NR(nr))[nr % NR_SUM_SEC] = Junk
      BY <3>4 DEF Rotten
    <3> QED BY <2>2, <3>3, <3>5 DEF Entry
  <2> QED BY <1>7, <1>9, <2>1, <2>2, <2>3
<1> QED BY <1>2, <1>3, <1>5, <1>6, <1>8, <1>9, Outcomes

\* The filter has looked at a driver.
LEMMA ReturnContents ==
    ASSUME ControlInv, ControlInv', ContentsInv, pc[1] \in {"check", "restart"}, NEW w \in Which, Return(w),
           UNCHANGED <<disk, may, req>>, Used' \subseteq Used, \A v \in Which : got'[v] = NONE
    PROVE  ContentsInv'
<1>1. \A nr \in Logical : Allowed(nr) \subseteq Allowed(nr)'
  BY DEF Allowed, Spanned
<1>2. CASE w # DRIVER_MAIN
  <2>1. Transfer(req')
    BY <1>2 DEF Return
  <2> QED BY <1>1, <2>1, BeginContents
<1>3. CASE w = DRIVER_MAIN
  <2>1. pc'[1] = "check" /\ ext' = ext
    BY <1>3 DEF Return
  <2>2. Sectors'
    BY <2>1 DEF ContentsInv, Sectors
  <2>3. DiskSums'
    BY <1>1, FewerDisks DEF ContentsInv
  <2>4. GotSums' /\ ExtSums' /\ ReadBack' /\ Replied'
    BY <2>1 DEF GotSums, ExtSums, ReadBack, Replied, Trying, Waiting
  <2> QED BY <2>2, <2>3, <2>4 DEF ContentsInv
<1> QED BY <1>2, <1>3

\* check_driver preserves ContentsInv.
LEMMA CheckContents ==
    ASSUME ControlInv, ControlInv', ContentsInv, NEW w \in Which, NEW n \in 1 .. 2, check_driver(w, n)
    PROVE  ContentsInv'
<1>1. /\ pc = <<"check", w, n>> /\ got' = [v \in Which |-> NONE]
      /\ UNCHANGED <<disk, may, req>>
  BY CheckOutcomes
<1>2. Used' \subseteq Used
  <2>1. CASE USE_MIRROR' = USE_MIRROR /\ driver'[DRIVER_MAIN].label = driver[DRIVER_MAIN].label
    BY <2>1 DEF Used
  <2>2. \/ USE_MIRROR' = USE_MIRROR /\ driver'[DRIVER_MAIN].label = driver[DRIVER_MAIN].label
        \/ USE_MIRROR
    BY CheckOutcomes, Names
  <2>3. Used' \subseteq Label
    <3>1. driver'[DRIVER_MAIN].label \in Label
      BY Names DEF ControlInv, Types, DriverState
    <3> QED BY <3>1 DEF Used
  <2>4. USE_MIRROR => Used = Label
    BY DEF Used
  <2> QED BY <2>1, <2>2, <2>3, <2>4
<1>3. \A nr \in Logical : Allowed(nr) \subseteq Allowed(nr)'
  BY <1>1 DEF Allowed, Spanned
<1>4. DiskSums'
  BY <1>1, <1>2, <1>3, FewerDisks DEF ContentsInv
<1>5. CASE Return(w)
  BY <1>1, <1>2, <1>5, ReturnContents
<1>6. CASE pc' = <<"restart", w>> /\ ext' = ext
  <2>1. Sectors'
    BY <1>1, <1>6 DEF ContentsInv, Sectors
  <2>2. GotSums' /\ ExtSums' /\ ReadBack' /\ Replied'
    BY <1>6 DEF GotSums, ExtSums, ReadBack, Replied, Trying, Waiting
  <2> QED BY <1>4, <2>1, <2>2 DEF ContentsInv
<1>7. CASE pc' = <<"reply">> /\ r' = "error" /\ ext' = <<>>
  <2>1. Sectors'
    BY <1>1, <1>7, EmptyFilled DEF ContentsInv, Sectors
  <2>2. GotSums' /\ ExtSums' /\ ReadBack' /\ Replied'
    BY <1>7 DEF GotSums, ExtSums, ReadBack, Replied, Trying, Waiting
  <2> QED BY <1>4, <2>1, <2>2 DEF ContentsInv
<1>8. \/ Return(w) \/ (pc' = <<"restart", w>> /\ ext' = ext)
      \/ (pc' = <<"reply">> /\ r' = "error" /\ ext' = <<>>)
  BY DEF check_driver, NoProblem, NewInstance, Retry, Restart, Drop, GiveUp, Answer, request
<1> QED BY <1>5, <1>6, <1>7, <1>8

\* The end of restart_driver preserves ContentsInv.
LEMMA RestartContents ==
    ASSUME ControlInv, ControlInv', ContentsInv, NEW w \in Which, restart_driver(w)
    PROVE  ContentsInv'
<1>1. /\ pc[1] = "restart" /\ UNCHANGED <<disk, may, req, driver, USE_MIRROR, got, r>>
      /\ Return(w) \/ (pc' = <<"check", w, 2>> /\ UNCHANGED <<todo, ext>>)
  BY DEF restart_driver, external, exchange
<1>2. Used' = Used /\ \A v \in Which : got'[v] = NONE
  BY <1>1 DEF Used, ControlInv, Exchange, Waiting
<1>3. CASE Return(w)
  BY <1>1, <1>2, <1>3, ReturnContents
<1>4. CASE pc' = <<"check", w, 2>> /\ UNCHANGED <<todo, ext>>
  <2>1. Waiting' = Waiting /\ Trying' = Trying /\ Made' = Made
    BY <1>1, <1>4 DEF Waiting, Trying, Made, What
  <2> QED BY <1>1, <1>4, <2>1, SameContents
<1> QED BY <1>1, <1>3, <1>4

\* The reply to the caller preserves ContentsInv.
LEMMA ReplyContents ==
    ASSUME ControlInv, ContentsInv, Reply
    PROVE  ContentsInv'
<1>1. /\ pc[1] = "reply" /\ pc' = <<"idle">> /\ req' = NoRequest /\ ext' = <<>>
      /\ UNCHANGED <<disk, driver, USE_MIRROR, got>>
      /\ may' = [nr \in Logical |->
                    IF req.op = "FLT_WRITE" /\ nr \in Span(req.first, req.n)
                    THEN IF r = "OK" THEN {req.data} ELSE may[nr] \cup {req.data}
                    ELSE may[nr]]
  BY DEF Reply, external, exchange
<1>2. req.data \in Value /\ req.op \in {"FLT_READ", "FLT_WRITE"}
  BY <1>1 DEF ControlInv, Asked
<1>3. may' \in [Logical -> SUBSET Value]
  BY <1>1, <1>2 DEF ContentsInv, Sectors
<1>4. \A w \in Which : got'[w] = NONE
  BY <1>1 DEF ControlInv, Exchange, Waiting
<1>5. Sectors'
  BY <1>1, <1>3, <1>4, EmptyFilled DEF ContentsInv, Sectors
<1>6. Used' = Used
  BY <1>1 DEF Used
<1>7. Spanned' = {}
  BY <1>1 DEF Spanned, NoRequest
<1>8. DiskSums'
  <2>1. ASSUME NEW l \in Used, NEW nr \in Logical PROVE Right(nr, Entry(disk[l], nr))'
    <3>1. Entry(disk[l], nr)' = Entry(disk[l], nr)
      BY <1>1 DEF Entry
    <3>2. Right(nr, Entry(disk[l], nr))
      BY <2>1 DEF ContentsInv, DiskSums
    <3>3. CASE nr \in Spanned /\ r = "OK"
      <4>1. Entry(disk[l], nr) \in {calc_sum(nr, req.data), Junk}
        BY <1>1, <2>1, <3>3 DEF ContentsInv, Replied, Spanned
      <4>2. req.data \in may'[nr]
        BY <1>1, <2>1, <3>3 DEF Spanned
      <4> QED BY <3>1, <4>1, <4>2 DEF Right, Allowed
    <3>4. CASE ~(nr \in Spanned /\ r = "OK")
      <4>1. Allowed(nr) \subseteq may'[nr]
        BY <1>1, <2>1, <3>4 DEF Allowed, Spanned
      <4> QED BY <3>1, <3>2, <4>1 DEF Right, Allowed
    <3> QED BY <3>3, <3>4
  <2> QED BY <1>6, <2>1 DEF DiskSums
<1>9. GotSums' /\ ExtSums' /\ ReadBack' /\ Replied'
  BY <1>1 DEF GotSums, ExtSums, ReadBack, Replied, Trying, Waiting
<1> QED BY <1>5, <1>8, <1>9 DEF ContentsInv

\* The start of the system establishes ContentsInv.
LEMMA InitContents ==
    ASSUME Init
    PROVE  ContentsInv
<1>1. /\ disk = [l \in Label |-> Formatted] /\ ext = <<>> /\ pc = <<"idle">>
      /\ got = [w \in Which |-> NONE] /\ may = [nr \in Logical |-> {Blank}] /\ req = NoRequest
  BY DEF Init
<1>2. Blank \in Value
  BY FilterAssumption
<1>3. Filled(Formatted, Phys)
  <2>1. ASSUME NEW p \in Phys PROVE Formatted[p] \in IF IsSum(p) THEN SumSector ELSE Value \cup {Junk}
    <3>1. CASE IsSum(p)
      <4> DEFINE nr(i) == (p \div (NR_SUM_SEC + 1)) * NR_SUM_SEC + i
      <4>1. Formatted[p] = [i \in Index |-> calc_sum(nr(i), Blank)]
        BY <3>1 DEF Formatted
      <4>2. \A i \in Index : nr(i) \in Logical
        BY <3>1, GroupAt
      <4> HIDE DEF nr
      <4>3. \A i \in Index : calc_sum(nr(i), Blank) \in Sum
        BY <1>2, <4>2 DEF Sum
      <4> QED BY <3>1, <4>1, <4>3 DEF SumSector
    <3>2. CASE ~IsSum(p)
      BY <1>2, <3>2 DEF Formatted
    <3> QED BY <3>1, <3>2
  <2>2. Formatted = [p \in Phys |-> Formatted[p]]
    BY DEF Formatted
  <2> QED BY <2>1, <2>2, FilledFrom
<1>4. Sectors
  BY <1>1, <1>2, <1>3, EmptyFilled DEF Sectors
<1>5. DiskSums
  <2> SUFFICES ASSUME NEW l \in Used, NEW nr \in Logical PROVE Right(nr, Entry(disk[l], nr))
    BY DEF DiskSums
  <2>1. ControlInv
    BY InitControl
  <2>2. disk[l] = Formatted
    BY <1>1, <2>1, Reached DEF ControlInv
  <2> DEFINE p == SEC2SUM_NR(nr)
  <2>3. p \in Phys /\ IsSum(p) /\ nr % NR_SUM_SEC \in Index /\ nr \in Nat
    BY PlacesOnDisk
  <2>4. (p \div (NR_SUM_SEC + 1)) * NR_SUM_SEC + (nr % NR_SUM_SEC) = nr
    BY <2>3, GroupOf
  <2>5. Formatted[p][nr % NR_SUM_SEC] = calc_sum(nr, Blank)
    BY <2>3, <2>4 DEF Formatted
  <2>6. Entry(disk[l], nr) = calc_sum(nr, Blank)
    BY <2>2, <2>5 DEF Entry
  <2>7. Blank \in Allowed(nr)
    BY <1>1 DEF Allowed
  <2> QED BY <2>6, <2>7 DEF Right
<1>6. GotSums /\ ExtSums /\ ReadBack /\ Replied
  BY <1>1 DEF GotSums, ExtSums, ReadBack, Replied, Trying, Waiting
<1> QED BY <1>4, <1>5, <1>6 DEF ContentsInv

\* Any of the steps that change nothing of it preserves ContentsInv.
LEMMA OtherContents ==
    ASSUME ControlInv, ContentsInv,
           UNCHANGED vars \/ \E l \in Label : Refuse(l) \/ Start(l) \/ Stray(l)
    PROVE  ContentsInv'
<1>1. UNCHANGED <<disk, got, ext, todo, may, req, r, USE_MIRROR, pc, driver>>
  BY DEF vars, external, request, exchange, history, Refuse, Start, Stray
<1> QED BY <1>1, QuietContents

\* Any step preserves ContentsInv.
LEMMA NextContents ==
    ASSUME ControlInv, ControlInv', ContentsInv, [Next]_vars
    PROVE  ContentsInv'
<1>1. CASE UNCHANGED vars
  BY <1>1, OtherContents
<1>2. CASE Next
  BY <1>2, Steps, ServeContents, OtherContents, FailContents, CrashContents, RotContents,
     RequestContents, EventContents, SendContents, TimeoutContents, EvaluateContents, ReplyContents,
     ReceiveContents, RestartContents, CheckContents
<1> QED BY <1>1, <1>2

\* Every checksum of the disks in use, and of what has been read from them, is
\* the one of data that may be there, or rotten.
THEOREM FilterContents == Spec => []ContentsInv
<1>1. Init => ContentsInv
  BY InitContents
<1>2. ControlInv /\ ControlInv' /\ ContentsInv /\ [Next]_vars => ContentsInv'
  BY NextContents
<1> QED BY <1>1, <1>2, FilterControl, PTL DEF Spec

\* A read that succeeds returns data that may be there: ReadsAreRight.
THEOREM ReadsRight == Spec => []ReadsAreRight
<1>1. ControlInv /\ ContentsInv => ReadsAreRight
  <2> SUFFICES ASSUME ControlInv, ContentsInv, pc[1] = "reply", r = "OK", req.op = "FLT_READ",
                      NEW nr \in Span(req.first, req.n)
               PROVE  collapse(req.first, req.n, ext)[nr] \in may[nr]
    BY DEF ReadsAreRight
  <2>1. Data(ext, nr) \in may[nr]
    BY DEF ContentsInv, Replied
  <2> QED BY <2>1 DEF collapse, Data
<1> QED BY <1>1, FilterControl, FilterContents, PTL

-----------------------------------------------------------------------------
(* The mirror.                                                             *)

\* A step that leaves the disks and the request as they are.
LEMMA SameAgree ==
    ASSUME Agree, disk' = disk, req' = req, USE_MIRROR' => USE_MIRROR,
           pc'[1] = "reply" => pc[1] = "reply"
    PROVE  Agree'
<1>1. \A p \in Phys : Solid(p)' = Solid(p) /\ (InWriting(p) => InWriting(p)')
  BY DEF Solid, InWriting, At
<1> QED BY <1>1 DEF Agree

\* A disk is written where the request allows.
LEMMA WriteAgree ==
    ASSUME ControlInv, Agree, Waiting, What = "FLT_WRITE", NEW l \in Label, NEW places \in SUBSET At,
           DOMAIN disk = Label, disk' = Written(l, places), UNCHANGED <<req, pc, USE_MIRROR>>
    PROVE  Agree'
<1>1. req.op = "FLT_WRITE" /\ pc[1] # "reply"
  BY Operation DEF ControlInv, Trying, Waiting
<1>2. \A p \in Phys : Solid(p)' = Solid(p) /\ InWriting(p)' = InWriting(p) /\ (p \in At => InWriting(p))
  BY <1>1 DEF Solid, InWriting, At
<1>3. ASSUME NEW k \in Label, NEW p \in Phys, p \notin At PROVE disk'[k][p] = disk[k][p]
  BY <1>3 DEF Written
<1>4. MAIN_LABEL \in Label /\ BACKUP_LABEL \in Label
  BY Names
<1> QED BY <1>2, <1>3, <1>4 DEF Agree

\* One that does part of it preserves Agree.
LEMMA TornAgree ==
    ASSUME ControlInv, ContentsInv, Agree, NEW l \in Label, NEW w \in Which, Torn(l, w),
           UNCHANGED <<req, pc, USE_MIRROR>>
    PROVE  Agree'
<1>1. Sent(l, w, "valid")
  BY DEF Torn
<1>2. Waiting
  BY <1>1, Asking
<1>3. Writing <=> What = "FLT_WRITE"
  BY DEF Writing, What
<1>4. CASE ~Writing
  <2>1. disk' = disk
    BY <1>4 DEF Torn
  <2> QED BY <2>1, SameAgree
<1>5. CASE Writing
  <2>1. Trying /\ Head(todo).at = At
    BY <1>2, <1>3, <1>5, Operation DEF ControlInv, Trying
  <2>2. PICK p \in At : disk' = Written(l, {q \in At : q < p})
    BY <1>5, <2>1 DEF Torn
  <2>3. PICK places \in SUBSET At : disk' = Written(l, places)
    BY <2>2
  <2> QED BY <1>2, <1>3, <1>5, <2>3, WriteAgree DEF ContentsInv, Sectors
<1> QED BY <1>4, <1>5

\* A driver that serves its message preserves Agree.
LEMMA ServeAgree ==
    ASSUME ControlInv, ContentsInv, Agree, NEW l \in Label, NEW w \in Which, Serve(l, w)
    PROVE  Agree'
<1>1. /\ Sent(l, w, "valid")
      /\ disk' = IF Writing THEN Written(l, Head(todo).at) ELSE disk
      /\ UNCHANGED <<req, pc, USE_MIRROR>>
  BY DEF Serve, request
<1>2. Waiting
  BY <1>1, Asking
<1>3. CASE ~Writing
  BY <1>1, <1>3, SameAgree
<1>4. CASE Writing
  <2>1. What = "FLT_WRITE" /\ Trying
    BY <1>2, <1>4 DEF Writing, What, Trying
  <2>2. Head(todo).at = At
    BY <2>1, Operation DEF ControlInv
  <2>3. disk' = Written(l, At)
    BY <1>1, <1>4, <2>2
  <2> QED BY <1>1, <1>2, <2>1, <2>3, WriteAgree DEF ContentsInv, Sectors
<1> QED BY <1>3, <1>4

\* Rot preserves Agree.
LEMMA RotAgree ==
    ASSUME ContentsInv, Agree, NEW l \in Label, NEW p \in Phys, Rot(l, p)
    PROVE  Agree'
<1>1. /\ disk' = [disk EXCEPT ![l][p] = IF IsSum(p) THEN [i \in Index |-> Junk] ELSE Junk]
      /\ <<l, p>> \in Fragile /\ UNCHANGED <<req, pc, USE_MIRROR>>
  BY DEF Rot, request
<1>2. \A k \in Label, q \in Phys : q # p => disk'[k][q] = disk[k][q]
  <2>1. DOMAIN disk = Label /\ DOMAIN disk[l] = Phys
    BY FilledFacts DEF ContentsInv, Sectors
  <2> QED BY <1>1, <2>1
<1>3. ~Solid(p)
  BY <1>1 DEF Solid
<1>4. \A q \in Phys : Solid(q)' = Solid(q) /\ InWriting(q)' = InWriting(q)
  BY <1>1 DEF Solid, InWriting, At
<1> QED BY <1>1, <1>2, <1>3, <1>4, Names DEF Agree

\* The beginning of a request preserves Agree.
LEMMA RequestAgree ==
    ASSUME ControlInv, Agree, Request
    PROVE  Agree'
<1>1. pc[1] = "idle" /\ UNCHANGED <<disk, USE_MIRROR>>
  BY DEF Request, do_rdwt, external
<1>2. req = NoRequest
  BY <1>1 DEF ControlInv, Asked
<1>3. \A p \in Phys : ~InWriting(p) /\ Solid(p)' = Solid(p)
  BY <1>2 DEF InWriting, NoRequest, Solid
<1> QED BY <1>1, <1>3 DEF Agree

\* What has been read back from both disks, and is the same, is on them.
LEMMA EvaluateAgree ==
    ASSUME ControlInv, ContentsInv, Agree, Evaluate
    PROVE  Agree'
<1>1. /\ pc = <<"evaluate", SentTo>> /\ disk' = disk /\ USE_MIRROR' = USE_MIRROR /\ Waiting
  BY Outcomes DEF Revoke, Waiting
<1>2. Trying /\ req' = req
  BY <1>1, Outcomes DEF Trying, Redo, Next_io, Answer
<1>3. CASE pc'[1] # "reply"
  BY <1>1, <1>2, <1>3, SameAgree
<1>4. CASE pc'[1] = "reply" /\ req.op = "FLT_READ"
  BY <1>1, <1>2, <1>4 DEF Agree, Solid, InWriting
<1>5. CASE pc'[1] = "reply" /\ req.op = "FLT_WRITE"
  <2>1. What = "FLT_READ2" /\ \A w \in SentTo : ~Unserved(w) /\ got[w] = ext
    BY <1>5, Outcomes DEF Redo, Next_io
  <2>2. ASSUME USE_MIRROR, NEW p \in At, Solid(p) PROVE disk[MAIN_LABEL][p] = disk[BACKUP_LABEL][p]
    <3>1. SentTo = Which
      BY <2>1, <2>2 DEF SentTo
    <3>2. ASSUME NEW w \in Which PROVE disk[driver[w].endpt][p] = ext[p]
      <4>1. driver[w].endpt \in Label
        BY <3>1, Reached DEF ControlInv
      <4>2. disk[driver[w].endpt][p] = got[w][p] \/ Rotted(driver[w].endpt, p)
        BY <1>1, <2>1, <2>2, <3>1 DEF ContentsInv, ReadBack, Unserved
      <4> QED BY <2>1, <2>2, <3>1, <4>1, <4>2 DEF Solid, Rotted
    <3>3. driver[DRIVER_MAIN].endpt = MAIN_LABEL /\ driver[DRIVER_BACKUP].endpt = BACKUP_LABEL
      BY <2>2 DEF ControlInv, Drivers
    <3> QED BY <3>2, <3>3, Names
  <2>3. \A p \in Phys : Solid(p)' = Solid(p) /\ (InWriting(p) => p \in At)
    BY DEF Solid, InWriting
  <2> QED BY <1>1, <2>2, <2>3 DEF Agree
<1>6. req.op \in {"FLT_READ", "FLT_WRITE"}
  BY <1>1 DEF ControlInv, Asked
<1> QED BY <1>3, <1>4, <1>5, <1>6

\* The reply to the caller preserves Agree.
LEMMA ReplyAgree ==
    ASSUME Agree, Reply
    PROVE  Agree'
<1>1. pc[1] = "reply" /\ UNCHANGED <<disk, USE_MIRROR>>
  BY DEF Reply, external
<1>2. \A p \in Phys : ~InWriting(p) /\ Solid(p)' = Solid(p)
  BY <1>1 DEF InWriting, Solid
<1> QED BY <1>1, <1>2 DEF Agree

\* Only a filter with a single disk gives up on a request.
LEMMA CheckAgree ==
    ASSUME ControlInv, Agree, NEW w \in Which, NEW n \in 1 .. 2, check_driver(w, n)
    PROVE  Agree'
<1>1. disk' = disk /\ req' = req /\ pc[1] = "check" /\ (USE_MIRROR' => USE_MIRROR)
  <2>1. USE_MIRROR' = USE_MIRROR \/ USE_MIRROR
    BY CheckOutcomes
  <2> QED BY <2>1, CheckOutcomes DEF ControlInv, Types
<1>2. CASE USE_MIRROR'
  <2>1. pc'[1] # "reply"
    <3>1. CASE Return(w)
      <4>1. pc' = <<"check", DRIVER_BACKUP, 1>> \/ pc' = <<"send">>
        BY <3>1, <1>1, ReturnControl
      <4> QED BY <4>1
    <3>2. Return(w) \/ pc' = <<"restart", w>>
      BY <1>2, CheckOutcomes
    <3>3. CASE pc' = <<"restart", w>>
      BY <3>3
    <3> QED BY <3>1, <3>2, <3>3
  <2> QED BY <1>1, <2>1, SameAgree
<1> QED BY <1>2 DEF Agree

\* Any step preserves Agree.
LEMMA NextAgree ==
    ASSUME ControlInv, ContentsInv, Agree, [Next]_vars
    PROVE  Agree'
<1>1. ASSUME \/ UNCHANGED vars \/ Event \/ read_write \/ Timeout
             \/ \E l \in Label : Refuse(l) \/ Start(l) \/ Stray(l)
             \/ \E w \in Which : flt_receive(w)
      PROVE  Agree'
  <2>1. disk' = disk /\ req' = req /\ USE_MIRROR' = USE_MIRROR
    BY <1>1 DEF vars, external, request, Event, read_write, Timeout, Refuse, Start, Stray, flt_receive,
                Revoke, Redo
  <2>2. pc'[1] = "reply" => pc[1] = "reply"
    <3>1. CASE \E w \in Which : flt_receive(w)
      BY <3>1 DEF flt_receive
    <3> QED BY <1>1, <3>1 DEF vars, Event, read_write, Timeout, Refuse, Start, Stray, Redo
  <2> QED BY <2>1, <2>2, SameAgree
<1>2. ASSUME NEW l \in Label, Fail(l) \/ Crash(l) PROVE Agree'
  <2>1. UNCHANGED <<req, pc, USE_MIRROR>>
    BY <1>2 DEF Fail, Crash, request
  <2>2. CASE disk' = disk
    BY <2>1, <2>2, SameAgree
  <2> QED BY <1>2, <2>1, <2>2, TornAgree DEF Fail, Crash
<1>3. ASSUME NEW w \in Which, restart_driver(w) PROVE Agree'
  <2>1. disk' = disk /\ req' = req /\ USE_MIRROR' = USE_MIRROR
    BY <1>3 DEF restart_driver, external
  <2>2. pc'[1] # "reply"
    <3>1. CASE Return(w)
      BY <1>3, <2>1, <3>1, ReturnControl DEF restart_driver
    <3> QED BY <1>3, <3>1 DEF restart_driver
  <2> QED BY <2>1, <2>2, SameAgree
<1>4. CASE Next
  BY <1>1, <1>2, <1>3, <1>4, Steps, ServeAgree, RotAgree, RequestAgree, EvaluateAgree, ReplyAgree, CheckAgree
<1> QED BY <1>1, <1>4

\* Between requests the disks of a mirror are alike: MirrorsAgree.
THEOREM MirrorsAlike == Spec => []MirrorsAgree
<1>1. Init => Agree
  BY Names DEF Init, Agree
<1>2. ControlInv /\ ContentsInv /\ Agree /\ [Next]_vars => Agree'
  BY NextAgree
<1>3. ControlInv /\ Agree => MirrorsAgree
  <2> SUFFICES ASSUME ControlInv, Agree, pc[1] = "idle", USE_MIRROR, NEW p \in Phys,
                      NEW c \in Label, NEW b \in Label, disk[c][p] # disk[b][p]
               PROVE  \E l \in Label : <<l, p>> \in Fragile
    BY DEF MirrorsAgree
  <2>1. ~InWriting(p)
    BY DEF ControlInv, Asked, NoRequest, InWriting
  <2>2. disk[MAIN_LABEL][p] # disk[BACKUP_LABEL][p]
    BY Names
  <2> QED BY <2>1, <2>2 DEF Agree, Solid
<1> QED BY <1>1, <1>2, <1>3, FilterControl, FilterContents, PTL DEF Spec

-----------------------------------------------------------------------------
(* Faults.                                                                 *)

\* How a request begins.
LEMMA Begun ==
    ASSUME Request
    PROVE  /\ pc[1] = "idle" /\ pc' = <<"send">> /\ Transfer(req')
           /\ UNCHANGED <<disk, up, busy, out, updated, USE_MIRROR, faulty>>
           /\ driver' = [w \in Which |-> [driver[w] EXCEPT !.retries = 0, !.kills = 0]]
<1>1. PICK q : do_rdwt(q)
  BY DEF Request
<1>2. /\ pc[1] = "idle" /\ Transfer(q) /\ req' = q
      /\ UNCHANGED <<disk, up, busy, out, updated, USE_MIRROR, faulty>>
      /\ driver' = [w \in Which |-> [driver[w] EXCEPT !.retries = 0, !.kills = 0]]
  BY <1>1 DEF do_rdwt, external, ds, history
<1>3. pc' = <<"send">>
  BY <1>2 DEF Transfer
<1> QED BY <1>2, <1>3

\* A fault is not forgotten.
LEMMA StillFaulty ==
    ASSUME [Next]_vars
    PROVE  faulty \subseteq faulty'
<1>1. CASE UNCHANGED vars
  BY <1>1 DEF vars, history
<1>2. ASSUME NEW l \in Label,
             (\E w \in Which : Serve(l, w)) \/ Refuse(l) \/ Fail(l) \/ Crash(l) \/ Start(l) \/ Stray(l)
                \/ \E p \in Phys : Rot(l, p)
      PROVE  faulty \subseteq faulty'
  BY <1>2 DEF Serve, Refuse, Fail, Crash, Start, Stray, Rot, Blame, history
<1>3. CASE Request \/ Event \/ read_write \/ Timeout \/ Evaluate \/ Reply
  BY <1>3 DEF Request, do_rdwt, Event, read_write, Timeout, Evaluate, Reply, Blame, history
<1>4. ASSUME NEW w \in Which, flt_receive(w) \/ restart_driver(w) \/ \E n \in 1 .. 2 : check_driver(w, n)
      PROVE  faulty \subseteq faulty'
  BY <1>4 DEF flt_receive, restart_driver, check_driver, history
<1> QED BY <1>1, <1>2, <1>3, <1>4, Steps

\* Only check_driver changes which drivers the filter has.
LEMMA SameDrivers ==
    ASSUME ControlInv, [Next]_vars
    PROVE  \/ /\ \A w \in Which : driver'[w].label = driver[w].label /\ driver'[w].endpt = driver[w].endpt
              /\ USE_MIRROR' = USE_MIRROR /\ Used' = Used
           \/ \E w \in Which, n \in 1 .. 2 : check_driver(w, n)
<1>0. \A w \in Which : driver[w] \in DriverState
  BY DEF ControlInv, Types
<1>1. SUFFICES ASSUME \/ UNCHANGED vars
                      \/ /\ Next
                         /\ \A w \in Which, n \in 1 .. 2 : ~check_driver(w, n)
               PROVE  /\ \A w \in Which : driver'[w].label = driver[w].label /\ driver'[w].endpt = driver[w].endpt
                      /\ USE_MIRROR' = USE_MIRROR
  BY Names DEF Used
<1>2. CASE UNCHANGED vars
  BY <1>2 DEF vars
<1>3. ASSUME NEW l \in Label,
             (\E w \in Which : Serve(l, w)) \/ Refuse(l) \/ Fail(l) \/ Crash(l) \/ Start(l) \/ Stray(l)
                \/ \E p \in Phys : Rot(l, p)
      PROVE  UNCHANGED <<USE_MIRROR, driver>>
  BY <1>3 DEF Serve, Refuse, Fail, Crash, Start, Stray, Rot
<1>4. CASE Event
  <2>1. USE_MIRROR' = USE_MIRROR
    BY <1>4 DEF Event
  <2>2. driver' = driver
        \/ \E v \in Which : driver' = [driver EXCEPT ![v].up_event =
                               IF @ = "UP_EXPECTED" THEN "UP_NONE" ELSE "UP_PENDING"]
    BY <1>4, Names DEF Event, ds_event
  <2> QED BY <2>1, <2>2 DEF ControlInv, Types, DriverState
<1>5. CASE Request
  <2>1. /\ USE_MIRROR' = USE_MIRROR
        /\ driver' = [w \in Which |-> [driver[w] EXCEPT !.retries = 0, !.kills = 0]]
    BY <1>5, Begun
  <2>2. ASSUME NEW d \in DriverState
        PROVE  LET e == [d EXCEPT !.retries = 0, !.kills = 0]
               IN  e.label = d.label /\ e.endpt = d.endpt
    BY DEF DriverState
  <2> QED BY <1>0, <2>1, <2>2
<1>6. ASSUME NEW w \in Which, NEW problem \in {"BD_DEAD", "BD_PROTO", "BD_DATA"},
             driver' = bad_driver(driver, w, problem)
      PROVE  \A v \in Which : driver'[v].label = driver[v].label /\ driver'[v].endpt = driver[v].endpt
  BY <1>6, BadDriver DEF ControlInv
<1>7. CASE read_write
  <2>1. /\ USE_MIRROR' = USE_MIRROR
        /\ driver' = driver \/ driver' = bad_driver(driver, DRIVER_MAIN, "BD_DEAD")
    BY <1>7 DEF read_write, Redo
  <2> QED BY <1>6, <2>1, Names
<1>8. CASE Timeout
  <2>1. /\ USE_MIRROR' = USE_MIRROR
        /\ driver' = [w \in Which |-> IF w \in await
                             THEN [driver[w] EXCEPT !.problem = check_senda(amsgtable, w)] ELSE driver[w]]
    BY <1>8 DEF Timeout, Redo
  <2>2. ASSUME NEW d \in DriverState, NEW problem
        PROVE  LET e == [d EXCEPT !.problem = problem]
               IN  e.label = d.label /\ e.endpt = d.endpt
    BY DEF DriverState
  <2> QED BY <1>0, <2>1, <2>2
<1>9. CASE Evaluate
  <2>1. /\ USE_MIRROR' = USE_MIRROR
        /\ driver' = driver \/ \E w \in SentTo, problem \in {"BD_PROTO", "BD_DATA"} :
                                    driver' = bad_driver(driver, w, problem)
    BY <1>9, Outcomes DEF Redo, Next_io, Answer
  <2> QED BY <1>6, <2>1, Reached DEF ControlInv
<1>10. CASE Reply \/ \E w \in Which : flt_receive(w) \/ restart_driver(w)
  BY <1>10 DEF Reply, flt_receive, restart_driver
<1> QED BY <1>1, <1>2, <1>3, <1>4, <1>5, <1>7, <1>8, <1>9, <1>10, Steps

\* The filter takes no disk into use, and a single one it keeps.
LEMMA FewerUsed ==
    ASSUME ControlInv, [Next]_vars
    PROVE  /\ Used' \subseteq Used
           /\ ~USE_MIRROR => ~USE_MIRROR' /\ driver'[DRIVER_MAIN].label = driver[DRIVER_MAIN].label
<1>1. CASE /\ driver'[DRIVER_MAIN].label = driver[DRIVER_MAIN].label
           /\ USE_MIRROR' = USE_MIRROR
  BY <1>1 DEF Used
<1>2. ASSUME NEW w \in Which, NEW n \in 1 .. 2, check_driver(w, n)
      PROVE  \/ /\ driver'[DRIVER_MAIN].label = driver[DRIVER_MAIN].label
                /\ USE_MIRROR' = USE_MIRROR
             \/ /\ USE_MIRROR /\ ~USE_MIRROR'
                /\ driver'[DRIVER_MAIN].label \in Label
  BY <1>2, CheckOutcomes, Names
<1>3. CASE /\ USE_MIRROR /\ ~USE_MIRROR'
           /\ driver'[DRIVER_MAIN].label \in Label
  BY <1>3 DEF Used
<1> QED BY <1>1, <1>2, <1>3, SameDrivers, Names

\* What a step does to the disks: it writes what is in the buffer, or a sector
\* rots.
LEMMA DiskSteps ==
    ASSUME ControlInv, ContentsInv, [Next]_vars
    PROVE  \/ disk' = disk
           \/ \E l \in Label, w \in Which, places \in SUBSET At :
                 /\ Sent(l, w, "valid") /\ What = "FLT_WRITE"
                 /\ disk' = Written(l, places)
                 /\ (Serve(l, w) /\ places = At) \/ l \in faulty'
                 /\ UNCHANGED <<pc, req, todo, ext, driver, USE_MIRROR>>
                 /\ got' = got \/ Serve(l, w)
           \/ \E l \in Label, p \in Phys :
                 /\ l \in faulty'
                 /\ disk' = [disk EXCEPT ![l][p] = Rotten(p)]
                 /\ UNCHANGED <<pc, req, todo, ext, got, driver, USE_MIRROR>>
<1>1. CASE UNCHANGED vars
  BY <1>1 DEF vars, external
<1>2. ASSUME NEW l \in Label, NEW w \in Which, Sent(l, w, "valid")
      PROVE  /\ Waiting /\ Trying
             /\ Writing <=> What = "FLT_WRITE"
             /\ What = "FLT_WRITE" => Head(todo).at = At
  <2>1. Waiting /\ Trying
    BY <1>2, Asking DEF Trying
  <2>2. What = "FLT_WRITE" => Head(todo).at = At
    BY <2>1, Operation DEF ControlInv
  <2> QED BY <2>1, <2>2 DEF Writing, What
<1>3. ASSUME NEW l \in Label, NEW w \in Which, Serve(l, w)
      PROVE  \/ disk' = disk
             \/ /\ Sent(l, w, "valid") /\ What = "FLT_WRITE" /\ disk' = Written(l, At)
                /\ UNCHANGED <<pc, req, todo, ext, driver, USE_MIRROR>>
  <2>1. /\ Sent(l, w, "valid")
        /\ disk' = IF Writing THEN Written(l, Head(todo).at) ELSE disk
        /\ UNCHANGED <<pc, req, todo, ext, driver, USE_MIRROR>>
    BY <1>3 DEF Serve, request
  <2> QED BY <1>2, <2>1
<1>4. ASSUME NEW l \in Label, NEW w \in Which, Torn(l, w)
      PROVE  \/ disk' = disk
             \/ /\ Sent(l, w, "valid") /\ What = "FLT_WRITE"
                /\ \E places \in SUBSET At : disk' = Written(l, places)
  <2>1. Sent(l, w, "valid")
    BY <1>4 DEF Torn
  <2>2. CASE ~Writing
    BY <1>4, <2>2 DEF Torn
  <2>3. CASE Writing
    <3>1. What = "FLT_WRITE" /\ Head(todo).at = At
      BY <1>2, <2>1, <2>3
    <3>2. \E p \in At : disk' = Written(l, {q \in At : q < p})
      BY <1>4, <2>3, <3>1 DEF Torn
    <3> QED BY <2>1, <3>1, <3>2
  <2> QED BY <2>2, <2>3
<1>5. ASSUME NEW l \in Label, Fail(l) \/ Crash(l)
      PROVE  /\ l \in faulty' /\ UNCHANGED <<pc, req, todo, ext, got, driver, USE_MIRROR>>
             /\ disk' = disk \/ \E w \in Which : Torn(l, w)
  BY <1>5 DEF Fail, Crash, Blame, request
<1>6. ASSUME NEW l \in Label, NEW p \in Phys, Rot(l, p)
      PROVE  /\ l \in faulty' /\ disk' = [disk EXCEPT ![l][p] = Rotten(p)]
             /\ UNCHANGED <<pc, req, todo, ext, got, driver, USE_MIRROR>>
  BY <1>6 DEF Rot, Rotten, Blame, request, exchange
<1>7. ASSUME NEW l \in Label, Refuse(l) \/ Start(l) \/ Stray(l) PROVE disk' = disk
  BY <1>7 DEF Refuse, Start, Stray
<1>8. CASE Request \/ Event \/ read_write \/ Timeout \/ Evaluate \/ Reply
  BY <1>8 DEF Request, do_rdwt, Event, read_write, Timeout, Evaluate, Reply, Revoke, external
<1>9. ASSUME NEW w \in Which, flt_receive(w) \/ restart_driver(w) \/ \E n \in 1 .. 2 : check_driver(w, n)
      PROVE  disk' = disk
  BY <1>9, CheckOutcomes DEF flt_receive, restart_driver, external
<1>10. ASSUME NEW l \in Label, Fail(l) \/ Crash(l)
       PROVE  \/ disk' = disk
              \/ \E w \in Which, places \in SUBSET At :
                    /\ Sent(l, w, "valid") /\ What = "FLT_WRITE"
                    /\ disk' = Written(l, places) /\ l \in faulty'
                    /\ UNCHANGED <<pc, req, todo, ext, got, driver, USE_MIRROR>>
  BY <1>4, <1>5, <1>10
<1>11. CASE Next
  <2>1. At \in SUBSET At
    OBVIOUS
  <2> QED BY <1>3, <1>6, <1>7, <1>8, <1>9, <1>10, <1>11, <2>1, Steps
<1> QED BY <1>1, <1>11

\* So a disk whose driver has done nothing wrong holds what it held, or what
\* it was sent.
LEMMA FaultlessDisk ==
    ASSUME ControlInv, ContentsInv, [Next]_vars, NEW l \in Label \ faulty', disk'[l] # disk[l]
    PROVE  \E w \in Which : /\ Serve(l, w) /\ Sent(l, w, "valid") /\ What = "FLT_WRITE"
                            /\ UNCHANGED <<pc, req, todo, ext, driver, USE_MIRROR>>
                            /\ \A p \in Phys : disk'[l][p] = IF p \in At THEN ext[p] ELSE disk[l][p]
<1>0. DOMAIN disk = Label
  BY DEF ContentsInv, Sectors
<1>1. ASSUME NEW k \in Label, NEW places, disk' = Written(k, places)
      PROVE  /\ k # l => disk'[l] = disk[l]
             /\ k = l => \A p \in Phys : disk'[l][p] = IF p \in places THEN ext[p] ELSE disk[l][p]
  BY <1>0, <1>1 DEF Written
<1>2. ASSUME NEW k \in Label, NEW p \in Phys, k \in faulty', disk' = [disk EXCEPT ![k][p] = Rotten(p)]
      PROVE  disk'[l] = disk[l]
  BY <1>0, <1>2
<1>3. PICK k \in Label, w \in Which, places \in SUBSET At :
         /\ Sent(k, w, "valid") /\ What = "FLT_WRITE"
         /\ disk' = Written(k, places)
         /\ (Serve(k, w) /\ places = At) \/ k \in faulty'
         /\ UNCHANGED <<pc, req, todo, ext, driver, USE_MIRROR>>
  BY <1>2, DiskSteps
<1>4. k = l
  BY <1>1, <1>3
<1> QED BY <1>1, <1>3, <1>4

\* What is spoiled stays so while nothing is written.
LEMMA StaysSpoiled ==
    ASSUME ControlInv, ContentsInv, [Next]_vars, ~Waiting, NEW l \in Label, NEW nr \in Logical, Spoiled(disk[l], nr)
    PROVE  Spoiled(disk'[l], nr)
<1>1. DOMAIN disk = Label /\ DOMAIN disk[l] = Phys
  BY FilledFacts DEF ContentsInv, Sectors
<1>2. LOG2PHYS(nr) \in Phys /\ SEC2SUM_NR(nr) \in Phys /\ nr % NR_SUM_SEC \in Index
      /\ ~IsSum(LOG2PHYS(nr)) /\ IsSum(SEC2SUM_NR(nr))
  BY PlacesOnDisk
<1>3. disk' = disk \/ \E k \in Label, p \in Phys : disk' = [disk EXCEPT ![k][p] = Rotten(p)]
  BY DiskSteps, Asking
<1>4. CASE disk' = disk
  BY <1>4
<1>5. ASSUME NEW k \in Label, NEW p \in Phys, disk' = [disk EXCEPT ![k][p] = Rotten(p)]
      PROVE  Spoiled(disk'[l], nr)
  <2>1. \A q \in Phys : disk'[l][q] = disk[l][q] \/ disk'[l][q] = Rotten(q)
    BY <1>1, <1>5
  <2>2. Rotten(LOG2PHYS(nr)) = Junk /\ Rotten(SEC2SUM_NR(nr))[nr % NR_SUM_SEC] = Junk
    BY <1>2 DEF Rotten
  <2> QED BY <1>2, <2>1, <2>2 DEF Spoiled, Data, Entry
<1> QED BY <1>3, <1>4, <1>5

\* A single disk with such rot keeps it while nothing is written.
LEMMA AloneStays ==
    ASSUME ControlInv, ContentsInv, [Next]_vars, ~Waiting, Alone
    PROVE  Alone' /\ driver'[DRIVER_MAIN].label = driver[DRIVER_MAIN].label
<1>1. ~USE_MIRROR' /\ driver'[DRIVER_MAIN].label = driver[DRIVER_MAIN].label
  BY FewerUsed DEF Alone
<1>2. PICK nr \in Logical : Spoiled(disk[driver[DRIVER_MAIN].label], nr)
  BY DEF Alone
<1>3. driver[DRIVER_MAIN].label \in Label
  BY Reached, Names DEF ControlInv
<1>4. Spoiled(disk'[driver[DRIVER_MAIN].label], nr)
  BY <1>2, <1>3, StaysSpoiled
<1> QED BY <1>1, <1>2, <1>4 DEF Alone

\* A driver that is down is not asked when it is the only one.
LEMMA NotWaited ==
    ASSUME ControlInv, [Next]_vars, ~Waiting, ~USE_MIRROR, driver[DRIVER_MAIN].label \notin up
    PROVE  ~Waiting'
<1>1. CASE UNCHANGED vars
  BY <1>1 DEF vars, Waiting
<1>2. ASSUME NEW l \in Label,
             (\E w \in Which : Serve(l, w)) \/ Refuse(l) \/ Fail(l) \/ Crash(l) \/ Start(l) \/ Stray(l)
                \/ \E p \in Phys : Rot(l, p)
      PROVE  ~Waiting'
  <2>1. pc' = pc
    BY <1>2 DEF Serve, Refuse, Fail, Crash, Start, Stray, Rot
  <2> QED BY <2>1 DEF Waiting
<1>3. CASE Event
  BY <1>3 DEF Event, Waiting
<1>4. CASE Request
  <2>1. pc' = <<"send">>
    BY <1>4, Begun
  <2> QED BY <2>1 DEF Waiting
<1>5. CASE read_write
  <2> DEFINE table == [w \in Which |->
                          IF w \in SentTo
                          THEN [dst   |-> driver[w].endpt,
                                state |-> IF driver[w].endpt \in up THEN "valid" ELSE "dead"]
                          ELSE amsgtable[w]]
  <2>1. SentTo # Which /\ DRIVER_MAIN \in SentTo /\ DRIVER_MAIN \in Which
    BY Names DEF SentTo
  <2>2. driver[DRIVER_MAIN].endpt \notin up
    BY DEF ControlInv, Drivers
  <2>3. check_senda(table, DRIVER_MAIN) = "BD_DEAD"
    BY <2>1, <2>2 DEF check_senda
  <2>4. SentTo # Which /\ check_senda(table, DRIVER_MAIN) = "BD_DEAD"
           => Redo(bad_driver(driver, DRIVER_MAIN, "BD_DEAD"))
    BY <1>5 DEF read_write, SentTo, What
  <2> QED BY <2>1, <2>3, <2>4 DEF Redo, Waiting
<1>6. ~Timeout /\ ~Evaluate /\ \A w \in Which : ~flt_receive(w)
  BY DEF Timeout, Evaluate, flt_receive, Waiting
<1>7. CASE Reply
  BY <1>7 DEF Reply, Waiting
<1>8. ASSUME NEW w \in Which, Return(w), req' = req, pc[1] \in {"check", "restart"} PROVE ~Waiting'
  <2>1. pc' = <<"check", DRIVER_BACKUP, 1>> \/ pc' = <<"send">>
    BY <1>8, ReturnControl
  <2> QED BY <2>1 DEF Waiting
<1>9. ASSUME NEW w \in Which, restart_driver(w) PROVE ~Waiting'
  <2>1. pc[1] = "restart" /\ req' = req /\ (Return(w) \/ pc' = <<"check", w, 2>>)
    BY <1>9 DEF restart_driver
  <2> QED BY <1>8, <2>1 DEF Waiting
<1>10. ASSUME NEW w \in Which, NEW n \in 1 .. 2, check_driver(w, n) PROVE ~Waiting'
  <2>1. pc[1] = "check" /\ req' = req /\ (Return(w) \/ pc' = <<"restart", w>> \/ pc' = <<"reply">>)
    BY <1>10, CheckOutcomes DEF Answer
  <2> QED BY <1>8, <2>1 DEF Waiting
<1> QED BY <1>1, <1>2, <1>3, <1>4, <1>5, <1>6, <1>7, <1>9, <1>10, Steps

\* Only the filter stops a driver that has done nothing wrong, one it suspects.
LEMMA StoppedSteps ==
    ASSUME ControlInv, [Next]_vars, NEW l \in up, l \notin up', l \notin faulty'
    PROVE  \E w \in Which : l = driver[w].label /\ Suspected(w) /\ pc' = <<"restart", w>>
<1>1. CASE UNCHANGED vars
  BY <1>1 DEF vars, external
<1>2. ASSUME NEW k \in Label,
             (\E w \in Which : Serve(k, w)) \/ Refuse(k) \/ Fail(k) \/ Start(k) \/ Stray(k)
                \/ \E p \in Phys : Rot(k, p)
      PROVE  FALSE
  BY <1>2 DEF Serve, Refuse, Fail, Start, Stray, Rot
<1>3. ASSUME NEW k \in Label, Crash(k) PROVE FALSE
  BY <1>3 DEF Crash, Stopped, Blame
<1>4. CASE Request \/ Event \/ read_write \/ Timeout \/ Reply
  BY <1>4, Begun DEF Event, read_write, Timeout, Reply, Revoke, external
<1>5. CASE Evaluate
  BY <1>5, Outcomes DEF Revoke
<1>6. ASSUME NEW w \in Which, flt_receive(w) \/ restart_driver(w) PROVE FALSE
  BY <1>6 DEF flt_receive, restart_driver, external
<1>7. ASSUME NEW w \in Which, NEW n \in 1 .. 2, check_driver(w, n)
      PROVE  l = driver[w].label /\ Suspected(w) /\ pc' = <<"restart", w>>
  <2>1. /\ n > 1 \/ driver[w].problem # "BD_NONE"
        /\ pc' = <<"restart", w>> /\ Stopped(driver[w].label)
    BY <1>7, CheckOutcomes
  <2>2. pc = <<"check", w, n>> /\ (n = 1 \/ n = 2)
    BY <1>7, CheckOutcomes
  <2>3. n > 1 => n = 2
    BY <2>2
  <2> QED BY <2>1, <2>2, <2>3 DEF Suspected, Stopped
<1> QED BY <1>1, <1>2, <1>3, <1>4, <1>5, <1>6, <1>7, Steps

\* A driver that has done nothing wrong runs, but for the only one with rot
\* that it has been given: it is restarted, and an event of an earlier start
\* may have the filter go on too soon.
LEMMA NextAwake ==
    ASSUME ControlInv, ContentsInv, Awake, Suspects, [Next]_vars
    PROVE  Awake'
<1> SUFFICES ASSUME NEW l \in Label \ faulty', l \notin up'
             PROVE  Alone' /\ l = driver'[DRIVER_MAIN].label /\ ~Waiting'
  BY DEF Awake
<1>1. l \in Label \ faulty
  BY StillFaulty
<1>2. CASE l \in up
  <2>1. PICK w \in Which : l = driver[w].label /\ Suspected(w) /\ pc' = <<"restart", w>>
    BY <1>2, StoppedSteps
  <2>2. w = DRIVER_MAIN /\ Alone /\ pc[1] \in {"check", "restart"}
    BY <1>1, <2>1 DEF Suspects
  <2>3. ~Waiting /\ ~Waiting'
    BY <2>1, <2>2 DEF Waiting
  <2> QED BY <2>1, <2>2, <2>3, AloneStays
<1>3. CASE l \notin up
  <2>1. Alone /\ l = driver[DRIVER_MAIN].label /\ ~Waiting
    BY <1>1, <1>3 DEF Awake
  <2>2. ~Waiting'
    BY <1>3, <2>1, NotWaited DEF Alone
  <2> QED BY <2>1, <2>2, AloneStays
<1> QED BY <1>2, <1>3

\* What leaves an honest driver honest.
LEMMA SameHonest ==
    ASSUME ControlInv, NEW l \in Label, Honest(l), l \notin busy', out'[l] = out[l], await' = await,
           Waiting' => Waiting /\ SentTo' = SentTo /\ failed' = failed,
           \A w \in Which : /\ driver'[w].endpt = driver[w].endpt
                            /\ w \in SentTo /\ driver[w].endpt = l => got'[w] = got[w]
                            /\ \/ amsgtable'[w] = amsgtable[w]
                               \/ amsgtable[w].dst # l /\ amsgtable'[w] = Done
                               \/ amsgtable[w].state # "valid" /\ amsgtable'[w] = Done
    PROVE  Honest(l)'
<1>1. await \subseteq Which /\ SentTo \subseteq Which
  BY Reached DEF ControlInv, Types
<1>2. \A w \in Which : amsgtable'[w].dst = l => amsgtable'[w].state \in {"done", "valid"}
  BY Names DEF Honest, Done
<1>3. \A w \in Which : Waiting /\ w \in SentTo /\ driver[w].endpt = l =>
        (amsgtable'[w].state # "valid" <=> amsgtable[w].state # "valid")
  <2> SUFFICES ASSUME NEW w \in Which, Waiting, w \in SentTo, driver[w].endpt = l
               PROVE  amsgtable'[w].state # "valid" <=> amsgtable[w].state # "valid"
    OBVIOUS
  <2>1. amsgtable[w].state = "valid" => amsgtable[w].dst = l
    BY DEF ControlInv, Exchange
  <2> QED BY <2>1 DEF Done
<1>4. out'[l] = "OK" => \E w \in await' : driver'[w].endpt = l
  BY <1>1 DEF Honest
<1>5. ASSUME Waiting', NEW w \in SentTo', driver'[w].endpt = l
      PROVE  /\ w \notin failed'
             /\ got'[w] # NONE <=> amsgtable'[w].state # "valid"
             /\ w \in await' => (got'[w] # NONE <=> out'[l] = "OK")
             /\ w \notin await' => got'[w] # NONE
  <2>1. Waiting /\ w \in SentTo /\ w \in Which /\ driver[w].endpt = l /\ failed' = failed /\ got'[w] = got[w]
    BY <1>1, <1>5
  <2> QED BY <1>3, <2>1 DEF Honest
<1> QED BY <1>2, <1>4, <1>5 DEF Honest

\* Nothing is asked of anybody.
LEMMA IdleHonest ==
    ASSUME NEW l \in Label, ~Waiting', l \notin busy', out'[l] \notin {"OK", "EIO"},
           \A w \in Which : amsgtable'[w].dst = l => amsgtable'[w].state \in {"done", "valid"}
    PROVE  Honest(l)'
BY DEF Honest

\* An honest driver that is asked nothing owes nothing.
LEMMA NothingOwed ==
    ASSUME ControlInv, pc[1] # "wait", NEW l \in Label, Honest(l)
    PROVE  out[l] \notin {"OK", "EIO"}
BY DEF Honest, ControlInv, Exchange

\* A driver that serves its message preserves Honest.
LEMMA ServeHonest ==
    ASSUME ControlInv, ContentsInv, Trusty, NEW k \in Label, NEW v \in Which, Serve(k, v), NEW l \in Label \ faulty
    PROVE  Honest(l)'
<1>1. /\ Sent(k, v, "valid") /\ k \notin busy
      /\ amsgtable' = [amsgtable EXCEPT ![v] = Done]
      /\ got' = [got EXCEPT ![v] = IF Writing THEN <<>> ELSE Restrict(disk[k], Head(todo).at)]
      /\ out' = [out EXCEPT ![k] = "OK"]
      /\ UNCHANGED <<busy, driver, USE_MIRROR, pc, req, todo, await, failed>>
  BY DEF Serve, request, Free, Reply_to
<1>2. /\ Waiting /\ v \in SentTo /\ driver[v].endpt = k
      /\ \A u \in SentTo : driver[u].endpt = k => u = v
      /\ amsgtable[v].dst = k /\ amsgtable[v].state = "valid"
  BY <1>1, Asking DEF Sent
<1>3. Waiting' /\ SentTo' = SentTo /\ SentTo \subseteq Which /\ Honest(l)
  BY <1>1, <1>2, Reached DEF Waiting, SentTo, What, ControlInv, Trusty
<1>4. /\ \A w \in Which : w # v => got'[w] = got[w] /\ amsgtable'[w] = amsgtable[w]
      /\ amsgtable'[v] = Done
      /\ out'[k] = "OK" /\ (l # k => out'[l] = out[l])
      /\ got'[v] = IF Writing THEN <<>> ELSE Restrict(disk[k], Head(todo).at)
  BY <1>1 DEF ControlInv, Types
<1>5. CASE l # k
  <2>1. l \notin busy' /\ out'[l] = out[l] /\ await' = await /\ l \in Label
    BY <1>1, <1>3, <1>4, <1>5 DEF Honest
  <2>2. \A w \in Which : /\ driver'[w].endpt = driver[w].endpt
                         /\ w \in SentTo /\ driver[w].endpt = l => got'[w] = got[w]
                         /\ \/ amsgtable'[w] = amsgtable[w]
                            \/ amsgtable[w].dst # l /\ amsgtable'[w] = Done
    BY <1>1, <1>2, <1>4, <1>5
  <2> QED BY <1>1, <1>2, <1>3, <2>1, <2>2, SameHonest
<1>6. CASE l = k
  <2>1. got[v] = NONE /\ v \in await /\ v \notin failed
    BY <1>2, <1>3, <1>6 DEF Honest
  <2>2. got'[v] # NONE
    <3>1. CASE Writing
      <4>1. <<>> \in [{} -> Sector]
        BY EmptyFilled DEF Filled
      <4>2. NONE \notin [{} -> Sector]
        BY FilterAssumption
      <4> QED BY <1>4, <3>1, <4>1, <4>2
    <3>2. CASE ~Writing
      <4>1. Trying /\ pc[1] # "idle" /\ What # "FLT_WRITE"
        BY <1>2, <3>2 DEF Writing, What, Trying, Waiting
      <4>2. Head(todo).at \subseteq Phys
        <5>1. Head(todo).at = At \/ Head(todo).at = HeadAt \/ Head(todo).at = TailAt
          BY <4>1, Operation DEF ControlInv, Asked
        <5> QED BY <4>1, <5>1, RequestOnDisk DEF ControlInv
      <4>3. Restrict(disk[k], Head(todo).at) \in [Head(todo).at -> Sector]
        <5>1. disk[k] \in [Phys -> Sector]
          BY DEF ContentsInv, Sectors, Filled
        <5> QED BY <4>2, <5>1 DEF Restrict
      <4> QED BY <1>4, <3>2, <4>2, <4>3, FilterAssumption
    <3> QED BY <3>1, <3>2
  <2>3. \A w \in Which : amsgtable'[w].dst = l => amsgtable'[w].state \in {"done", "valid"}
    BY <1>3, <1>4 DEF Honest, Done
  <2> QED BY <1>1, <1>2, <1>3, <1>4, <1>6, <2>1, <2>2, <2>3 DEF Honest, Done
<1> QED BY <1>5, <1>6

\* Steps of another driver, or that concern none.
LEMMA OtherHonest ==
    ASSUME ControlInv, Trusty, NEW k \in Label,
           Refuse(k) \/ Fail(k) \/ Crash(k) \/ Start(k) \/ Stray(k) \/ \E p \in Phys : Rot(k, p),
           NEW l \in Label \ faulty'
    PROVE  Honest(l)'
<1>1. UNCHANGED <<driver, USE_MIRROR, pc, req, todo, await, failed, got>>
  BY DEF Refuse, Fail, Crash, Start, Stray, Rot, request, exchange
<1>2. Waiting' = Waiting /\ SentTo' = SentTo
  BY <1>1 DEF Waiting, SentTo, What
<1>3. l \notin faulty /\ Honest(l)
  BY DEF Refuse, Fail, Crash, Start, Stray, Rot, history, Blame, Trusty
<1>4. l \notin busy' /\ out'[l] = out[l]
  <2>1. l # k \/ ~(Refuse(k) \/ Fail(k) \/ Crash(k) \/ Stray(k))
    <3>1. ~Fail(l) /\ ~Crash(l)
      BY DEF Fail, Crash, Blame
    <3>2. ~Refuse(l)
      BY <1>3 DEF Honest, Refuse, Sent
    <3>3. ~Stray(l)
      BY <1>3 DEF Honest, Stray, ControlInv, Types
    <3> QED BY <3>1, <3>2, <3>3
  <2>2. l \notin busy' 
    <3>1. busy' \subseteq busy
      BY DEF Refuse, Fail, Crash, Start, Stray, Rot, Stopped
    <3> QED BY <1>3, <3>1 DEF Honest
  <2>3. out'[l] = out[l]
    <3>1. out' = out \/ (l # k /\ \E x : out' = [out EXCEPT ![k] = x])
      BY <2>1 DEF Refuse, Fail, Crash, Start, Stray, Rot, Reply_to, Stopped
    <3> QED BY <3>1 DEF ControlInv, Types
  <2> QED BY <2>2, <2>3
<1>5. \A w \in Which : \/ amsgtable'[w] = amsgtable[w]
                       \/ amsgtable[w].dst # l /\ amsgtable'[w] = Done
  <2>1. CASE UNCHANGED amsgtable
    BY <2>1
  <2>2. CASE \E v \in Which : /\ \E state \in {"valid", "revoked"} : Sent(k, v, state)
                              /\ amsgtable' = [amsgtable EXCEPT ![v] = Done]
    <3>1. l # k
      <4>1. ~Fail(l) /\ ~Crash(l)
        BY DEF Fail, Crash, Blame
      <4>2. ~Refuse(l)
        BY <1>3 DEF Honest, Refuse, Sent
      <4>3. ASSUME Start(k) \/ Stray(k) \/ \E p \in Phys : Rot(k, p) PROVE amsgtable' = amsgtable
        BY <4>3 DEF Start, Stray, Rot, exchange
      <4>4. ASSUME NEW v \in Which, NEW state \in {"valid", "revoked"}, Sent(k, v, state),
                   amsgtable' = [amsgtable EXCEPT ![v] = Done], amsgtable' = amsgtable
            PROVE  FALSE
        BY <4>4 DEF Sent, Done, ControlInv, Types
      <4> QED BY <2>2, <4>1, <4>2, <4>3, <4>4
    <3> QED BY <2>2, <3>1 DEF Sent, ControlInv, Types
  <2> QED BY <2>1, <2>2 DEF Refuse, Fail, Crash, Start, Stray, Rot, Torn, exchange
<1> QED BY <1>1, <1>2, <1>3, <1>4, <1>5, SameHonest

\* The beginning of read_write preserves Honest.
LEMMA SendHonest ==
    ASSUME ControlInv, Awake, Trusty, read_write, NEW l \in Label \ faulty
    PROVE  Honest(l)'
<1> DEFINE table == [w \in Which |->
                        IF w \in SentTo
                        THEN [dst   |-> driver[w].endpt,
                              state |-> IF driver[w].endpt \in up THEN "valid" ELSE "dead"]
                        ELSE amsgtable[w]]
<1>1. /\ pc[1] = "send" /\ UNCHANGED <<USE_MIRROR, out>>
      /\ \/ /\ SentTo # Which /\ check_senda(table, DRIVER_MAIN) = "BD_DEAD"
            /\ Revoke(table)
            /\ Redo(bad_driver(driver, DRIVER_MAIN, "BD_DEAD"))
         \/ /\ ~(SentTo # Which /\ check_senda(table, DRIVER_MAIN) = "BD_DEAD")
            /\ amsgtable' = table
            /\ await' = SentTo
            /\ got' = [w \in Which |-> NONE] /\ failed' = {}
            /\ pc' = <<"wait", SentTo>>
            /\ UNCHANGED <<busy, driver, todo>>
  BY DEF read_write, SentTo, What, external, Revoke
<1>2. ~Waiting /\ Honest(l) /\ SentTo \subseteq Which /\ DRIVER_MAIN \in SentTo
  BY <1>1, Reached DEF ControlInv, Waiting, Trusty
<1>3. \A w \in Which : amsgtable[w].state \notin {"valid", "dead"}
  BY <1>2 DEF ControlInv, Exchange
<1>4. l \notin busy /\ out[l] \notin {"OK", "EIO"}
  BY <1>1, <1>2, NothingOwed DEF Honest
<1>5. table \in [Which -> Message]
  BY DEF ControlInv, Types, DriverState, Message
<1>6. /\ \A w \in SentTo : /\ table[w].dst = driver[w].endpt
                           /\ table[w].state = IF driver[w].endpt \in up THEN "valid" ELSE "dead"
      /\ \A w \in Which : w \notin SentTo => table[w] = amsgtable[w]
  BY <1>2
<1>7. \A w \in Which : table[w].dst = l => table[w].state \in {"done", "valid", "dead"}
  BY <1>2, <1>6 DEF Honest
<1> HIDE DEF table
<1>8. CASE /\ SentTo # Which /\ check_senda(table, DRIVER_MAIN) = "BD_DEAD"
           /\ Revoke(table)
           /\ Redo(bad_driver(driver, DRIVER_MAIN, "BD_DEAD"))
  <2>1. SentTo = {DRIVER_MAIN} /\ table[DRIVER_MAIN].state = "dead"
    BY <1>8, <1>2 DEF SentTo, check_senda
  <2>2. \A w \in Which : table[w].state # "valid"
    BY <1>3, <1>6, <2>1
  <2>3. /\ \A w \in Which : amsgtable'[w] = Done \/ (table[w].state # "dead" /\ amsgtable'[w] = table[w])
        /\ \A k \in busy' \ busy : \E w \in Which : table[w] = [dst |-> k, state |-> "valid"]
    <3>1. /\ \A w \in Which : /\ table[w].state \notin {"valid", "dead"} => amsgtable'[w] = table[w]
                              /\ table[w].state = "dead" => amsgtable'[w] = Done
          /\ \A k \in busy' \ busy : \E w \in Which : table[w] = [dst |-> k, state |-> "valid"]
      BY <1>5, <1>8, <2>2, RevokeControl DEF ControlInv
    <3>2. ASSUME NEW w \in Which
          PROVE  amsgtable'[w] = Done \/ (table[w].state # "dead" /\ amsgtable'[w] = table[w])
      <4>1. CASE table[w].state = "dead"
        BY <3>1, <4>1
      <4>2. CASE table[w].state # "dead"
        BY <2>2, <3>1, <4>2
      <4> QED BY <4>1, <4>2
    <3> QED BY <3>1, <3>2
  <2>4. l \notin busy'
    <3>1. [dst |-> l, state |-> "valid"].state = "valid"
      OBVIOUS
    <3>2. \A w \in Which : table[w] # [dst |-> l, state |-> "valid"]
      BY <2>2, <3>1
    <3> QED BY <1>4, <2>3, <3>2
  <2>5. \A w \in Which : amsgtable'[w].dst = l => amsgtable'[w].state \in {"done", "valid"}
    BY <1>7, <2>3, Names DEF Done
  <2>6. ~Waiting'
    BY <1>8 DEF Redo, Waiting
  <2> QED BY <1>1, <1>4, <2>4, <2>5, <2>6, IdleHonest
<1>9. CASE /\ ~(SentTo # Which /\ check_senda(table, DRIVER_MAIN) = "BD_DEAD")
           /\ amsgtable' = table
           /\ await' = SentTo
           /\ got' = [w \in Which |-> NONE] /\ failed' = {}
           /\ pc' = <<"wait", SentTo>>
           /\ UNCHANGED <<busy, driver, todo>>
  <2>0. l \in up
    <3> SUFFICES ASSUME l \notin up PROVE FALSE
      OBVIOUS
    <3>1. ~USE_MIRROR /\ l = driver[DRIVER_MAIN].label
      BY DEF Awake, Alone
    <3>2. SentTo # Which /\ driver[DRIVER_MAIN].endpt = l
      BY <3>1, Names DEF SentTo, ControlInv, Drivers
    <3>3. table[DRIVER_MAIN].state = "dead"
      BY <1>2, <1>6, <3>2
    <3> QED BY <1>9, <3>2, <3>3 DEF check_senda
  <2>1. Waiting' /\ SentTo' = SentTo
    BY <1>1, <1>9 DEF Waiting, SentTo, What
  <2>2. \A w \in SentTo : driver[w].endpt = l => table[w].state = "valid"
    BY <1>6, <2>0
  <2>3. \A w \in Which : got'[w] = NONE
    BY <1>9
  <2>4. \A w \in Which : table[w].dst = l => table[w].state \in {"done", "valid"}
    BY <1>2, <1>6, <2>0 DEF Honest
  <2> QED BY <1>1, <1>2, <1>4, <1>9, <2>1, <2>2, <2>3, <2>4 DEF Honest
<1> QED BY <1>1, <1>8, <1>9

\* A reply that is received preserves Honest.
LEMMA ReceiveHonest ==
    ASSUME ControlInv, Trusty, NEW v \in Which, flt_receive(v), NEW l \in Label \ faulty
    PROVE  Honest(l)'
<1>1. /\ pc[1] = "wait" /\ v \in await
      /\ out[driver[v].endpt] # NONE
      /\ out' = [out EXCEPT ![driver[v].endpt] = NONE]
      /\ failed' = IF out[driver[v].endpt] = "OK" THEN failed ELSE failed \cup {v}
      /\ await' = await \ {v}
      /\ pc' = IF await' = {} THEN <<"evaluate", pc[2]>> ELSE pc
      /\ UNCHANGED <<busy, amsgtable, got, driver, USE_MIRROR, todo>>
  BY DEF flt_receive, request
<1>2. Waiting /\ Waiting' /\ SentTo' = SentTo /\ await \subseteq SentTo /\ Honest(l)
  BY <1>1 DEF Waiting, SentTo, What, ControlInv, Exchange, Trusty
<1>3. /\ \A w \in SentTo : driver[w].endpt = driver[v].endpt => w = v
      /\ driver[v].endpt \in Label /\ SentTo \subseteq Which
  BY <1>1, <1>2, Reached DEF ControlInv
<1>4. CASE driver[v].endpt = l
  <2>1. out[l] = "OK" /\ failed' = failed /\ out'[l] = NONE
    BY <1>1, <1>2, <1>4 DEF Honest, ControlInv, Types
  <2>2. got[v] # NONE
    BY <1>1, <1>2, <1>3, <1>4, <2>1 DEF Honest
  <2> QED BY <1>1, <1>2, <1>3, <1>4, <2>1, <2>2, Names DEF Honest
<1>5. CASE driver[v].endpt # l
  <2>1. out'[l] = out[l] /\ \A w \in SentTo : driver[w].endpt = l => (w \in failed' <=> w \in failed) /\ (w \in await' <=> w \in await)
    BY <1>1, <1>5 DEF ControlInv, Types
  <2> QED BY <1>1, <1>2, <1>3, <1>5, <2>1 DEF Honest
<1> QED BY <1>4, <1>5

\* When the grants go, an honest driver that was not found late has answered.
LEMMA RevokeHonest ==
    ASSUME ControlInv, Trusty, NEW l \in Label \ faulty, Revoke(amsgtable), ~Waiting',
           \A w \in Which : amsgtable[w].state = "valid" => amsgtable[w].dst # l,
           out[l] # "OK"
    PROVE  Honest(l)'
<1>1. /\ amsgtable \in [Which -> Message]
      /\ \A w \in Which : amsgtable[w].state = "valid" => amsgtable[w].dst \in Label
  BY SentToUsed DEF ControlInv, Types
<1>2. /\ \A w \in Which : /\ amsgtable[w].state \notin {"valid", "dead"} => amsgtable'[w] = amsgtable[w]
                          /\ amsgtable[w].state = "dead" => amsgtable'[w] = Done
                          /\ amsgtable[w].state = "valid" =>
                               amsgtable'[w] \in {[amsgtable[w] EXCEPT !.state = "revoked"], Done}
      /\ \A k \in busy' \ busy : \E w \in Which : amsgtable[w] = [dst |-> k, state |-> "valid"]
      /\ out' = out
  BY <1>1, RevokeControl DEF ControlInv
<1>3. Honest(l)
  BY DEF Trusty
<1>4. l \notin busy'
  <2>1. \A w \in Which : amsgtable[w] # [dst |-> l, state |-> "valid"]
    OBVIOUS
  <2> QED BY <1>2, <1>3, <2>1 DEF Honest
<1>5. \A w \in Which : amsgtable'[w].dst = l => amsgtable'[w].state \in {"done", "valid"}
  <2> SUFFICES ASSUME NEW w \in Which, amsgtable'[w].dst = l
               PROVE  amsgtable'[w].state \in {"done", "valid"}
    OBVIOUS
  <2>1. amsgtable[w] \in Message
    BY <1>1
  <2>2. CASE amsgtable[w].state = "valid"
    <3>1. [amsgtable[w] EXCEPT !.state = "revoked"].dst = amsgtable[w].dst
      BY <2>1 DEF Message
    <3>2. amsgtable[w].dst # l
      BY <2>2
    <3>3. amsgtable'[w] = Done
      BY <1>2, <2>2, <3>1, <3>2
    <3> QED BY <3>3 DEF Done
  <2>3. CASE amsgtable[w].state # "valid"
    BY <1>2, <1>3, <2>3, Names DEF Done, Honest
  <2> QED BY <2>2, <2>3
<1> QED BY <1>2, <1>3, <1>4, <1>5, IdleHonest DEF Honest

\* The alarm preserves Honest.
LEMMA TimeoutHonest ==
    ASSUME ControlInv, Awake, Trusty, Timeout, NEW l \in Label \ faulty'
    PROVE  Honest(l)'
<1> DEFINE late == {driver[w].endpt : w \in {v \in await : Pending(v)}}
<1>1. /\ pc[1] = "wait" /\ faulty' = faulty \cup late
      /\ \A w \in await : out[driver[w].endpt] = NONE
      /\ Revoke(amsgtable) /\ pc'[1] = "check"
  BY DEF Timeout, Blame, Redo
<1>2. Waiting /\ ~Waiting' /\ l \notin faulty /\ l \notin late /\ Honest(l) /\ l \in up
  BY <1>1 DEF Waiting, Trusty, Awake
<1>3. await \subseteq SentTo /\ SentTo \subseteq Which
  BY <1>2, Reached DEF ControlInv, Exchange
<1>4. ASSUME NEW w \in Which, amsgtable[w].state = "valid", amsgtable[w].dst = l PROVE FALSE
  <2>1. w \in SentTo /\ driver[w].endpt = l
    BY <1>4, SentToUsed
  <2>2. w \in await
    BY <1>2, <1>4, <2>1 DEF Honest
  <2>3. Pending(w)
    BY <1>2, <1>4, <2>1 DEF Pending
  <2> QED BY <1>2, <2>1, <2>2, <2>3
<1>5. out[l] # "OK"
  BY <1>1, <1>2, Names DEF Honest
<1> QED BY <1>1, <1>2, <1>4, <1>5, RevokeHonest

\* What is done with the replies preserves Honest.
LEMMA EvaluateHonest ==
    ASSUME ControlInv, Trusty, Evaluate, NEW l \in Label \ faulty
    PROVE  Honest(l)'
<1>1. pc[1] = "evaluate" /\ Revoke(amsgtable) /\ pc'[1] \in {"check", "send", "reply"}
  BY Outcomes DEF Redo, Next_io, Answer
<1>2. Waiting /\ ~Waiting' /\ await = {} /\ Honest(l)
  BY <1>1 DEF Waiting, ControlInv, Exchange, Trusty
<1>3. ASSUME NEW w \in Which, amsgtable[w].state = "valid", amsgtable[w].dst = l PROVE FALSE
  <2>1. w \in SentTo /\ driver[w].endpt = l
    BY <1>3, SentToUsed
  <2> QED BY <1>2, <1>3, <2>1 DEF Honest
<1>4. out[l] # "OK"
  BY <1>2 DEF Honest
<1> QED BY <1>1, <1>2, <1>3, <1>4, RevokeHonest

\* Steps of the filter between tries.
LEMMA BetweenHonest ==
    ASSUME ControlInv, Trusty, NEW l \in Label \ faulty,
           Request \/ Reply \/ \E w \in Which : restart_driver(w) \/ \E n \in 1 .. 2 : check_driver(w, n)
    PROVE  Honest(l)'
<1>1. pc[1] \in {"idle", "reply", "restart", "check"} /\ amsgtable' = amsgtable
  <2>1. CASE Request
    BY <2>1 DEF Request, do_rdwt, exchange
  <2>2. CASE Reply
    BY <2>2 DEF Reply, exchange
  <2>3. ASSUME NEW w \in Which, restart_driver(w)
        PROVE  pc[1] \in {"idle", "reply", "restart", "check"} /\ amsgtable' = amsgtable
    BY <2>3 DEF restart_driver, exchange
  <2>4. ASSUME NEW w \in Which, NEW n \in 1 .. 2, check_driver(w, n)
        PROVE  pc[1] \in {"idle", "reply", "restart", "check"} /\ amsgtable' = amsgtable
    BY <2>4, CheckOutcomes
  <2> QED BY <2>1, <2>2, <2>3, <2>4
<1>2. Honest(l) /\ out[l] \notin {"OK", "EIO"}
  BY <1>1, NothingOwed DEF Trusty
<1>3. (busy' = busy /\ out' = out) \/ \E w \in Which : Stopped(driver[w].label)
  BY CheckOutcomes DEF Request, do_rdwt, Reply, restart_driver, external
<1>4. l \notin busy' /\ out'[l] \notin {"OK", "EIO"}
  BY <1>2, <1>3, Names DEF Honest, Stopped, ControlInv, Types
<1>5. ~Waiting'
  <2>1. CASE Request \/ Reply
    <3>1. pc' = <<"send">> \/ pc' = <<"idle">>
      BY <2>1, Begun DEF Reply
    <3> QED BY <3>1 DEF Waiting
  <2>2. ASSUME NEW w \in Which, Return(w), req' = req, pc[1] \in {"check", "restart"} PROVE ~Waiting'
    <3>1. pc' = <<"check", DRIVER_BACKUP, 1>> \/ pc' = <<"send">>
      BY <2>2, ReturnControl
    <3> QED BY <3>1 DEF Waiting
  <2>3. ASSUME NEW w \in Which, restart_driver(w) PROVE ~Waiting'
    <3>1. pc[1] = "restart" /\ req' = req /\ (Return(w) \/ pc' = <<"check", w, 2>>)
      BY <2>3 DEF restart_driver
    <3> QED BY <2>2, <3>1 DEF Waiting
  <2>4. ASSUME NEW w \in Which, NEW n \in 1 .. 2, check_driver(w, n) PROVE ~Waiting'
    <3>1. pc[1] = "check" /\ req' = req /\ (Return(w) \/ pc' = <<"restart", w>> \/ pc' = <<"reply">>)
      BY <2>4, CheckOutcomes DEF Answer
    <3> QED BY <2>2, <3>1 DEF Waiting
  <2> QED BY <2>1, <2>3, <2>4
<1> QED BY <1>1, <1>2, <1>4, <1>5, IdleHonest DEF Honest

\* Drivers that have done nothing wrong are honest throughout.
LEMMA NextTrusty ==
    ASSUME ControlInv, ContentsInv, Awake, Trusty, [Next]_vars
    PROVE  Trusty'
<1> SUFFICES ASSUME NEW l \in Label \ faulty' PROVE Honest(l)'
  BY DEF Trusty
<1>1. l \in Label \ faulty /\ Honest(l)
  BY StillFaulty DEF Trusty
<1>2. CASE UNCHANGED vars \/ Event
  <2>1. UNCHANGED <<busy, out, await, pc, USE_MIRROR, todo, failed, got, amsgtable>>
    BY <1>2 DEF vars, external, request, exchange, Event
  <2>2. \A w \in Which : driver'[w].endpt = driver[w].endpt
    <3>1. CASE UNCHANGED vars
      BY <3>1 DEF vars
    <3>2. CASE Event
      <4>1. driver' = driver
            \/ \E v \in Which : driver' = [driver EXCEPT ![v].up_event =
                                   IF @ = "UP_EXPECTED" THEN "UP_NONE" ELSE "UP_PENDING"]
        BY <3>2, Names DEF Event, ds_event
      <4> QED BY <4>1 DEF ControlInv, Types, DriverState
    <3> QED BY <1>2, <3>1, <3>2
  <2>3. Waiting' = Waiting /\ SentTo' = SentTo
    BY <2>1 DEF Waiting, SentTo, What
  <2>4. l \notin busy'
    BY <1>1, <2>1 DEF Honest
  <2> QED BY <1>1, <2>1, <2>2, <2>3, <2>4, SameHonest
<1>3. CASE Next
  BY <1>1, <1>2, <1>3, Steps, ServeHonest, OtherHonest, SendHonest, ReceiveHonest, TimeoutHonest,
     EvaluateHonest, BetweenHonest
<1> QED BY <1>2, <1>3

-----------------------------------------------------------------------------
(* Suspicion.                                                              *)

\* A read that fails although its driver has done nothing wrong finds rot that
\* make_sum has copied there.
LEMMA FailedRead ==
    ASSUME ControlInv, ContentsInv, MainClean, Exact, Same, Waiting, What = "FLT_READ", req.op = "FLT_READ",
           got[DRIVER_MAIN] # NONE, driver[DRIVER_MAIN].label \notin faulty,
           ~check_sum(req.first, req.n, got[DRIVER_MAIN])
    PROVE  Alone
<1> DEFINE l == driver[DRIVER_MAIN].label
           b == got[DRIVER_MAIN]
<1>1. /\ Trying /\ pc[1] # "idle" /\ Asked
      /\ l \in Label /\ l \in Used /\ DRIVER_MAIN \in SentTo /\ driver[DRIVER_MAIN].endpt = l
  BY Reached, Names DEF ControlInv, Trying, Waiting
<1>2. Head(todo).at = At
  BY <1>1, Operation DEF ControlInv
<1>3. \A p \in At : disk[l][p] = b[p]
  BY <1>1, <1>2 DEF Exact
<1>4. PICK nr \in Span(req.first, req.n) :
         b[SEC2SUM_NR(nr)][nr % NR_SUM_SEC] # calc_sum(nr, b[LOG2PHYS(nr)])
  BY DEF check_sum
<1>5. nr \in Logical /\ LOG2PHYS(nr) \in At /\ SEC2SUM_NR(nr) \in At
  BY <1>1, RequestOnDisk, InBuffer DEF Asked, At
<1> HIDE DEF b
<1>6. Entry(disk[l], nr) # calc_sum(nr, Data(disk[l], nr))
  BY <1>3, <1>4, <1>5 DEF Entry, Data
<1>7. HasData(disk[l], nr) /\ HasEntry(disk[l], nr)
  <2>1. DOMAIN disk[l] = Phys
    BY <1>1, FilledFacts DEF ContentsInv, Sectors
  <2> QED BY <1>5, <2>1, PlacesOnDisk DEF HasData, HasEntry
<1>8. PICK v \in Value : Shows(disk[l], nr, v)
  <2>1. Healthy /\ nr \notin InWrite
    BY DEF Healthy, InWrite, Spanned
  <2> QED BY <1>1, <1>5, <2>1 DEF Same
<1>9. Spoiled(disk[l], nr)
  BY <1>6, <1>7, <1>8 DEF Shows, Spoiled
<1>10. ~USE_MIRROR
  BY <1>5, <1>9 DEF MainClean, ControlInv, Drivers
<1> QED BY <1>5, <1>9, <1>10 DEF Alone

\* A driver that is blamed by the replies deserves it.
LEMMA BlamedRightly ==
    ASSUME ControlInv, ContentsInv, Trusty, MainClean, Exact, Copied, Same, pc[1] = "evaluate", NEW w \in SentTo,
           \/ Unserved(w)
           \/ ~Unserved(w) /\ What = "FLT_READ2" /\ got[w] # ext
           \/ /\ ~Unserved(w) /\ w = DRIVER_MAIN /\ What = "FLT_READ" /\ req.op = "FLT_READ"
              /\ ~check_sum(req.first, req.n, got[w])
    PROVE  driver[w].label \in faulty \/ (w = DRIVER_MAIN /\ Alone)
<1> SUFFICES ASSUME driver[w].label \notin faulty PROVE w = DRIVER_MAIN /\ Alone
  OBVIOUS
<1> DEFINE l == driver[w].label
<1>1. /\ w \in Which /\ l \in Label /\ l \in Used /\ driver[w].endpt = l
      /\ Waiting /\ Trying /\ await = {} /\ Honest(l)
  BY Reached DEF ControlInv, Waiting, Trying, Exchange, Trusty
<1>2. ~Unserved(w)
  BY <1>1 DEF Honest, Unserved
<1>3. ASSUME What = "FLT_READ2", got[w] # ext PROVE FALSE
  <2>1. req.op = "FLT_WRITE" /\ Head(todo).at = At /\ Made
    BY <1>1, <1>3, Operation DEF ControlInv, Made
  <2>2. DOMAIN ext = At
    BY <1>1, <2>1 DEF ContentsInv, ExtSums
  <2>3. got[w] # NONE
    BY <1>2 DEF Unserved
  <2>4. Filled(got[w], At)
    BY <1>1, <1>3, <2>1, <2>3 DEF ContentsInv, Sectors
  <2>5. \A p \in At : got[w][p] = ext[p]
    BY <1>1, <1>3, <2>1, <2>3 DEF Exact, Copied
  <2>6. ext = [p \in At |-> ext[p]] /\ got[w] = [p \in At |-> got[w][p]]
    BY <2>2, <2>4 DEF Filled, ContentsInv, Sectors
  <2> QED BY <1>3, <2>5, <2>6
<1>4. /\ w = DRIVER_MAIN /\ What = "FLT_READ" /\ req.op = "FLT_READ"
      /\ ~check_sum(req.first, req.n, got[w]) /\ got[w] # NONE
  BY <1>2, <1>3 DEF Unserved
<1> QED BY <1>1, <1>4, FailedRead

\* Drivers that a step does not make suspect.
LEMMA KeepSuspects ==
    ASSUME ControlInv, Suspects, faulty \subseteq faulty',
           \A w \in Which : /\ driver'[w].label = driver[w].label
                            /\ Suspected(w)' => Suspected(w) \/ driver[w].label \in faulty',
           pc[1] \notin {"check", "restart"}
    PROVE  Suspects'
BY DEF Suspects

\* Steps of others, and those of the filter that change neither its place nor
\* what it thinks of its drivers.
LEMMA SameSuspects ==
    ASSUME ControlInv, ContentsInv, Suspects, Excused, [Next]_vars, UNCHANGED <<pc, req, USE_MIRROR>>,
           \A w \in Which : driver'[w].label = driver[w].label /\ driver'[w].problem = driver[w].problem
    PROVE  Suspects' /\ Excused'
<1>1. faulty \subseteq faulty'
  BY StillFaulty
<1>2. Excused'
  <2>1. pc[1] = "restart" => pc[2] \in Which
    BY Places DEF ControlInv, Types
  <2> QED BY <2>1 DEF Excused
<1>3. ASSUME NEW w \in Which, Suspected(w)'
      PROVE  \/ driver[w].label \in faulty'
             \/ w = DRIVER_MAIN /\ Alone' /\ pc[1] \in {"check", "restart"} /\ pc[2] = w
  <2>1. Suspected(w)
    BY <1>3 DEF Suspected
  <2>2. CASE driver[w].label \in faulty
    BY <1>1, <2>2
  <2>3. CASE w = DRIVER_MAIN /\ Alone /\ pc[1] \in {"check", "restart"} /\ pc[2] = w
    BY <2>3, AloneStays DEF Waiting
  <2> QED BY <2>1, <2>2, <2>3 DEF Suspects
<1> QED BY <1>2, <1>3 DEF Suspects

\* The end of a try that fails.
LEMMA RedoSuspects ==
    ASSUME ControlInv, Suspects, Waiting \/ pc[1] = "send", NEW d, Redo(d), faulty \subseteq faulty',
           USE_MIRROR' = USE_MIRROR, disk' = disk,
           \A w \in Which :
              /\ d[w].label = driver[w].label
              /\ \/ d[w].problem = driver[w].problem
                 \/ driver[w].label \in faulty'
                 \/ w = DRIVER_MAIN /\ Alone
    PROVE  Suspects' /\ Excused'
<1>1. driver' = d /\ pc' = <<"check", DRIVER_MAIN, 1>> /\ req' = req
  BY DEF Redo
<1>2. pc[1] \notin {"check", "restart"} /\ Alone' = Alone
  BY <1>1, Names DEF Waiting, Alone
<1>3. ASSUME NEW w \in Which, Suspected(w)'
      PROVE  driver[w].label \in faulty' \/ (w = DRIVER_MAIN /\ Alone)
  <2>1. d[w].problem # "BD_NONE"
    BY <1>1, <1>3 DEF Suspected
  <2>2. CASE d[w].problem = driver[w].problem
    BY <1>2, <2>1, <2>2 DEF Suspects, Suspected
  <2> QED BY <2>2
<1>4. Suspects'
  BY <1>1, <1>2, <1>3 DEF Suspects
<1>5. Excused'
  BY <1>1 DEF Excused
<1> QED BY <1>4, <1>5

\* The beginning of read_write preserves Suspects and Excused.
LEMMA SendSuspects ==
    ASSUME ControlInv, Awake, Suspects, read_write, faulty \subseteq faulty'
    PROVE  Suspects' /\ Excused'
<1> DEFINE table == [w \in Which |->
                        IF w \in SentTo
                        THEN [dst   |-> driver[w].endpt,
                              state |-> IF driver[w].endpt \in up THEN "valid" ELSE "dead"]
                        ELSE amsgtable[w]]
<1>1. /\ pc[1] = "send" /\ UNCHANGED <<disk, USE_MIRROR>>
      /\ \/ /\ check_senda(table, DRIVER_MAIN) = "BD_DEAD"
            /\ Redo(bad_driver(driver, DRIVER_MAIN, "BD_DEAD"))
         \/ /\ pc' = <<"wait", SentTo>> /\ UNCHANGED <<driver, req>>
  BY DEF read_write, SentTo, What, external, Revoke
<1>2. CASE /\ check_senda(table, DRIVER_MAIN) = "BD_DEAD"
           /\ Redo(bad_driver(driver, DRIVER_MAIN, "BD_DEAD"))
  <2> DEFINE d == bad_driver(driver, DRIVER_MAIN, "BD_DEAD")
  <2>1. DRIVER_MAIN \in SentTo /\ DRIVER_MAIN \in Which
        /\ driver[DRIVER_MAIN].endpt = driver[DRIVER_MAIN].label /\ driver[DRIVER_MAIN].label \in Label
    BY Reached, Names DEF ControlInv
  <2>2. driver[DRIVER_MAIN].endpt \notin up
    BY <1>2, <2>1 DEF check_senda
  <2>3. driver[DRIVER_MAIN].label \in faulty \/ Alone
    BY <2>1, <2>2 DEF Awake
  <2>4. \A w \in Which : d[w].label = driver[w].label /\ (w # DRIVER_MAIN => d[w] = driver[w])
    BY <2>1, BadDriver DEF ControlInv
  <2> HIDE DEF d
  <2>5. \A w \in Which :
            /\ d[w].label = driver[w].label
            /\ \/ d[w].problem = driver[w].problem
               \/ driver[w].label \in faulty'
               \/ w = DRIVER_MAIN /\ Alone
    BY <2>3, <2>4
  <2>6. Redo(d)
    BY <1>2 DEF d
  <2> QED BY <1>1, <2>5, <2>6, RedoSuspects
<1>3. CASE pc' = <<"wait", SentTo>> /\ UNCHANGED <<driver, req>>
  <2>1. Excused'
    BY <1>3 DEF Excused
  <2>2. \A w \in Which : Suspected(w)' => Suspected(w)
    BY <1>3 DEF Suspected
  <2> QED BY <1>1, <1>3, <2>1, <2>2, KeepSuspects
<1> QED BY <1>1, <1>2, <1>3

\* The alarm preserves Suspects and Excused.
LEMMA TimeoutSuspects ==
    ASSUME ControlInv, Awake, Trusty, Suspects, Timeout, faulty \subseteq faulty'
    PROVE  Suspects' /\ Excused'
<1> DEFINE late == {driver[w].endpt : w \in {v \in await : Pending(v)}}
           d == [w \in Which |-> IF w \in await
                                 THEN [driver[w] EXCEPT !.problem = check_senda(amsgtable, w)] ELSE driver[w]]
<1>1. /\ pc[1] = "wait" /\ faulty' = faulty \cup late
      /\ \A w \in await : out[driver[w].endpt] = NONE
      /\ Redo(d) /\ disk' = disk /\ USE_MIRROR' = USE_MIRROR
  BY DEF Timeout, Blame, Revoke
<1>2. Waiting /\ await \subseteq SentTo
  BY <1>1 DEF Waiting, ControlInv, Exchange
<1>3. ASSUME NEW w \in await, driver[w].label \notin faulty' PROVE FALSE
  <2> DEFINE l == driver[w].label
  <2>1. w \in SentTo /\ w \in Which /\ l \in Label /\ driver[w].endpt = l
    BY <1>2, Reached DEF ControlInv
  <2>2. l \in up /\ Honest(l)
    BY <1>2, <1>3, <2>1 DEF Awake, Trusty
  <2>3. got[w] = NONE
    BY <1>1, <1>2, <2>1, <2>2, Names DEF Honest
  <2>4. amsgtable[w].state = "valid"
    BY <1>2, <2>1, <2>2, <2>3 DEF Honest
  <2>5. Pending(w)
    BY <2>1, <2>2, <2>4 DEF Pending
  <2> QED BY <1>1, <1>3, <2>1, <2>5
<1>4. \A w \in Which : d[w].label = driver[w].label /\ (w \notin await => d[w] = driver[w])
  <2>1. \A w \in Which : driver[w] \in DriverState
    BY DEF ControlInv, Types
  <2> QED BY <2>1 DEF DriverState
<1> HIDE DEF d
<1>5. \A w \in Which : d[w].label = driver[w].label /\ (d[w].problem = driver[w].problem \/ driver[w].label \in faulty')
  BY <1>3, <1>4
<1> QED BY <1>1, <1>2, <1>5, RedoSuspects

\* What is done with the replies preserves Suspects and Excused.
LEMMA EvaluateSuspects ==
    ASSUME ControlInv, ContentsInv, Trusty, Suspects, MainClean, Exact, Copied, Same, Evaluate
    PROVE  Suspects' /\ Excused'
<1>1. /\ pc[1] = "evaluate" /\ UNCHANGED <<disk, USE_MIRROR, faulty>> /\ Waiting
  BY Outcomes DEF Revoke, Waiting
<1>2. ASSUME NEW w \in SentTo, NEW problem \in {"BD_PROTO", "BD_DATA"},
             Redo(bad_driver(driver, w, problem)),
             \/ Unserved(w)
             \/ ~Unserved(w) /\ What = "FLT_READ2" /\ got[w] # ext
             \/ /\ ~Unserved(w) /\ w = DRIVER_MAIN /\ req.op = "FLT_READ"
                /\ ~check_sum(req.first, req.n, got[w])
      PROVE  Suspects' /\ Excused'
  <2> DEFINE d == bad_driver(driver, w, problem)
  <2>1. w \in Which /\ (req.op = "FLT_READ" => What = "FLT_READ")
    BY <1>1, Reached, Operation DEF ControlInv, Trying
  <2>2. driver[w].label \in faulty \/ (w = DRIVER_MAIN /\ Alone)
    BY <1>1, <1>2, <2>1, BlamedRightly
  <2>3. \A v \in Which : d[v].label = driver[v].label /\ (v # w => d[v] = driver[v])
    BY <2>1, BadDriver DEF ControlInv
  <2> HIDE DEF d
  <2>4. \A v \in Which :
            /\ d[v].label = driver[v].label
            /\ \/ d[v].problem = driver[v].problem
               \/ driver[v].label \in faulty'
               \/ v = DRIVER_MAIN /\ Alone
    BY <1>1, <2>2, <2>3
  <2>5. Redo(d)
    BY <1>2 DEF d
  <2> QED BY <1>1, <2>4, <2>5, RedoSuspects
<1>3. CASE driver' = driver /\ (pc' = <<"send">> \/ pc' = <<"reply">>)
  <2>1. Excused'
    BY <1>3 DEF Excused
  <2>2. \A w \in Which : Suspected(w)' => Suspected(w)
    BY <1>3 DEF Suspected
  <2> QED BY <1>1, <1>3, <2>1, <2>2, KeepSuspects
<1> QED BY <1>2, <1>3, Outcomes DEF Next_io, Answer

\* check_driver preserves Suspects and Excused.
LEMMA CheckSuspects ==
    ASSUME ControlInv, Suspects, NEW w \in Which, NEW n \in 1 .. 2, check_driver(w, n)
    PROVE  Suspects' /\ Excused'
<1>1. /\ pc = <<"check", w, n>> /\ pc[1] = "check" /\ pc[2] = w
      /\ UNCHANGED <<disk, faulty, req>> /\ Types /\ Drivers
  BY CheckOutcomes DEF ControlInv
<1>2. ASSUME Return(w) PROVE pc' = <<"check", DRIVER_BACKUP, 1>> \/ pc' = <<"send">>
  BY <1>1, <1>2, ReturnControl
<1>3. \A v \in Which : v # w /\ driver[v].problem # "BD_NONE" => driver[v].label \in faulty
  BY <1>1 DEF Suspects, Suspected
<1>4. CASE n = 1 /\ driver[w].problem = "BD_NONE" /\ Return(w) /\ driver' = driver
  <2>1. \A v \in Which : Suspected(v)' => v # w /\ driver[v].problem # "BD_NONE"
    BY <1>2, <1>4 DEF Suspected
  <2>2. Excused'
    BY <1>2, <1>4 DEF Excused
  <2> QED BY <1>1, <1>3, <1>4, <2>1, <2>2 DEF Suspects
<1>5. CASE /\ n > 1 \/ driver[w].problem # "BD_NONE"
           /\ driver'[w].label = driver[w].label
           /\ driver'[w].problem = "BD_NONE"
           /\ \A v \in Which : v # w => driver'[v] = driver[v]
           /\ \/ Return(w) /\ USE_MIRROR' = USE_MIRROR
              \/ pc' = <<"restart", w>> /\ USE_MIRROR' = USE_MIRROR
              \/ Answer("error", driver')
  <2>1. CASE Return(w) \/ Answer("error", driver')
    <3>1. pc' = <<"check", DRIVER_BACKUP, 1>> \/ pc' = <<"send">> \/ pc' = <<"reply">>
      BY <1>2, <2>1 DEF Answer
    <3>2. \A v \in Which : Suspected(v)' => v # w /\ driver[v].problem # "BD_NONE"
      BY <1>5, <3>1 DEF Suspected
    <3>3. Excused'
      BY <3>1 DEF Excused
    <3> QED BY <1>1, <1>3, <1>5, <3>2, <3>3 DEF Suspects
  <2>2. CASE pc' = <<"restart", w>> /\ USE_MIRROR' = USE_MIRROR
    <3>1. Excused'
      BY <1>5, <2>2 DEF Excused
    <3>2. Suspected(w)
      <4>1. n = 1 \/ n = 2
        OBVIOUS
      <4>2. n > 1 => n = 2
        BY <4>1
      <4> QED BY <1>1, <1>5, <4>2 DEF Suspected
    <3>3. \A v \in Which : Suspected(v)' => v = w \/ driver[v].problem # "BD_NONE"
      BY <1>5, <2>2 DEF Suspected
    <3>4. pc'[1] = "restart" /\ pc'[2] = w
      BY <2>2
    <3>5. \A v \in Which : driver'[v].label = driver[v].label
      BY <1>5
    <3>6. driver[w].label \in faulty \/ (w = DRIVER_MAIN /\ Alone)
      BY <3>2 DEF Suspects
    <3>7. Alone' = Alone
      BY <1>1, <2>2, <3>5, Names DEF Alone
    <3>8. Suspects'
      BY <1>1, <1>3, <3>3, <3>4, <3>5, <3>6, <3>7 DEF Suspects
    <3> QED BY <3>1, <3>8
  <2> QED BY <1>5, <2>1, <2>2
<1>6. CASE /\ USE_MIRROR /\ ~USE_MIRROR' /\ Return(w)
           /\ driver'[DRIVER_MAIN].label = IF w = DRIVER_MAIN THEN BACKUP_LABEL ELSE MAIN_LABEL
           /\ driver'[DRIVER_MAIN].problem = driver[IF w = DRIVER_MAIN THEN DRIVER_BACKUP
                                                    ELSE DRIVER_MAIN].problem
           /\ driver'[DRIVER_BACKUP].label = BACKUP_LABEL
           /\ driver'[DRIVER_BACKUP].problem =
                  IF w = DRIVER_MAIN THEN driver[DRIVER_BACKUP].problem ELSE "BD_NONE"
  <2>1. \A v \in Which : Suspected(v)' => driver'[v].problem # "BD_NONE"
    BY <1>2, <1>6 DEF Suspected
  <2>2. Excused'
    BY <1>2, <1>6 DEF Excused
  <2>3. driver[DRIVER_MAIN].label = MAIN_LABEL /\ driver[DRIVER_BACKUP].label = BACKUP_LABEL
    BY <1>1, <1>6 DEF Drivers
  <2>4. \A v \in Which : driver'[v].problem # "BD_NONE" => driver'[v].label \in faulty
    BY <1>3, <1>6, <2>3, Names
  <2> QED BY <1>1, <2>1, <2>2, <2>4 DEF Suspects
<1> QED BY <1>4, <1>5, <1>6, CheckOutcomes

\* The end of restart_driver preserves Suspects and Excused.
LEMMA RestartSuspects ==
    ASSUME ControlInv, Suspects, Excused, NEW w \in Which, restart_driver(w)
    PROVE  Suspects' /\ Excused'
<1>1. /\ pc = <<"restart", w>> /\ pc[1] = "restart" /\ pc[2] = w
      /\ UNCHANGED <<disk, driver, USE_MIRROR, req, faulty>>
      /\ Return(w) \/ pc' = <<"check", w, 2>>
  BY DEF restart_driver, external
<1>2. driver[w].problem = "BD_NONE" /\ Suspected(w)
  BY <1>1 DEF Excused, Suspected
<1>3. \A v \in Which : v # w /\ driver[v].problem # "BD_NONE" => driver[v].label \in faulty
  BY <1>1 DEF Suspects, Suspected
<1>4. CASE Return(w)
  <2>1. pc' = <<"check", DRIVER_BACKUP, 1>> \/ pc' = <<"send">>
    BY <1>1, <1>4, ReturnControl
  <2>2. \A v \in Which : Suspected(v)' => v # w /\ driver[v].problem # "BD_NONE"
    BY <1>1, <1>2, <2>1 DEF Suspected
  <2>3. Excused'
    BY <2>1 DEF Excused
  <2> QED BY <1>1, <1>3, <2>2, <2>3 DEF Suspects
<1>5. CASE pc' = <<"check", w, 2>>
  <2>1. \A v \in Which : Suspected(v)' => v = w \/ driver[v].problem # "BD_NONE"
    BY <1>1, <1>5 DEF Suspected
  <2>2. Alone' = Alone /\ pc'[1] = "check" /\ pc'[2] = w /\ Excused'
    BY <1>1, <1>5 DEF Alone, Excused
  <2>3. driver[w].label \in faulty \/ (w = DRIVER_MAIN /\ Alone)
    BY <1>2 DEF Suspects
  <2> QED BY <1>1, <1>3, <2>1, <2>2, <2>3 DEF Suspects
<1> QED BY <1>1, <1>4, <1>5

\* So a suspect has done something wrong, or shows rot.
LEMMA NextSuspects ==
    ASSUME ControlInv, ContentsInv, Awake, Trusty, Suspects, Excused, MainClean, Exact, Copied, Same, [Next]_vars
    PROVE  Suspects' /\ Excused'
<1>1. faulty \subseteq faulty'
  BY StillFaulty
<1>2. CASE UNCHANGED vars
  BY <1>2, SameSuspects DEF vars, request
<1>3. ASSUME NEW l \in Label,
             (\E w \in Which : Serve(l, w)) \/ Refuse(l) \/ Fail(l) \/ Crash(l) \/ Start(l) \/ Stray(l)
                \/ \E p \in Phys : Rot(l, p)
      PROVE  Suspects' /\ Excused'
  <2>1. UNCHANGED <<pc, req, USE_MIRROR, driver>>
    BY <1>3 DEF Serve, Refuse, Fail, Crash, Start, Stray, Rot, request
  <2> QED BY <2>1, SameSuspects
<1>4. CASE Event
  <2>1. UNCHANGED <<pc, req, USE_MIRROR>>
    BY <1>4 DEF Event, request
  <2>2. \A w \in Which : driver'[w].label = driver[w].label /\ driver'[w].problem = driver[w].problem
    <3>1. driver' = driver
          \/ \E v \in Which : driver' = [driver EXCEPT ![v].up_event =
                                 IF @ = "UP_EXPECTED" THEN "UP_NONE" ELSE "UP_PENDING"]
      BY <1>4, Names DEF Event, ds_event
    <3> QED BY <3>1 DEF ControlInv, Types, DriverState
  <2> QED BY <2>1, <2>2, SameSuspects
<1>5. CASE Request
  <2>1. /\ pc[1] = "idle" /\ pc' = <<"send">>
        /\ driver' = [w \in Which |-> [driver[w] EXCEPT !.retries = 0, !.kills = 0]]
    BY <1>5, Begun
  <2>2. ASSUME NEW d \in DriverState
        PROVE  LET e == [d EXCEPT !.retries = 0, !.kills = 0]
               IN  e.label = d.label /\ e.problem = d.problem
    BY DEF DriverState
  <2>3. \A w \in Which : driver'[w].label = driver[w].label /\ driver'[w].problem = driver[w].problem
    BY <2>1, <2>2 DEF ControlInv, Types
  <2>4. \A w \in Which : Suspected(w)' => Suspected(w)
    BY <2>1, <2>3 DEF Suspected
  <2>5. Excused'
    BY <2>1 DEF Excused
  <2> QED BY <1>1, <2>1, <2>3, <2>4, <2>5, KeepSuspects
<1>6. CASE Reply \/ \E w \in Which : flt_receive(w)
  <2>1. /\ pc[1] \notin {"check", "restart"} /\ driver' = driver
        /\ pc'[1] \notin {"check", "restart"}
    BY <1>6 DEF Reply, flt_receive
  <2>2. \A w \in Which : Suspected(w)' => Suspected(w)
    BY <2>1 DEF Suspected
  <2>3. Excused'
    BY <2>1 DEF Excused
  <2> QED BY <1>1, <2>1, <2>2, <2>3, KeepSuspects
<1>7. CASE Next
  BY <1>1, <1>3, <1>4, <1>5, <1>6, <1>7, Steps, SendSuspects, TimeoutSuspects, EvaluateSuspects,
     CheckSuspects, RestartSuspects
<1> QED BY <1>2, <1>7

-----------------------------------------------------------------------------
(* Giving up.                                                              *)

\* A driver that is dropped is a suspect.
LEMMA CheckLost ==
    ASSUME ControlInv, LostFaulty, Suspects, NEW w \in Which, NEW n \in 1 .. 2, check_driver(w, n)
    PROVE  LostFaulty'
<1>1. pc = <<"check", w, n>> /\ faulty' = faulty /\ Types /\ Drivers
  BY CheckOutcomes DEF ControlInv
<1>2. CASE driver'[DRIVER_MAIN].label = driver[DRIVER_MAIN].label /\ USE_MIRROR' = USE_MIRROR
  BY <1>1, <1>2 DEF LostFaulty, Used
<1>3. CASE /\ n > 1 \/ driver[w].problem # "BD_NONE"
           /\ USE_MIRROR /\ ~USE_MIRROR'
           /\ driver'[DRIVER_MAIN].label = IF w = DRIVER_MAIN THEN BACKUP_LABEL ELSE MAIN_LABEL
  <2>1. Suspected(w)
    <3>1. n = 1 \/ n = 2
      OBVIOUS
    <3>2. n > 1 => n = 2
      BY <3>1
    <3> QED BY <1>1, <1>3, <3>2 DEF Suspected
  <2>2. driver[w].label \in faulty
    BY <1>3, <2>1 DEF Suspects, Alone
  <2>3. Label \ Used' = {driver[w].label}
    BY <1>1, <1>3, Names DEF Used, Drivers
  <2> QED BY <1>1, <2>2, <2>3 DEF LostFaulty
<1>4. \/ driver'[DRIVER_MAIN].label = driver[DRIVER_MAIN].label /\ USE_MIRROR' = USE_MIRROR
      \/ /\ n > 1 \/ driver[w].problem # "BD_NONE"
         /\ USE_MIRROR /\ ~USE_MIRROR'
         /\ driver'[DRIVER_MAIN].label = IF w = DRIVER_MAIN THEN BACKUP_LABEL ELSE MAIN_LABEL
  BY CheckOutcomes, Names
<1> QED BY <1>2, <1>3, <1>4

\* So the filter loses only disks that have done something wrong.
LEMMA NextLost ==
    ASSUME ControlInv, LostFaulty, Suspects, [Next]_vars
    PROVE  LostFaulty'
<1>1. CASE Used' = Used
  BY <1>1, StillFaulty DEF LostFaulty
<1> QED BY <1>1, SameDrivers, CheckLost

\* A request fails for want of a driver only.
LEMMA CheckGaveUp ==
    ASSUME ControlInv, LostFaulty, Suspects, NEW w \in Which, NEW n \in 1 .. 2, check_driver(w, n)
    PROVE  GaveUp'
<1>1. /\ pc = <<"check", w, n>> /\ faulty' = faulty /\ req' = req /\ disk' = disk /\ Types /\ Drivers
  BY CheckOutcomes DEF ControlInv
<1>2. ASSUME Return(w) PROVE pc'[1] # "reply"
  <2>1. pc' = <<"check", DRIVER_BACKUP, 1>> \/ pc' = <<"send">>
    BY <1>1, <1>2, ReturnControl
  <2> QED BY <2>1
<1>3. CASE Return(w) \/ pc' = <<"restart", w>>
  BY <1>2, <1>3 DEF GaveUp
<1>4. CASE /\ n > 1 \/ driver[w].problem # "BD_NONE"
           /\ driver'[w].label = driver[w].label
           /\ \A v \in Which : v # w => driver'[v] = driver[v]
           /\ ~USE_MIRROR /\ USE_MIRROR' = USE_MIRROR
  <2>1. Suspected(w)
    <3>1. n = 1 \/ n = 2
      OBVIOUS
    <3>2. n > 1 => n = 2
      BY <3>1
    <3> QED BY <1>1, <1>4, <3>2 DEF Suspected
  <2>2. driver'[DRIVER_MAIN].label = driver[DRIVER_MAIN].label /\ Alone' = Alone
    BY <1>1, <1>4, Names DEF Alone
  <2>3. Label \ {driver[DRIVER_MAIN].label} \subseteq faulty
    BY <1>4 DEF LostFaulty, Used
  <2>4. CASE driver[w].label \in faulty
    <3>1. driver[w].label = driver[DRIVER_MAIN].label
      <4>1. CASE w = DRIVER_MAIN
        BY <4>1
      <4>2. CASE w = DRIVER_BACKUP
        <5>1. driver[DRIVER_MAIN].label # MAIN_LABEL /\ driver[DRIVER_MAIN].label \in Label
          BY <1>1, <1>4, <4>2, NotDropped, Reached, Names
        <5> QED BY <1>1, <4>2, <5>1, Names DEF Drivers
      <4> QED BY <4>1, <4>2, Names
    <3>2. faulty = Label
      BY <1>1, <2>3, <2>4, <3>1 DEF Types
    <3> QED BY <1>1, <3>2 DEF GaveUp
  <2>5. CASE w = DRIVER_MAIN /\ Alone
    BY <2>2, <2>5 DEF GaveUp
  <2> QED BY <2>1, <2>4, <2>5 DEF Suspects
<1> QED BY <1>3, <1>4, CheckOutcomes

\* GaveUp is preserved.
LEMMA NextGaveUp ==
    ASSUME ControlInv, ContentsInv, LostFaulty, Suspects, GaveUp, [Next]_vars
    PROVE  GaveUp'
<1>1. faulty \subseteq faulty' /\ faulty' \subseteq Label
  BY StillFaulty, NextControl DEF ControlInv, Types
<1>2. ASSUME pc'[1] = "reply" => pc[1] = "reply" /\ r' = r PROVE GaveUp'
  <2> SUFFICES ASSUME pc'[1] = "reply", r' # "OK"
               PROVE  faulty' = Label \/ Alone'
    BY DEF GaveUp
  <2>1. pc[1] = "reply" /\ r # "OK" /\ ~Waiting
    BY <1>2 DEF Waiting
  <2>2. CASE faulty = Label
    BY <1>1, <2>2
  <2>3. CASE Alone
    BY <2>1, <2>3, AloneStays
  <2> QED BY <2>1, <2>2, <2>3 DEF GaveUp
<1>3. \/ pc'[1] = "reply" => pc[1] = "reply" /\ r' = r
      \/ \E w \in Which, n \in 1 .. 2 : check_driver(w, n)
      \/ r' = "OK"
  <2>1. CASE UNCHANGED vars
    BY <2>1 DEF vars, request
  <2>2. ASSUME NEW l \in Label,
               (\E w \in Which : Serve(l, w)) \/ Refuse(l) \/ Fail(l) \/ Crash(l) \/ Start(l) \/ Stray(l)
                  \/ \E p \in Phys : Rot(l, p)
        PROVE  UNCHANGED <<pc, r, req>>
    BY <2>2 DEF Serve, Refuse, Fail, Crash, Start, Stray, Rot, request
  <2>3. CASE Event
    BY <2>3 DEF Event, request
  <2>4. CASE Request \/ read_write \/ Timeout \/ Reply \/ \E w \in Which : flt_receive(w)
    <3>1. pc'[1] # "reply"
      <4>1. ASSUME NEW w \in Which, flt_receive(w) PROVE pc'[1] # "reply"
        BY <4>1 DEF flt_receive
      <4>2. CASE Request
        <5>1. pc' = <<"send">>
          BY <4>2, Begun
        <5> QED BY <5>1
      <4>3. CASE read_write \/ Timeout \/ Reply
        BY <4>3 DEF read_write, Redo, Timeout, Reply
      <4> QED BY <2>4, <4>1, <4>2, <4>3
    <3> QED BY <3>1
  <2>5. CASE Evaluate
    <3>1. pc'[1] # "reply" \/ r' = "OK"
      BY <2>5, Outcomes DEF Redo, Next_io, Answer
    <3> QED BY <3>1
  <2>6. ASSUME NEW w \in Which, restart_driver(w) PROVE pc'[1] # "reply"
    <3>1. pc[1] = "restart" /\ req' = req /\ (Return(w) \/ pc' = <<"check", w, 2>>)
      BY <2>6 DEF restart_driver
    <3>2. Return(w) => pc' = <<"check", DRIVER_BACKUP, 1>> \/ pc' = <<"send">>
      BY <3>1, ReturnControl
    <3> QED BY <3>1, <3>2
  <2> QED BY <2>1, <2>2, <2>3, <2>4, <2>5, <2>6, Steps
<1>4. CASE r' = "OK"
  BY <1>4 DEF GaveUp
<1>5. CASE \E w \in Which, n \in 1 .. 2 : check_driver(w, n)
  BY <1>5, CheckGaveUp
<1> QED BY <1>2, <1>3, <1>4, <1>5

-----------------------------------------------------------------------------
(* What disks that have done nothing wrong hold.                           *)

\* The buffer of a try that begins.
LEMMA TransferBuffer ==
    ASSUME ControlInv', Transfer(req')
    PROVE  /\ ~Waiting' /\ Trying' /\ What' # "FLT_READ2" /\ ~Made'
           /\ req'.op = "FLT_WRITE" =>
                 \A nr \in Logical :
                    /\ ~HasEntry(ext', nr)
                    /\ HasData(ext', nr) => nr \in Spanned' /\ Data(ext', nr) = req'.data
<1>1. pc' = <<"send">>
  BY DEF Transfer
<1>2. /\ req'.op \in {"FLT_READ", "FLT_WRITE"} /\ req'.first \in Nat /\ req'.n \in Nat \ {0}
  BY <1>1 DEF ControlInv, Asked
<1>3. Asked'
  BY DEF ControlInv
<1>4. ExtSums' /\ What' # "FLT_READ2" /\ ~Made' /\ ~Waiting'
  BY <1>1, <1>3, TransferContents
<1>5. Trying'
  BY <1>1 DEF Trying
<1>6. ASSUME req'.op = "FLT_WRITE", NEW nr \in Logical
      PROVE  /\ ~HasEntry(ext', nr)
             /\ HasData(ext', nr) => nr \in Spanned' /\ Data(ext', nr) = req'.data
  <2>1. DOMAIN ext' = {LOG2PHYS(m) : m \in Span(req'.first, req'.n)}
    BY <1>2, <1>6, TransferControl DEF Spread
  <2>2. Spanned' = Span(req'.first, req'.n)
    BY <1>6 DEF Spanned
  <2>3. nr \in Nat /\ \A m \in Span(req'.first, req'.n) : m \in Nat
    BY <1>2, InBuffer, PlacesOnDisk
  <2>4. \A m \in Span(req'.first, req'.n) :
           LOG2PHYS(m) # SEC2SUM_NR(nr) /\ (LOG2PHYS(m) = LOG2PHYS(nr) => m = nr)
    BY <2>3, SectorsApart
  <2>5. ~HasEntry(ext', nr)
    BY <2>1, <2>4 DEF HasEntry
  <2>6. HasData(ext', nr) => nr \in Spanned'
    BY <2>1, <2>2, <2>4 DEF HasData
  <2>7. \A m \in Spanned' : Data(ext', m) = req'.data
    BY <1>4, <1>5, <1>6 DEF ExtSums
  <2> QED BY <2>5, <2>6, <2>7
<1> QED BY <1>4, <1>5, <1>6

\* The steps that leave the filter in the middle of a try.
LEMMA TryingSteps ==
    ASSUME ControlInv, ControlInv', [Next]_vars, Trying'
    PROVE  \/ /\ Trying /\ UNCHANGED <<req, todo, ext, USE_MIRROR>>
              /\ Waiting' = Waiting
              /\ \A w \in Which : driver'[w].label = driver[w].label /\ driver'[w].endpt = driver[w].endpt
              /\ got' = got \/ \E l \in Label, w \in Which : Serve(l, w)
           \/ /\ pc[1] = "send" /\ UNCHANGED <<disk, req, todo, driver, USE_MIRROR>>
              /\ \A w \in Which : got'[w] = NONE
              /\ ext' = IF What = "FLT_WRITE" THEN make_sum(req.first, req.n, ext) ELSE ext
           \/ /\ Waiting /\ ~Waiting' /\ UNCHANGED <<disk, req, driver, USE_MIRROR>>
              /\ \A w \in SentTo : got[w] # NONE
              /\ req.op = "FLT_WRITE"
              /\ \/ What = "FLT_WRITE" /\ ext' = ext
                 \/ /\ What = "FLT_READ" /\ What' # "FLT_READ2"
                    /\ ext' = [p \in DOMAIN ext \cup Head(todo).at |->
                                 IF p \in Head(todo).at THEN got[DRIVER_MAIN][p] ELSE ext[p]]
           \/ /\ ~Trying /\ Transfer(req') /\ disk' = disk
<1>1. CASE UNCHANGED vars
  BY <1>1 DEF vars, request, exchange, Trying, Waiting
<1>2. ASSUME NEW l \in Label, NEW w \in Which, Serve(l, w)
      PROVE  /\ Trying /\ UNCHANGED <<req, todo, ext, USE_MIRROR, driver>> /\ Waiting' = Waiting
  BY <1>2 DEF Serve, request, Trying, Waiting
<1>3. ASSUME NEW l \in Label,
             Refuse(l) \/ Fail(l) \/ Crash(l) \/ Start(l) \/ Stray(l) \/ \E p \in Phys : Rot(l, p)
      PROVE  Trying /\ UNCHANGED <<req, todo, ext, USE_MIRROR, driver, got>> /\ Waiting' = Waiting
  BY <1>3 DEF Refuse, Fail, Crash, Start, Stray, Rot, request, exchange, Trying, Waiting
<1>4. CASE Event
  <2>1. Trying /\ UNCHANGED <<req, todo, ext, USE_MIRROR, got>> /\ Waiting' = Waiting
    BY <1>4 DEF Event, request, exchange, Trying, Waiting
  <2>2. \A w \in Which : driver'[w].label = driver[w].label /\ driver'[w].endpt = driver[w].endpt
    <3>1. driver' = driver
          \/ \E v \in Which : driver' = [driver EXCEPT ![v].up_event =
                                 IF @ = "UP_EXPECTED" THEN "UP_NONE" ELSE "UP_PENDING"]
      BY <1>4, Names DEF Event, ds_event
    <3> QED BY <3>1 DEF ControlInv, Types, DriverState
  <2> QED BY <2>1, <2>2
<1>5. ASSUME NEW w \in Which, flt_receive(w)
      PROVE  Trying /\ UNCHANGED <<req, todo, ext, USE_MIRROR, driver, got>> /\ Waiting' = Waiting
  <2>1. /\ pc[1] = "wait" /\ pc' = IF await' = {} THEN <<"evaluate", pc[2]>> ELSE pc
        /\ UNCHANGED <<req, todo, ext, USE_MIRROR, driver, got>>
    BY <1>5 DEF flt_receive, request
  <2> QED BY <2>1 DEF Trying, Waiting
<1>6. CASE Request
  <2>1. pc[1] = "idle" /\ Transfer(req') /\ disk' = disk
    BY <1>6, Begun
  <2> QED BY <2>1 DEF Trying, Waiting
<1>7. CASE read_write
  <2>1. /\ pc[1] = "send" /\ UNCHANGED <<USE_MIRROR>>
        /\ \/ pc' = <<"check", DRIVER_MAIN, 1>>
           \/ /\ got' = [w \in Which |-> NONE]
              /\ ext' = IF What = "FLT_WRITE" THEN make_sum(req.first, req.n, ext) ELSE ext
              /\ UNCHANGED <<disk, driver, req, todo>>
    BY <1>7 DEF read_write, Redo, external, What
  <2> QED BY <2>1 DEF Trying, Waiting
<1>8. CASE Timeout \/ Reply
  <2>1. pc' = <<"check", DRIVER_MAIN, 1>> \/ pc' = <<"idle">>
    BY <1>8 DEF Timeout, Redo, Reply
  <2> QED BY <2>1 DEF Trying, Waiting
<1>9. CASE Evaluate
  <2>1. Waiting /\ Trying /\ disk' = disk /\ USE_MIRROR' = USE_MIRROR
    BY <1>9, Outcomes DEF Waiting, Trying, Revoke
  <2>2. ASSUME NEW b, Next_io(b)
        PROVE  ~Waiting' /\ UNCHANGED <<req, driver>> /\ ext' = b /\ todo' = Tail(todo)
    BY <2>2 DEF Next_io, Waiting
  <2>3. What = "FLT_WRITE" => req.op = "FLT_WRITE"
    BY <2>1, Operation DEF ControlInv
  <2>4. What = "FLT_READ" /\ req.op = "FLT_WRITE" => Head(Tail(todo)).what # "FLT_READ2"
    BY <2>1, AfterRead DEF ControlInv
  <2>5. ~(\E d : Redo(d)) /\ ~Answer("OK", driver)
    <3>1. ASSUME NEW d, Redo(d) PROVE FALSE
      BY <3>1 DEF Redo, Trying, Waiting
    <3> QED BY <3>1 DEF Answer, Trying, Waiting
  <2>6. /\ \A w \in SentTo : ~Unserved(w)
        /\ \/ What = "FLT_WRITE" /\ Next_io(ext)
           \/ /\ What = "FLT_READ" /\ req.op = "FLT_WRITE"
              /\ Next_io([p \in DOMAIN ext \cup Head(todo).at |->
                            IF p \in Head(todo).at THEN got[DRIVER_MAIN][p] ELSE ext[p]])
    BY <1>9, <2>5, Outcomes
  <2> QED BY <2>1, <2>2, <2>3, <2>4, <2>6 DEF Unserved, What
<1>10. ASSUME NEW w \in Which, Return(w), disk' = disk, pc[1] \in {"check", "restart"}, req' = req
       PROVE  ~Trying /\ Transfer(req') /\ disk' = disk
  <2>1. w # DRIVER_MAIN
    <3>1. pc' = IF w = DRIVER_MAIN THEN <<"check", DRIVER_BACKUP, 1>> ELSE <<"send">>
      BY <1>10, ReturnControl
    <3> QED BY <3>1 DEF Trying, Waiting
  <2> QED BY <1>10, <2>1 DEF Return, Trying, Waiting
<1>11. ASSUME NEW w \in Which, NEW n \in 1 .. 2, check_driver(w, n)
       PROVE  ~Trying /\ Transfer(req') /\ disk' = disk
  <2>1. pc[1] = "check" /\ disk' = disk /\ req' = req /\ (Return(w) \/ pc'[1] \in {"restart", "reply"})
    BY <1>11, CheckOutcomes DEF Answer
  <2> QED BY <1>10, <2>1 DEF Trying, Waiting
<1>12. ASSUME NEW w \in Which, restart_driver(w)
       PROVE  ~Trying /\ Transfer(req') /\ disk' = disk
  <2>1. pc[1] = "restart" /\ disk' = disk /\ req' = req /\ (Return(w) \/ pc' = <<"check", w, 2>>)
    BY <1>12 DEF restart_driver, external
  <2> QED BY <1>10, <2>1 DEF Trying, Waiting
<1> QED BY <1>1, <1>2, <1>3, <1>4, <1>5, <1>6, <1>7, <1>8, <1>9, <1>11, <1>12, Steps

\* A disk that the filter has lost has done something wrong.
LEMMA StillUsed ==
    ASSUME ControlInv, LostFaulty, NEW l \in Label \ faulty
    PROVE  /\ l \in Used
           /\ ~USE_MIRROR => driver[DRIVER_MAIN].label = l
           /\ l = MAIN_LABEL => driver[DRIVER_MAIN].label = l /\ driver[DRIVER_MAIN].endpt = l
<1>1. l \in Used
  BY DEF LostFaulty
<1> QED BY <1>1, Names DEF Used, ControlInv, Drivers

\* Where the data and the checksum of a sector are on a disk.
LEMMA OnADisk ==
    ASSUME ContentsInv, NEW l \in Label, NEW nr \in Logical
    PROVE  /\ DOMAIN disk[l] = Phys /\ HasData(disk[l], nr) /\ HasEntry(disk[l], nr)
           /\ LOG2PHYS(nr) \in Phys /\ SEC2SUM_NR(nr) \in Phys
<1>1. DOMAIN disk[l] = Phys
  BY FilledFacts DEF ContentsInv, Sectors
<1> QED BY <1>1, PlacesOnDisk DEF HasData, HasEntry

\* What a write that is served has put on a disk.
LEMMA ServedWrite ==
    ASSUME ControlInv, ContentsInv, NEW l \in Label, NEW w \in Which, Sent(l, w, "valid"), What = "FLT_WRITE"
    PROVE  /\ Waiting /\ Trying /\ req.op = "FLT_WRITE" /\ w \in SentTo /\ driver[w].endpt = l
           /\ Head(todo).at = At /\ DOMAIN ext = At /\ At \subseteq Phys
<1>1. Waiting /\ Trying /\ w \in SentTo /\ driver[w].endpt = l
  BY Asking DEF Trying
<1>2. req.op = "FLT_WRITE" /\ Head(todo).at = At /\ pc[1] # "send" /\ pc[1] # "idle"
  BY <1>1, Operation DEF ControlInv, Waiting
<1>3. DOMAIN ext = At
  BY <1>1, <1>2 DEF ContentsInv, ExtSums, Made
<1> QED BY <1>1, <1>2, <1>3, RequestOnDisk DEF ControlInv

\* A main disk without a fault has no rot, and make_sum copies none from it.
LEMMA NextMainClean ==
    ASSUME ControlInv, ControlInv', ContentsInv, ContentsInv', LostFaulty, MainClean, Exact, [Next]_vars
    PROVE  MainClean'
<1> SUFFICES ASSUME MAIN_LABEL \notin faulty', NEW nr \in Logical
             PROVE  /\ ~Spoiled(disk'[MAIN_LABEL], nr)
                    /\ Trying' /\ req'.op = "FLT_WRITE" =>
                          /\ HasData(ext', nr) => Data(ext', nr) # Junk
                          /\ HasEntry(ext', nr) => Entry(ext', nr) # Junk
  BY DEF MainClean
<1>1. MAIN_LABEL \in Label \ faulty /\ MAIN_LABEL \in Label \ faulty'
  BY StillFaulty, Names
<1>2. /\ ~Spoiled(disk[MAIN_LABEL], nr)
      /\ Trying /\ req.op = "FLT_WRITE" =>
            /\ HasData(ext, nr) => Data(ext, nr) # Junk
            /\ HasEntry(ext, nr) => Entry(ext, nr) # Junk
  BY <1>1 DEF MainClean
<1>3. ~Spoiled(disk'[MAIN_LABEL], nr)
  <2>1. CASE disk'[MAIN_LABEL] = disk[MAIN_LABEL]
    BY <1>2, <2>1
  <2>2. CASE disk'[MAIN_LABEL] # disk[MAIN_LABEL]
    <3>1. PICK w \in Which :
             /\ Sent(MAIN_LABEL, w, "valid") /\ What = "FLT_WRITE"
             /\ \A p \in Phys : disk'[MAIN_LABEL][p] = IF p \in At THEN ext[p] ELSE disk[MAIN_LABEL][p]
      BY <1>1, <2>2, FaultlessDisk
    <3>2. Trying /\ req.op = "FLT_WRITE" /\ DOMAIN ext = At
      BY <1>1, <3>1, ServedWrite
    <3>3. LOG2PHYS(nr) \in Phys /\ SEC2SUM_NR(nr) \in Phys
      BY PlacesOnDisk
    <3> QED BY <1>2, <3>1, <3>2, <3>3 DEF Spoiled, Data, Entry, HasData, HasEntry
  <2> QED BY <2>1, <2>2
<1>4. ASSUME Trying', req'.op = "FLT_WRITE"
      PROVE  /\ HasData(ext', nr) => Data(ext', nr) # Junk
             /\ HasEntry(ext', nr) => Entry(ext', nr) # Junk
  <2>1. CASE Trying /\ req' = req /\ ext' = ext
    BY <1>2, <1>4, <2>1
  <2>2. CASE Trying /\ req' = req /\ What = "FLT_WRITE" /\ ext' = make_sum(req.first, req.n, ext)
    <3>1. /\ \A m \in Spanned : Entry(ext', m) = calc_sum(m, req.data)
          /\ HasEntry(ext', nr) /\ nr \notin Spanned => HasEntry(ext, nr) /\ Entry(ext', nr) = Entry(ext, nr)
          /\ HasData(ext', nr) => HasData(ext, nr) /\ Data(ext', nr) = Data(ext, nr)
      BY <2>2, SummedBuffer
    <3>2. calc_sum(nr, req.data) # Junk
      <4>1. req.data \in Value
        BY <2>2 DEF ControlInv, Asked, Trying, Waiting
      <4>2. calc_sum(nr, req.data) \in Sum
        BY <4>1 DEF Sum
      <4> QED BY <4>2, FilterAssumption
    <3> QED BY <1>2, <1>4, <2>2, <3>1, <3>2
  <2>3. CASE /\ Waiting /\ req' = req /\ What = "FLT_READ" /\ got[DRIVER_MAIN] # NONE
             /\ ext' = [p \in DOMAIN ext \cup Head(todo).at |->
                          IF p \in Head(todo).at THEN got[DRIVER_MAIN][p] ELSE ext[p]]
    <3> DEFINE at == Head(todo).at
    <3>1. /\ DRIVER_MAIN \in SentTo /\ driver[DRIVER_MAIN].endpt = MAIN_LABEL
      BY <1>1, StillUsed, Reached DEF ControlInv
    <3>2. \A p \in at : disk[MAIN_LABEL][p] = got[DRIVER_MAIN][p]
      BY <1>1, <2>3, <3>1 DEF Exact
    <3>3. Trying
      BY <2>3 DEF Trying
    <3> HIDE DEF at
    <3>4. /\ DOMAIN ext' = DOMAIN ext \cup at
          /\ \A p \in at : ext'[p] = disk[MAIN_LABEL][p]
          /\ \A p \in DOMAIN ext \ at : ext'[p] = ext[p]
      BY <2>3, <3>2 DEF at
    <3>5. HasData(ext', nr) => Data(ext', nr) # Junk
      BY <1>2, <1>4, <2>3, <3>3, <3>4 DEF HasData, Data, Spoiled
    <3>6. HasEntry(ext', nr) => Entry(ext', nr) # Junk
      BY <1>2, <1>4, <2>3, <3>3, <3>4 DEF HasEntry, Entry, Spoiled
    <3> QED BY <3>5, <3>6
  <2>4. CASE Transfer(req')
    <3>1. /\ ~HasEntry(ext', nr)
          /\ HasData(ext', nr) => Data(ext', nr) = req'.data
      BY <1>4, <2>4, TransferBuffer
    <3>2. req'.data \in Value
      BY <1>4, <2>4 DEF ControlInv, Asked, Transfer
    <3> QED BY <3>1, <3>2, FilterAssumption
  <2>5. \/ Trying /\ req' = req /\ ext' = ext
        \/ Trying /\ req' = req /\ What = "FLT_WRITE" /\ ext' = make_sum(req.first, req.n, ext)
        \/ /\ Waiting /\ req' = req /\ What = "FLT_READ" /\ got[DRIVER_MAIN] # NONE
           /\ ext' = [p \in DOMAIN ext \cup Head(todo).at |->
                          IF p \in Head(todo).at THEN got[DRIVER_MAIN][p] ELSE ext[p]]
        \/ Transfer(req')
    BY <1>4, TryingSteps, Reached DEF ControlInv, Trying
  <2> QED BY <2>1, <2>2, <2>3, <2>4, <2>5
<1> QED BY <1>3, <1>4

\* What a driver that has done nothing wrong has read is what is on its disk,
\* and what it has been sent is there.
LEMMA NextExact ==
    ASSUME ControlInv, ControlInv', ContentsInv, ContentsInv', Exact, [Next]_vars
    PROVE  Exact'
<1> SUFFICES ASSUME Waiting', NEW w \in SentTo', got'[w] # NONE, driver'[w].endpt \notin faulty',
                    NEW p \in Head(todo').at
             PROVE  disk'[driver'[w].endpt][p] = IF What' = "FLT_WRITE" THEN ext'[p] ELSE got'[w][p]
  BY DEF Exact
<1>1. w \in Which
  <2>1. (Types /\ Drivers => SentTo \subseteq Which)'
    BY Reached, PTL
  <2> QED BY <2>1 DEF ControlInv
<1>2. /\ Trying /\ UNCHANGED <<req, todo, ext, USE_MIRROR>> /\ Waiting
      /\ driver'[w].endpt = driver[w].endpt
      /\ got' = got \/ \E l \in Label, v \in Which : Serve(l, v)
  <2>1. Trying'
    BY DEF Trying
  <2>2. ~Transfer(req')
    BY TransferBuffer
  <2> QED BY <1>1, <2>1, <2>2, TryingSteps
<1>3. What' = What /\ SentTo' = SentTo
  BY <1>2 DEF What, SentTo
<1> DEFINE l == driver[w].endpt
<1>4. l \in Label /\ l \in Label \ faulty' /\ l \notin faulty /\ w \in SentTo
  BY <1>2, <1>3, StillFaulty, Reached DEF ControlInv
<1>5. p \in At => p \in Phys
  BY <1>2, RequestOnDisk DEF ControlInv, Waiting
<1>6. DOMAIN disk = Label /\ DOMAIN got = Which
  BY DEF ControlInv, ContentsInv, Types, Sectors
<1>7. got[w] # NONE => disk[l][p] = IF What = "FLT_WRITE" THEN ext[p] ELSE got[w][p]
  BY <1>2, <1>4 DEF Exact
<1>8. ASSUME NEW k \in Label, NEW v \in Which, Serve(k, v)
      PROVE  disk'[l][p] = IF What = "FLT_WRITE" THEN ext[p] ELSE got'[w][p]
  <2>1. /\ Sent(k, v, "valid")
        /\ got' = [got EXCEPT ![v] = IF Writing THEN <<>> ELSE Restrict(disk[k], Head(todo).at)]
        /\ disk' = IF Writing THEN Written(k, Head(todo).at) ELSE disk
        /\ Writing <=> What = "FLT_WRITE"
    BY <1>8 DEF Serve, Writing, What
  <2>2. v \in SentTo /\ driver[v].endpt = k /\ (k = l => v = w)
    BY <1>4, <2>1, Asking
  <2>3. CASE v = w
    <3>1. k = l
      BY <2>2, <2>3
    <3>2. CASE What = "FLT_WRITE"
      <4>1. Head(todo).at = At /\ disk' = Written(l, At)
        BY <2>1, <3>1, <3>2, ServedWrite
      <4>2. p \in Phys /\ p \in At
        BY <1>2, <1>5, <4>1
      <4> QED BY <1>4, <1>6, <3>2, <4>1, <4>2 DEF Written
    <3>3. CASE What # "FLT_WRITE"
      <4>1. disk' = disk /\ got'[w] = Restrict(disk[l], Head(todo).at)
        BY <1>1, <1>6, <2>1, <2>3, <3>1, <3>3
      <4> QED BY <1>2, <3>3, <4>1 DEF Restrict
    <3> QED BY <3>2, <3>3
  <2>4. CASE v # w
    <3>1. k # l /\ got'[w] = got[w]
      BY <1>1, <1>6, <2>1, <2>2, <2>4
    <3>2. disk'[l] = disk[l]
      BY <1>4, <1>6, <2>1, <3>1 DEF Written
    <3> QED BY <1>7, <3>1, <3>2
  <2> QED BY <2>3, <2>4
<1>9. CASE \A k \in Label, v \in Which : ~Serve(k, v)
  <2>1. got' = got
    BY <1>2, <1>9
  <2>2. disk'[l] = disk[l]
    BY <1>4, <1>9, FaultlessDisk
  <2> QED BY <1>2, <1>3, <1>7, <2>1, <2>2
<1> QED BY <1>2, <1>3, <1>8, <1>9

\* When what has been written is read back it is on the disks that have done
\* nothing wrong.
LEMMA NextCopied ==
    ASSUME ControlInv, ControlInv', ContentsInv, ContentsInv', Exact, Copied, [Next]_vars
    PROVE  Copied'
<1> SUFFICES ASSUME Trying', What' = "FLT_READ2", NEW l \in (Used \ faulty)', NEW p \in At'
             PROVE  disk'[l][p] = ext'[p]
  BY DEF Copied
<1>1. l \in Label /\ l \in Label \ faulty' /\ l \notin faulty
  <2>1. (Types /\ Drivers => Used \subseteq Label)'
    BY Reached, PTL
  <2> QED BY <2>1, StillFaulty DEF ControlInv
<1>2. ~Transfer(req')
  BY TransferBuffer
<1>3. CASE /\ Trying /\ UNCHANGED <<req, todo, ext, USE_MIRROR>>
           /\ \A w \in Which : driver'[w].label = driver[w].label /\ driver'[w].endpt = driver[w].endpt
  <2>1. What = "FLT_READ2" /\ Used' = Used /\ At' = At
    BY <1>3, Names DEF What, Used, At
  <2>2. disk[l][p] = ext[p]
    BY <1>1, <1>3, <2>1 DEF Copied
  <2>3. disk'[l] = disk[l]
    BY <1>1, <2>1, FaultlessDisk
  <2> QED BY <1>3, <2>2, <2>3
<1>4. CASE /\ pc[1] = "send" /\ UNCHANGED <<disk, req, todo, driver, USE_MIRROR>>
           /\ ext' = IF What = "FLT_WRITE" THEN make_sum(req.first, req.n, ext) ELSE ext
  <2>1. What = "FLT_READ2" /\ Used' = Used /\ At' = At /\ Trying
    BY <1>4 DEF What, Used, At, Trying
  <2> QED BY <1>1, <1>4, <2>1 DEF Copied
<1>5. CASE /\ Waiting /\ UNCHANGED <<disk, req, driver, USE_MIRROR>>
           /\ \A w \in SentTo : got[w] # NONE
           /\ What = "FLT_WRITE" /\ ext' = ext
  <2>1. Used' = Used /\ At' = At /\ Trying
    BY <1>5 DEF Used, At, Trying
  <2>2. PICK w \in SentTo : driver[w].endpt = l
    BY <1>5, <2>1, AllSent DEF ControlInv
  <2>3. Head(todo).at = At
    BY <1>5, <2>1, Operation DEF ControlInv
  <2>4. disk[l][p] = ext[p]
    BY <1>1, <1>5, <2>1, <2>2, <2>3 DEF Exact
  <2> QED BY <1>5, <2>4
<1> QED BY <1>2, <1>3, <1>4, <1>5, TryingSteps

\* How the write of a request comes to its end.
LEMMA EndOfWrite ==
    ASSUME ControlInv, [Next]_vars, pc[1] # "reply", req.op = "FLT_WRITE"
    PROVE  /\ req' = req
           /\ \/ pc'[1] # "reply"
              \/ /\ Waiting /\ Trying /\ What = "FLT_READ2" /\ disk' = disk
                 /\ \A w \in SentTo : got[w] = ext /\ got[w] # NONE
              \/ \E w \in Which, n \in 1 .. 2 : check_driver(w, n)
<1>1. pc[1] # "idle"
  <2>1. req # NoRequest
    BY DEF NoRequest
  <2> QED BY <2>1 DEF ControlInv, Asked
<1>2. CASE UNCHANGED vars
  BY <1>2 DEF vars, request
<1>3. ASSUME NEW l \in Label,
             (\E w \in Which : Serve(l, w)) \/ Refuse(l) \/ Fail(l) \/ Crash(l) \/ Start(l) \/ Stray(l)
                \/ \E p \in Phys : Rot(l, p)
      PROVE  UNCHANGED <<pc, req>>
  BY <1>3 DEF Serve, Refuse, Fail, Crash, Start, Stray, Rot, request
<1>4. CASE Event
  BY <1>4 DEF Event, request
<1>5. ASSUME NEW w \in Which, flt_receive(w)
      PROVE  req' = req /\ pc'[1] # "reply"
  BY <1>5 DEF flt_receive, request
<1>6. CASE read_write \/ Timeout
  BY <1>6 DEF read_write, Timeout, Redo
<1>7. CASE Evaluate
  <2>1. Waiting /\ Trying /\ disk' = disk
    BY <1>7, Outcomes DEF Waiting, Trying, Revoke
  <2>2. req' = req
    BY <1>7, Outcomes DEF Redo, Next_io, Answer
  <2>3. \/ pc'[1] # "reply"
        \/ What = "FLT_READ2" /\ \A w \in SentTo : got[w] = ext /\ ~Unserved(w)
    BY <1>7, Outcomes DEF Redo, Next_io
  <2> QED BY <2>1, <2>2, <2>3 DEF Unserved
<1>8. ASSUME NEW w \in Which, restart_driver(w)
      PROVE  req' = req /\ pc'[1] # "reply"
  <2>1. pc[1] = "restart" /\ req' = req /\ (Return(w) \/ pc' = <<"check", w, 2>>)
    BY <1>8 DEF restart_driver
  <2>2. Return(w) => pc' = <<"check", DRIVER_BACKUP, 1>> \/ pc' = <<"send">>
    BY <2>1, ReturnControl
  <2> QED BY <2>1, <2>2
<1>9. ~Request /\ ~Reply
  BY <1>1 DEF Request, do_rdwt, Reply
<1>10. ASSUME NEW w \in Which, NEW n \in 1 .. 2, check_driver(w, n)
       PROVE  req' = req
  BY <1>10, CheckOutcomes
<1> QED BY <1>2, <1>3, <1>4, <1>5, <1>6, <1>7, <1>8, <1>9, <1>10, Steps

\* A sector that has been written and read back shows what was written.
LEMMA WrittenShows ==
    ASSUME ControlInv, ContentsInv, Waiting, Trying, What = "FLT_READ2", NEW nr \in Spanned,
           \A w \in SentTo : got[w] = ext /\ got[w] # NONE, NEW l \in Used
    PROVE  Shows(disk[l], nr, req.data)
<1>1. PICK w \in SentTo : driver[w].endpt = l
  BY AllSent DEF ControlInv
<1>2. \A p \in At : disk[l][p] = ext[p] \/ Rotted(l, p)
  BY <1>1 DEF ContentsInv, ReadBack
<1>3. req.op = "FLT_WRITE" /\ Made /\ pc[1] # "idle"
  BY Operation DEF ControlInv, Made, Waiting
<1>4. DOMAIN ext = At /\ Data(ext, nr) = req.data /\ Entry(ext, nr) = calc_sum(nr, req.data)
  BY <1>3 DEF ContentsInv, ExtSums
<1>5. nr \in Logical /\ LOG2PHYS(nr) \in At /\ SEC2SUM_NR(nr) \in At
  BY <1>3, RequestOnDisk, InBuffer DEF ControlInv, Asked, Spanned, At
<1>6. Rotten(LOG2PHYS(nr)) = Junk /\ Rotten(SEC2SUM_NR(nr))[nr % NR_SUM_SEC] = Junk
  BY <1>5, PlacesOnDisk DEF Rotten
<1>7. Data(disk[l], nr) \in {req.data, Junk}
  BY <1>2, <1>4, <1>5, <1>6 DEF Data, Rotted
<1>8. Entry(disk[l], nr) \in {calc_sum(nr, req.data), Junk}
  BY <1>2, <1>4, <1>5, <1>6 DEF Entry, Rotted
<1> QED BY <1>7, <1>8 DEF Shows

\* A disk still shows what it and the buffer did.
LEMMA DiskShows ==
    ASSUME ControlInv, ContentsInv, [Next]_vars, NEW nr \in Logical, NEW v \in Value, NEW l \in Used,
           Shows(disk[l], nr, v), Trying /\ req.op = "FLT_WRITE" => Shows(ext, nr, v)
    PROVE  Shows(disk'[l], nr, v)
<1>1. l \in Label /\ DOMAIN disk = Label
  BY Reached DEF ControlInv, ContentsInv, Sectors
<1>2. /\ DOMAIN disk[l] = Phys /\ LOG2PHYS(nr) \in Phys /\ SEC2SUM_NR(nr) \in Phys
      /\ HasData(disk[l], nr) /\ HasEntry(disk[l], nr)
  BY <1>1, OnADisk
<1>3. Data(disk[l], nr) \in {v, Junk} /\ Entry(disk[l], nr) \in {calc_sum(nr, v), Junk}
  BY <1>2 DEF Shows
<1>4. CASE disk'[l] = disk[l]
  BY <1>4
<1>5. ASSUME NEW w \in Which, NEW places \in SUBSET At, Sent(l, w, "valid"), What = "FLT_WRITE",
             disk' = Written(l, places)
      PROVE  Shows(disk'[l], nr, v)
  <2>1. DOMAIN ext = At /\ Shows(ext, nr, v)
    BY <1>1, <1>5, ServedWrite
  <2>2. \A p \in Phys : disk'[l][p] = IF p \in places THEN ext[p] ELSE disk[l][p]
    BY <1>1, <1>5 DEF Written
  <2>3. Data(disk'[l], nr) \in {v, Junk}
    BY <1>2, <1>3, <1>5, <2>1, <2>2 DEF Data, Shows, HasData
  <2>4. Entry(disk'[l], nr) \in {calc_sum(nr, v), Junk}
    BY <1>2, <1>3, <1>5, <2>1, <2>2 DEF Entry, Shows, HasEntry
  <2> QED BY <2>3, <2>4 DEF Shows
<1>6. ASSUME NEW p \in Phys, disk' = [disk EXCEPT ![l][p] = Rotten(p)]
      PROVE  Shows(disk'[l], nr, v)
  <2>1. \A q \in Phys : disk'[l][q] = disk[l][q] \/ disk'[l][q] = Rotten(q)
    BY <1>1, <1>2, <1>6
  <2>2. Rotten(LOG2PHYS(nr)) = Junk /\ Rotten(SEC2SUM_NR(nr))[nr % NR_SUM_SEC] = Junk
    BY PlacesOnDisk DEF Rotten
  <2>3. Data(disk'[l], nr) \in {v, Junk}
    BY <1>2, <1>3, <2>1, <2>2 DEF Data
  <2>4. Entry(disk'[l], nr) \in {calc_sum(nr, v), Junk}
    BY <1>2, <1>3, <2>1, <2>2 DEF Entry
  <2> QED BY <2>3, <2>4 DEF Shows
<1>7. ASSUME NEW k \in Label, k # l, NEW places, disk' = Written(k, places)
      PROVE  disk'[l] = disk[l]
  BY <1>1, <1>7 DEF Written
<1>8. ASSUME NEW k \in Label, k # l, NEW p, disk' = [disk EXCEPT ![k][p] = Rotten(p)]
      PROVE  disk'[l] = disk[l]
  BY <1>1, <1>8
<1> QED BY <1>4, <1>5, <1>6, <1>7, <1>8, DiskSteps

\* So does the buffer of a write to other sectors.
LEMMA BufferShows ==
    ASSUME ControlInv, ControlInv', ContentsInv, [Next]_vars, Trying', req'.op = "FLT_WRITE",
           NEW nr \in Logical, nr \notin InWrite, nr \notin InWrite', NEW v \in Value,
           Trying /\ req.op = "FLT_WRITE" => Shows(ext, nr, v),
           Waiting /\ What = "FLT_READ" /\ got[DRIVER_MAIN] # NONE => Shows(got[DRIVER_MAIN], nr, v)
    PROVE  Shows(ext', nr, v)
<1>1. CASE Trying /\ req' = req /\ ext' = ext
  BY <1>1
<1>2. CASE Trying /\ req' = req /\ What = "FLT_WRITE" /\ ext' = make_sum(req.first, req.n, ext)
  <2>1. nr \notin Spanned
    BY <1>2 DEF InWrite, Trying, Waiting
  <2>2. /\ HasEntry(ext', nr) => HasEntry(ext, nr) /\ Entry(ext', nr) = Entry(ext, nr)
        /\ HasData(ext', nr) => HasData(ext, nr) /\ Data(ext', nr) = Data(ext, nr)
    BY <1>2, <2>1, SummedBuffer
  <2> QED BY <1>2, <2>2 DEF Shows
<1>3. CASE /\ Waiting /\ req' = req /\ What = "FLT_READ" /\ got[DRIVER_MAIN] # NONE
           /\ ext' = [p \in DOMAIN ext \cup Head(todo).at |->
                        IF p \in Head(todo).at THEN got[DRIVER_MAIN][p] ELSE ext[p]]
  <2> DEFINE at == Head(todo).at
             b == got[DRIVER_MAIN]
  <2>1. DOMAIN b = at
    <3>1. Filled(b, at)
      BY <1>3, Names DEF ContentsInv, Sectors
    <3> QED BY <3>1, FilledFacts
  <2>2. Shows(ext, nr, v) /\ Shows(b, nr, v)
    BY <1>3 DEF Trying
  <2> HIDE DEF at, b
  <2>3. /\ DOMAIN ext' = DOMAIN ext \cup at
        /\ \A p \in at : ext'[p] = b[p]
        /\ \A p \in DOMAIN ext \ at : ext'[p] = ext[p]
    BY <1>3 DEF at, b
  <2>4. HasData(ext', nr) => Data(ext', nr) \in {v, Junk}
    BY <2>1, <2>2, <2>3 DEF Shows, HasData, Data
  <2>5. HasEntry(ext', nr) => Entry(ext', nr) \in {calc_sum(nr, v), Junk}
    BY <2>1, <2>2, <2>3 DEF Shows, HasEntry, Entry
  <2> QED BY <2>4, <2>5 DEF Shows
<1>4. CASE Transfer(req')
  <2>1. /\ ~HasEntry(ext', nr)
        /\ HasData(ext', nr) => nr \in Spanned'
    BY <1>4, TransferBuffer
  <2>2. pc'[1] # "reply"
    BY <1>4 DEF Transfer
  <2> QED BY <2>1, <2>2 DEF Shows, InWrite
<1>5. \/ Trying /\ req' = req /\ ext' = ext
      \/ Trying /\ req' = req /\ What = "FLT_WRITE" /\ ext' = make_sum(req.first, req.n, ext)
      \/ /\ Waiting /\ req' = req /\ What = "FLT_READ" /\ got[DRIVER_MAIN] # NONE
         /\ ext' = [p \in DOMAIN ext \cup Head(todo).at |->
                        IF p \in Head(todo).at THEN got[DRIVER_MAIN][p] ELSE ext[p]]
      \/ Transfer(req')
  BY TryingSteps, Reached DEF ControlInv, Trying
<1> QED BY <1>1, <1>2, <1>3, <1>4, <1>5

\* And what is read.
LEMMA ReadShows ==
    ASSUME ControlInv, ControlInv', ContentsInv, [Next]_vars, Waiting', What' = "FLT_READ", got'[DRIVER_MAIN] # NONE,
           NEW nr \in Logical, NEW v \in Value, \A l \in Used : Shows(disk[l], nr, v),
           Waiting /\ What = "FLT_READ" /\ got[DRIVER_MAIN] # NONE => Shows(got[DRIVER_MAIN], nr, v)
    PROVE  Shows(got'[DRIVER_MAIN], nr, v)
<1>1. Trying /\ todo' = todo /\ Waiting /\ (got' = got \/ \E l \in Label, w \in Which : Serve(l, w))
  <2>1. Trying'
    BY DEF Trying
  <2>2. ~Transfer(req')
    BY TransferBuffer
  <2> QED BY <2>1, <2>2, Names, TryingSteps
<1>2. What = "FLT_READ" /\ DOMAIN got = Which
  BY <1>1 DEF What, ControlInv, Types
<1>3. CASE got'[DRIVER_MAIN] = got[DRIVER_MAIN]
  BY <1>1, <1>2, <1>3
<1>4. ASSUME NEW l \in Label, NEW w \in Which, Serve(l, w)
      PROVE  Shows(got'[DRIVER_MAIN], nr, v)
  <2>1. /\ Sent(l, w, "valid")
        /\ got' = [got EXCEPT ![w] = IF Writing THEN <<>> ELSE Restrict(disk[l], Head(todo).at)]
        /\ ~Writing
    BY <1>2, <1>4 DEF Serve, Writing, What
  <2>2. CASE w # DRIVER_MAIN
    BY <1>2, <1>3, <2>1, <2>2
  <2>3. CASE w = DRIVER_MAIN
    <3>1. got'[DRIVER_MAIN] = [p \in Head(todo).at |-> disk[l][p]]
      BY <1>2, <2>1, <2>3 DEF Restrict
    <3>2. Shows(disk[l], nr, v)
      BY <2>1, Asking
    <3>3. HasData(disk[l], nr) /\ HasEntry(disk[l], nr)
      BY OnADisk
    <3> QED BY <3>1, <3>2, <3>3 DEF Shows, HasData, HasEntry, Data, Entry
  <2> QED BY <2>2, <2>3
<1> QED BY <1>1, <1>3, <1>4

\* What a disk that has done nothing wrong is sent is whole, the sectors that
\* are being written included.
LEMMA NextWhole ==
    ASSUME ControlInv, ContentsInv, LostFaulty, Same, Whole, [Next]_vars
    PROVE  Whole'
<1> SUFFICES ASSUME NEW l \in Label \ faulty', NEW nr \in Logical
             PROVE  \E v \in Value : Shows(disk'[l], nr, v)
  BY DEF Whole
<1>1. l \in Label \ faulty
  BY StillFaulty
<1>2. CASE disk'[l] = disk[l]
  BY <1>1, <1>2 DEF Whole
<1>3. ASSUME disk'[l] # disk[l], nr \notin InWrite
      PROVE  \E v \in Value : Shows(disk'[l], nr, v)
  <2>1. l \in Used /\ Healthy
    BY <1>1, StillUsed DEF Healthy
  <2>2. PICK v \in Value :
           /\ Shows(disk[l], nr, v)
           /\ Trying /\ req.op = "FLT_WRITE" => Shows(ext, nr, v)
    BY <1>3, <2>1 DEF Same
  <2> QED BY <2>1, <2>2, DiskShows
<1>4. ASSUME disk'[l] # disk[l], nr \in InWrite
      PROVE  Shows(disk'[l], nr, req.data) /\ req.data \in Value
  <2>1. PICK w \in Which :
           /\ Sent(l, w, "valid") /\ What = "FLT_WRITE"
           /\ \A p \in Phys : disk'[l][p] = IF p \in At THEN ext[p] ELSE disk[l][p]
    BY <1>4, FaultlessDisk
  <2>2. Waiting /\ Trying /\ req.op = "FLT_WRITE" /\ DOMAIN ext = At /\ At \subseteq Phys
    BY <2>1, ServedWrite
  <2>3. nr \in Spanned /\ nr \in Span(req.first, req.n) /\ Made
    BY <1>4, <2>1, <2>2 DEF InWrite, Spanned, Made, Waiting
  <2>4. Data(ext, nr) = req.data /\ Entry(ext, nr) = calc_sum(nr, req.data)
    BY <2>2, <2>3 DEF ContentsInv, ExtSums
  <2>5. Asked /\ pc[1] # "idle"
    BY <2>2 DEF ControlInv, Waiting
  <2>6. LOG2PHYS(nr) \in At /\ SEC2SUM_NR(nr) \in At /\ req.data \in Value
    BY <2>3, <2>5, InBuffer DEF Asked, At
  <2>7. Data(disk'[l], nr) = req.data /\ Entry(disk'[l], nr) = calc_sum(nr, req.data)
    BY <2>1, <2>2, <2>4, <2>6 DEF Data, Entry
  <2> QED BY <2>6, <2>7 DEF Shows
<1> QED BY <1>2, <1>3, <1>4

\* Apart from the sectors that are being written, all that is in use shows the
\* same data, but for rot.
LEMMA NextSame ==
    ASSUME ControlInv, ControlInv', ContentsInv, Same, Whole', [Next]_vars
    PROVE  Same'
<1> SUFFICES ASSUME Healthy', NEW nr \in Logical \ InWrite'
             PROVE  \E v \in Value :
                       /\ \A l \in Used' : Shows(disk'[l], nr, v)
                       /\ Trying' /\ req'.op = "FLT_WRITE" => Shows(ext', nr, v)
                       /\ Waiting' /\ What' = "FLT_READ" /\ got'[DRIVER_MAIN] # NONE =>
                             Shows(got'[DRIVER_MAIN], nr, v)
  BY DEF Same
<1>1. Healthy
  BY FewerUsed, StillFaulty DEF Healthy
<1>2. CASE nr \notin InWrite
  <2>1. PICK v \in Value :
           /\ \A l \in Used : Shows(disk[l], nr, v)
           /\ Trying /\ req.op = "FLT_WRITE" => Shows(ext, nr, v)
           /\ Waiting /\ What = "FLT_READ" /\ got[DRIVER_MAIN] # NONE => Shows(got[DRIVER_MAIN], nr, v)
    BY <1>1, <1>2 DEF Same
  <2>2. \A l \in Used' : Shows(disk'[l], nr, v)
    BY <2>1, FewerUsed, DiskShows
  <2>3. Trying' /\ req'.op = "FLT_WRITE" => Shows(ext', nr, v)
    BY <1>2, <2>1, BufferShows
  <2>4. Waiting' /\ What' = "FLT_READ" /\ got'[DRIVER_MAIN] # NONE => Shows(got'[DRIVER_MAIN], nr, v)
    BY <2>1, ReadShows
  <2> QED BY <2>2, <2>3, <2>4
<1>3. CASE nr \in InWrite
  <2>1. pc[1] # "reply" /\ req.op = "FLT_WRITE" /\ nr \in Spanned
    BY <1>3 DEF InWrite, Spanned
  <2>2. req' = req /\ Spanned' = Spanned
    BY <2>1, EndOfWrite DEF Spanned
  <2>3. pc'[1] = "reply"
    BY <2>1, <2>2 DEF InWrite
  <2>4. ~Trying' /\ ~Waiting'
    BY <2>3 DEF Trying, Waiting
  <2>5. CASE \E w \in Which, n \in 1 .. 2 : check_driver(w, n)
    <3>1. PICK w \in Which, n \in 1 .. 2 : check_driver(w, n)
      BY <2>5
    <3>2. ~USE_MIRROR'
      <4>1. Return(w) => pc' = <<"check", DRIVER_BACKUP, 1>> \/ pc' = <<"send">>
        BY <3>1, ReturnControl, CheckOutcomes
      <4>2. ~Return(w) /\ pc' # <<"restart", w>>
        BY <2>3, <4>1
      <4> QED BY <3>1, <4>2, CheckOutcomes
    <3>3. driver'[DRIVER_MAIN].label \in Label
      BY Names DEF ControlInv, Types, DriverState
    <3>4. Used' = {driver'[DRIVER_MAIN].label} /\ driver'[DRIVER_MAIN].label \notin faulty'
      BY <3>2 DEF Used, Healthy
    <3>5. \E v \in Value : Shows(disk'[driver'[DRIVER_MAIN].label], nr, v)
      BY <3>3, <3>4 DEF Whole
    <3> QED BY <2>4, <3>4, <3>5
  <2>6. CASE /\ Waiting /\ Trying /\ What = "FLT_READ2" /\ disk' = disk
             /\ \A w \in SentTo : got[w] = ext /\ got[w] # NONE
    <3>1. \A l \in Used' : Shows(disk'[l], nr, req.data)
      BY <2>1, <2>6, FewerUsed, WrittenShows
    <3>2. req.data \in Value
      BY <2>6 DEF ControlInv, Asked, Trying, Waiting
    <3> QED BY <2>4, <3>1, <3>2
  <2> QED BY <2>1, <2>3, <2>5, <2>6, EndOfWrite
<1> QED BY <1>2, <1>3

\* There are no faults at the start, but for the disk that is not used.
LEMMA InitFaults ==
    ASSUME Init
    PROVE  FaultsInv
<1>1. /\ disk = [l \in Label |-> Formatted] /\ pc = <<"idle">> /\ up = Label /\ busy = {}
      /\ out = [l \in Label |-> NONE] /\ amsgtable = [w \in Which |-> Done]
      /\ r = "OK"
      /\ faulty = IF USE_MIRROR THEN {} ELSE {BACKUP_LABEL}
  BY DEF Init
<1>2. \A w \in Which : /\ driver[w].problem = "BD_NONE"
                       /\ driver[w].label = IF w = DRIVER_MAIN THEN MAIN_LABEL ELSE BACKUP_LABEL
  BY DEF Init
<1>3. ~Waiting /\ ~Trying
  BY <1>1 DEF Waiting, Trying
<1>4. LostFaulty
  <2>1. driver[DRIVER_MAIN].label = MAIN_LABEL
    BY <1>2, Names
  <2> QED BY <1>1, <2>1, Names DEF LostFaulty, Used
<1>5. Awake
  BY <1>1 DEF Awake
<1>6. Trusty
  <2>1. Done.state = "done"
    BY DEF Done
  <2> QED BY <1>1, <1>3, <2>1, Names DEF Trusty, Honest
<1>7. Suspects /\ Excused /\ GaveUp
  BY <1>1, <1>2 DEF Suspects, Suspected, Excused, GaveUp
<1>8. Exact /\ Copied
  BY <1>3 DEF Exact, Copied
<1>9. ASSUME NEW nr \in Logical
      PROVE  Data(Formatted, nr) = Blank /\ Entry(Formatted, nr) = calc_sum(nr, Blank)
  <2>1. /\ nr \in Nat /\ nr % NR_SUM_SEC \in Index
        /\ LOG2PHYS(nr) \in Phys /\ ~IsSum(LOG2PHYS(nr))
        /\ SEC2SUM_NR(nr) \in Phys /\ IsSum(SEC2SUM_NR(nr))
    BY PlacesOnDisk
  <2>2. (SEC2SUM_NR(nr) \div (NR_SUM_SEC + 1)) * NR_SUM_SEC + (nr % NR_SUM_SEC) = nr
    BY <2>1, GroupOf
  <2>3. Data(Formatted, nr) = Blank
    BY <2>1 DEF Formatted, Data
  <2>4. Entry(Formatted, nr) = calc_sum(nr, Blank)
    BY <2>1, <2>2 DEF Formatted, Entry
  <2> QED BY <2>3, <2>4
<1>10. Blank \in Value /\ Blank # Junk /\ \A nr \in Logical : calc_sum(nr, Blank) # Junk
  <2>1. Blank \in Value
    BY FilterAssumption
  <2>2. \A nr \in Logical : calc_sum(nr, Blank) \in Sum
    BY <2>1 DEF Sum
  <2> QED BY <2>1, <2>2, FilterAssumption
<1>11. \A l \in Label : disk[l] = Formatted
  BY <1>1
<1>12. MainClean
  BY <1>3, <1>9, <1>10, <1>11, Names DEF MainClean, Spoiled
<1>13. Same
  <2> SUFFICES ASSUME NEW nr \in Logical PROVE \A l \in Used : Shows(disk[l], nr, Blank)
    BY <1>3, <1>10 DEF Same
  <2>1. Used \subseteq Label
    BY <1>2, Names DEF Used
  <2> QED BY <1>9, <1>11, <2>1 DEF Shows
<1>14. Whole
  BY <1>9, <1>10, <1>11 DEF Whole, Shows
<1> QED BY <1>4, <1>5, <1>6, <1>7, <1>8, <1>12, <1>13, <1>14 DEF FaultsInv

\* The filter blames no driver that has done nothing wrong, but for rot that
\* it has copied itself.
THEOREM FilterFaults == Spec => []FaultsInv
<1>1. Init => FaultsInv
  BY InitFaults
<1>2. ControlInv /\ ControlInv' /\ ContentsInv /\ ContentsInv' /\ FaultsInv /\ [Next]_vars => FaultsInv'
  <2> SUFFICES ASSUME ControlInv, ControlInv', ContentsInv, ContentsInv', FaultsInv, [Next]_vars PROVE FaultsInv'
    OBVIOUS
  <2>1. Whole'
    BY NextWhole DEF FaultsInv
  <2> QED BY <2>1, NextLost, NextAwake, NextTrusty, NextSuspects, NextGaveUp, NextMainClean, NextExact, NextCopied,
             NextSame DEF FaultsInv
<1> QED BY <1>1, <1>2, FilterControl, FilterContents, PTL DEF Spec

\* With one disk that works all along no request fails, but for rot: Masked.
THEOREM FaultsMasked == Spec => []Masked
<1>1. ControlInv /\ ContentsInv /\ FaultsInv => Masked
  <2> SUFFICES ASSUME ControlInv, ContentsInv, FaultsInv, pc[1] = "reply", r # "OK", faulty # Label
               PROVE  \E l \in Label, p \in Phys :
                         Junk \in IF IsSum(p) THEN Range(disk[l][p]) ELSE {disk[l][p]}
    BY DEF Masked
  <2> DEFINE l == driver[DRIVER_MAIN].label
  <2>1. PICK nr \in Logical : Spoiled(disk[l], nr)
    BY DEF FaultsInv, GaveUp, Alone
  <2>2. nr \in Logical /\ l \in Label
    BY Reached, Names DEF ControlInv
  <2>3. /\ nr % NR_SUM_SEC \in Index
        /\ LOG2PHYS(nr) \in Phys /\ ~IsSum(LOG2PHYS(nr))
        /\ SEC2SUM_NR(nr) \in Phys /\ IsSum(SEC2SUM_NR(nr))
    BY <2>2, PlacesOnDisk
  <2>4. CASE Data(disk[l], nr) = Junk
    BY <2>2, <2>3, <2>4 DEF Data
  <2>5. CASE Entry(disk[l], nr) = Junk
    <3>1. disk[l][SEC2SUM_NR(nr)] \in SumSector
      BY <2>2, <2>3, FilledFacts DEF ContentsInv, Sectors
    <3>2. nr % NR_SUM_SEC \in DOMAIN disk[l][SEC2SUM_NR(nr)]
      BY <2>3, <3>1 DEF SumSector
    <3>3. Junk \in Range(disk[l][SEC2SUM_NR(nr)])
      BY <2>5, <3>2 DEF Entry, Range
    <3> QED BY <2>2, <2>3, <3>3
  <2> QED BY <2>1, <2>4, <2>5 DEF Spoiled
<1> QED BY <1>1, FilterControl, FilterContents, FilterFaults, PTL

\* A disk that the mirror loses has done something wrong: DropsFaulty.
THEOREM LosesFaulty == Spec => DropsFaulty
<1>1. ControlInv /\ FaultsInv /\ [Next]_vars =>
         [USE_MIRROR /\ ~USE_MIRROR' => Label \ {driver'[DRIVER_MAIN].label} \subseteq faulty]_vars
  <2> SUFFICES ASSUME ControlInv, FaultsInv, [Next]_vars, USE_MIRROR, ~USE_MIRROR'
               PROVE  Label \ {driver'[DRIVER_MAIN].label} \subseteq faulty
    OBVIOUS
  <2>1. LostFaulty'
    BY NextLost DEF FaultsInv
  <2>2. Label \ {driver'[DRIVER_MAIN].label} \subseteq faulty'
    BY <2>1 DEF LostFaulty, Used
  <2>3. faulty' = faulty
    <3>1. PICK w \in Which, n \in 1 .. 2 : check_driver(w, n)
      BY SameDrivers
    <3> QED BY <3>1, CheckOutcomes
  <2> QED BY <2>2, <2>3
<1>2. Spec => [][Next]_vars
  BY DEF Spec
<1>3. [][Next]_vars /\ []ControlInv /\ []FaultsInv => DropsFaulty
  BY <1>1, PTL DEF DropsFaulty
<1> QED BY <1>2, <1>3, FilterControl, FilterFaults, PTL

=============================================================================
