---------------------------- MODULE QueueLemmas ----------------------------
(***************************************************************************)
(* Facts about queues without repetition and about sets of numbers, for    *)
(* the proofs about the kernel's caller queues and the library's lists.    *)
(***************************************************************************)
EXTENDS Integers, SequencesExt, SequenceTheorems, FiniteSetTheorems, WellFoundedInduction, TLAPS

\* An element at the end.
LEMMA AppendFacts ==
    ASSUME NEW S, NEW s \in Seq(S), NEW e \in S
    PROVE  /\ Append(s, e) \in Seq(S)
           /\ Len(Append(s, e)) = Len(s) + 1
           /\ \A i \in 1 .. Len(s) : Append(s, e)[i] = s[i]
           /\ Append(s, e)[Len(s) + 1] = e
BY AppendProperties

\* An element less.
LEMMA RemoveAtFacts ==
    ASSUME NEW S, NEW s \in Seq(S), NEW i \in 1 .. Len(s)
    PROVE  /\ RemoveAt(s, i) \in Seq(S)
           /\ Len(RemoveAt(s, i)) = Len(s) - 1
           /\ \A j \in 1 .. Len(s) - 1 :
                  RemoveAt(s, i)[j] = IF j < i THEN s[j] ELSE s[j + 1]
<1> DEFINE front == SubSeq(s, 1, i - 1)
           back == SubSeq(s, i + 1, Len(s))
<1>1. /\ front \in Seq(S)
      /\ Len(front) = i - 1
      /\ \A j \in 1 .. i - 1 : front[j] = s[j]
  BY SubSeqProperties
<1>2. /\ back \in Seq(S)
      /\ Len(back) = Len(s) - i
      /\ \A j \in 1 .. Len(s) - i : back[j] = s[i + j]
  BY SubSeqProperties
<1>3. /\ front \o back \in Seq(S)
      /\ Len(front \o back) = Len(s) - 1
      /\ \A j \in 1 .. Len(s) - 1 :
             (front \o back)[j] = IF j <= i - 1 THEN front[j] ELSE back[j - (i - 1)]
  <2> HIDE DEF front, back
  <2> QED BY <1>1, <1>2, ConcatProperties
<1>4. ASSUME NEW j \in 1 .. Len(s) - 1
      PROVE  (front \o back)[j] = IF j < i THEN s[j] ELSE s[j + 1]
  <2> HIDE DEF front, back
  <2>1. CASE j < i BY <1>1, <1>3, <2>1
  <2>2. CASE ~(j < i)
    <3>1. j - (i - 1) \in 1 .. Len(s) - i /\ i + (j - (i - 1)) = j + 1
      BY <2>2
    <3> QED BY <1>2, <1>3, <2>2, <3>1
  <2> QED BY <2>1, <2>2
<1> QED BY <1>3, <1>4 DEF RemoveAt

\* An element more.
LEMMA InsertAtFacts ==
    ASSUME NEW S, NEW s \in Seq(S), NEW i \in 1 .. Len(s) + 1, NEW e \in S
    PROVE  /\ InsertAt(s, i, e) \in Seq(S)
           /\ Len(InsertAt(s, i, e)) = Len(s) + 1
           /\ \A j \in 1 .. Len(s) + 1 :
                  InsertAt(s, i, e)[j] = IF j < i THEN s[j] ELSE IF j = i THEN e ELSE s[j - 1]
<1> DEFINE front == SubSeq(s, 1, i - 1)
           back == SubSeq(s, i, Len(s))
           t == front \o <<e>>
<1>0. Len(s) \in Nat /\ i \in Nat /\ i >= 1
  BY LenProperties
<1>1. /\ front \in Seq(S)
      /\ Len(front) = i - 1
      /\ \A j \in 1 .. i - 1 : front[j] = s[j]
  BY SubSeqProperties
<1>2. /\ back \in Seq(S)
      /\ Len(back) = Len(s) - i + 1
      /\ \A j \in 1 .. Len(s) - i + 1 : back[j] = s[i + j - 1]
  BY SubSeqProperties
<1>3. <<e>> \in Seq(S) /\ Len(<<e>>) = 1 /\ <<e>>[1] = e
  OBVIOUS
<1>4. /\ t \in Seq(S)
      /\ Len(t) = i
      /\ \A j \in 1 .. i : t[j] = IF j <= i - 1 THEN front[j] ELSE e
  <2> DEFINE u == <<e>>
  <2> HIDE DEF front, u
  <2>1. u \in Seq(S) /\ Len(u) = 1 /\ u[1] = e
    BY <1>3 DEF u
  <2>2. /\ front \o u \in Seq(S)
        /\ Len(front \o u) = i
        /\ \A j \in 1 .. i : (front \o u)[j] = IF j <= i - 1 THEN front[j] ELSE u[j - (i - 1)]
    <3>1. i - 1 \in Nat /\ (i - 1) + 1 = i
      BY <1>0
    <3>2. /\ front \o u \in Seq(S)
          /\ Len(front \o u) = Len(front) + Len(u)
          /\ \A j \in 1 .. Len(front) + Len(u) :
                 (front \o u)[j] = IF j <= Len(front) THEN front[j] ELSE u[j - Len(front)]
      BY <1>1, <2>1, ConcatProperties
    <3> QED BY <1>1, <2>1, <3>1, <3>2
  <2>3. ASSUME NEW j \in 1 .. i, ~(j <= i - 1) PROVE j - (i - 1) = 1
    BY <1>0, <2>3
  <2> QED BY <2>1, <2>2, <2>3 DEF u
<1>5. /\ t \o back \in Seq(S)
      /\ Len(t \o back) = Len(s) + 1
      /\ \A j \in 1 .. Len(s) + 1 : (t \o back)[j] = IF j <= i THEN t[j] ELSE back[j - i]
  <2> HIDE DEF t, back
  <2> QED BY <1>2, <1>4, ConcatProperties
<1>6. ASSUME NEW j \in 1 .. Len(s) + 1
      PROVE  (t \o back)[j] = IF j < i THEN s[j] ELSE IF j = i THEN e ELSE s[j - 1]
  <2> HIDE DEF t, front, back
  <2>1. CASE j < i
    BY <1>1, <1>4, <1>5, <2>1
  <2>2. CASE j = i
    BY <1>0, <1>4, <1>5, <2>2
  <2>3. CASE j > i
    <3>1. j - i \in 1 .. Len(s) - i + 1 /\ i + (j - i) - 1 = j - 1
      BY <2>3
    <3> QED BY <1>2, <1>5, <2>3, <3>1
  <2>4. j < i \/ j = i \/ j > i
    BY <1>0
  <2> QED BY <2>1, <2>2, <2>3, <2>4, Zenon
<1> QED BY <1>5, <1>6 DEF InsertAt

\* A queue without repetition, before and after p joins it.
LEMMA JoinQueue ==
    ASSUME NEW S, NEW s \in Seq(S), NEW e \in S,
           \A i, j \in DOMAIN s : s[i] = s[j] => i = j,
           \A i \in DOMAIN s : s[i] # e
    PROVE  /\ \A i, j \in DOMAIN Append(s, e) : Append(s, e)[i] = Append(s, e)[j] => i = j
           /\ \A q : (\E i \in DOMAIN Append(s, e) : Append(s, e)[i] = q)
                         <=> q = e \/ \E i \in DOMAIN s : s[i] = q
<1> DEFINE t == Append(s, e)
<1>1. /\ t \in Seq(S)
      /\ Len(t) = Len(s) + 1
      /\ \A i \in 1 .. Len(s) : t[i] = s[i]
      /\ t[Len(s) + 1] = e
  BY AppendFacts
<1>2. DOMAIN s = 1 .. Len(s) /\ DOMAIN t = 1 .. Len(t) /\ Len(s) \in Nat
  BY <1>1, LenProperties
<1> HIDE DEF t
<1>3. \A i, j \in DOMAIN t : t[i] = t[j] => i = j
  BY <1>1, <1>2
<1>4. \A q : (\E i \in DOMAIN t : t[i] = q) <=> q = e \/ \E i \in DOMAIN s : s[i] = q
  BY <1>1, <1>2
<1> QED BY <1>3, <1>4 DEF t

\* And before and after the process at place k leaves it.
LEMMA LeaveQueue ==
    ASSUME NEW S, NEW s \in Seq(S), NEW k \in DOMAIN s,
           \A i, j \in DOMAIN s : s[i] = s[j] => i = j
    PROVE  /\ \A i, j \in DOMAIN RemoveAt(s, k) :
                  RemoveAt(s, k)[i] = RemoveAt(s, k)[j] => i = j
           /\ \A q : (\E i \in DOMAIN RemoveAt(s, k) : RemoveAt(s, k)[i] = q)
                         <=> q # s[k] /\ \E i \in DOMAIN s : s[i] = q
<1> DEFINE t == RemoveAt(s, k)
<1>0. DOMAIN s = 1 .. Len(s) /\ Len(s) \in Nat
  BY LenProperties
<1>k. k \in 1 .. Len(s)
  BY <1>0
<1>1. /\ t \in Seq(S)
      /\ Len(t) = Len(s) - 1
      /\ \A j \in 1 .. Len(s) - 1 : t[j] = IF j < k THEN s[j] ELSE s[j + 1]
  BY <1>k, RemoveAtFacts, Zenon
<1>2. DOMAIN t = 1 .. Len(s) - 1
  BY <1>1, LenProperties
<1> HIDE DEF t
<1>3. ASSUME NEW i \in DOMAIN t, NEW j \in DOMAIN t, t[i] = t[j]
      PROVE  i = j
  <2> DEFINE a == IF i < k THEN i ELSE i + 1
             b == IF j < k THEN j ELSE j + 1
  <2>1. a \in DOMAIN s /\ b \in DOMAIN s /\ t[i] = s[a] /\ t[j] = s[b]
    BY <1>0, <1>1, <1>2
  <2>2. a = b
    <3> HIDE DEF a, b
    <3> QED BY <1>3, <2>1
  <2> QED BY <1>0, <1>2, <2>2
<1>4. ASSUME NEW i \in DOMAIN t
      PROVE  \E j \in DOMAIN s : s[j] = t[i] /\ j # k
  <2>1. CASE i < k BY <1>0, <1>1, <1>2, <2>1
  <2>2. CASE ~(i < k)
    <3>1. i + 1 \in DOMAIN s /\ i + 1 # k BY <1>0, <1>2, <2>2
    <3> QED BY <1>1, <1>2, <2>2, <3>1
  <2> QED BY <2>1, <2>2
<1>5. ASSUME NEW j \in DOMAIN s, j # k
      PROVE  \E i \in DOMAIN t : t[i] = s[j]
  <2>1. CASE j < k
    <3>1. j \in DOMAIN t BY <1>0, <1>2, <2>1
    <3> QED BY <1>1, <1>2, <2>1, <3>1
  <2>2. CASE j > k
    <3>1. j - 1 \in DOMAIN t /\ ~(j - 1 < k) /\ (j - 1) + 1 = j BY <1>0, <1>2, <2>2
    <3> QED BY <1>1, <1>2, <3>1
  <2> QED BY <1>0, <1>5, <2>1, <2>2
<1> QED BY <1>3, <1>4, <1>5 DEF t

-----------------------------------------------------------------------------
(* Least numbers.                                                          *)

\* A well-founded order that is the one of the numbers.
LEMMA LeastOf ==
    ASSUME NEW R, IsWellFoundedOn(R, Nat), \A x, y \in Nat : <<y, x>> \in R <=> y < x,
           NEW T \in SUBSET Nat, T # {}
    PROVE  \E x \in T : \A y \in T : x <= y
<1>1. PICK x \in T : \A y \in T : ~(<<y, x>> \in R)
  BY WFMin
<1>2. \A y \in T : ~(y < x)
  BY <1>1
<1> QED BY <1>2

\* Every set of numbers that is not empty has a least one.
LEMMA LeastNat ==
    ASSUME NEW T \in SUBSET Nat, T # {}
    PROVE  \E x \in T : \A y \in T : x <= y
<1>1. IsWellFoundedOn({ss \in Nat \X Nat : ss[1] < ss[2]}, Nat)
  BY NatLessThanWellFounded DEF OpToRel
<1>2. \A x, y \in Nat : <<y, x>> \in {ss \in Nat \X Nat : ss[1] < ss[2]} <=> y < x
  OBVIOUS
<1> QED BY <1>1, <1>2, LeastOf

-----------------------------------------------------------------------------
(* The same facts by the set of the members, Range(s).                     *)

\* A member joins at the end.
LEMMA AppendRange ==
    ASSUME NEW S, NEW s \in Seq(S), NEW e \in S
    PROVE  /\ Range(Append(s, e)) = Range(s) \cup {e}
           /\ IsInjective(s) /\ e \notin Range(s) => IsInjective(Append(s, e))
<1> DEFINE t == Append(s, e)
<1>1. /\ t \in Seq(S)
      /\ Len(t) = Len(s) + 1
      /\ \A i \in 1 .. Len(s) : t[i] = s[i]
      /\ t[Len(s) + 1] = e
  BY AppendFacts
<1>2. DOMAIN s = 1 .. Len(s) /\ DOMAIN t = 1 .. Len(t) /\ Len(s) \in Nat
  BY <1>1, LenProperties
<1> HIDE DEF t
<1>3. ASSUME NEW x PROVE x \in Range(t) <=> x \in Range(s) \cup {e}
  <2>1. x \in Range(t) <=> \E i \in DOMAIN t : t[i] = x
    BY DEF Range
  <2>2. x \in Range(s) <=> \E i \in DOMAIN s : s[i] = x
    BY DEF Range
  <2>3. (\E i \in DOMAIN t : t[i] = x) <=> x = e \/ \E i \in DOMAIN s : s[i] = x
    BY <1>1, <1>2
  <2> QED BY <2>1, <2>2, <2>3
<1>4. IsInjective(s) /\ e \notin Range(s) => IsInjective(t)
  BY <1>1, <1>2 DEF IsInjective, Range
<1> QED BY <1>3, <1>4 DEF t

\* The first one leaves.
LEMMA TailRange ==
    ASSUME NEW S, NEW s \in Seq(S), s # <<>>
    PROVE  /\ Head(s) \in S /\ Head(s) \in Range(s) /\ Tail(s) \in Seq(S)
           /\ Range(s) = Range(Tail(s)) \cup {Head(s)}
           /\ IsInjective(s) => IsInjective(Tail(s)) /\ Head(s) \notin Range(Tail(s))
<1> DEFINE t == Tail(s)
<1>1. /\ t \in Seq(S)
      /\ Len(t) = Len(s) - 1
      /\ \A i \in 1 .. Len(s) - 1 : t[i] = s[i + 1]
      /\ Head(s) = s[1] /\ Head(s) \in S
      /\ Len(s) \in Nat /\ Len(s) >= 1
  BY HeadTailProperties, EmptySeq, LenProperties
<1>2. DOMAIN s = 1 .. Len(s) /\ DOMAIN t = 1 .. Len(s) - 1
  BY <1>1, LenProperties
<1> HIDE DEF t
<1>3. ASSUME NEW x PROVE x \in Range(s) <=> x \in Range(t) \cup {Head(s)}
  <2>1. x \in Range(t) <=> \E i \in 1 .. Len(s) - 1 : s[i + 1] = x
    BY <1>1, <1>2 DEF Range
  <2>2. x \in Range(s) <=> \E i \in 1 .. Len(s) : s[i] = x
    BY <1>2 DEF Range
  <2>3. ASSUME NEW i \in 1 .. Len(s), s[i] = x
        PROVE  x = Head(s) \/ \E j \in 1 .. Len(s) - 1 : s[j + 1] = x
    <3>1. CASE i = 1 BY <1>1, <2>3, <3>1
    <3>2. CASE i # 1
      <4>1. i - 1 \in 1 .. Len(s) - 1 /\ (i - 1) + 1 = i BY <1>1, <3>2
      <4> QED BY <2>3, <4>1
    <3> QED BY <3>1, <3>2
  <2>4. ASSUME NEW j \in 1 .. Len(s) - 1, s[j + 1] = x
        PROVE  \E i \in 1 .. Len(s) : s[i] = x
    <3>1. j + 1 \in 1 .. Len(s) BY <1>1
    <3> QED BY <2>4, <3>1
  <2>5. x = Head(s) => \E i \in 1 .. Len(s) : s[i] = x
    BY <1>1
  <2> QED BY <2>1, <2>2, <2>3, <2>4, <2>5
<1>4. ASSUME IsInjective(s) PROVE IsInjective(t) /\ Head(s) \notin Range(t)
  <2>1. \A i \in 1 .. Len(s) - 1 : i + 1 \in 1 .. Len(s) /\ i + 1 # 1
    BY <1>1
  <2>2. \A i, j \in 1 .. Len(s) - 1 : i + 1 = j + 1 => i = j
    BY <1>1
  <2>3. IsInjective(t)
    BY <1>1, <1>2, <1>4, <2>1, <2>2 DEF IsInjective
  <2>4. \A i \in 1 .. Len(s) - 1 : t[i] # Head(s)
    BY <1>1, <1>2, <1>4, <2>1 DEF IsInjective
  <2> QED BY <1>2, <2>3, <2>4 DEF Range
<1> QED BY <1>1, <1>3, <1>4 DEF t

\* Nothing to remove.
LEMMA RemoveFirstAbsent ==
    ASSUME NEW S, NEW s \in Seq(S), NEW e, e \notin Range(s)
    PROVE  RemoveFirst(s, e) = s
<1>1. DOMAIN s = 1 .. Len(s)
  BY LenProperties
<1>2. ~\E i \in 1 .. Len(s) : s[i] = e
  BY <1>1 DEF Range
<1> QED BY <1>2 DEF RemoveFirst

\* And any one: RemoveFirst.
LEMMA RemoveFirstRange ==
    ASSUME NEW S, NEW s \in Seq(S), NEW e, IsInjective(s)
    PROVE  /\ RemoveFirst(s, e) \in Seq(S)
           /\ IsInjective(RemoveFirst(s, e))
           /\ Range(RemoveFirst(s, e)) = Range(s) \ {e}
<1>0. DOMAIN s = 1 .. Len(s) /\ Len(s) \in Nat
  BY LenProperties
<1>1. CASE ~\E i \in 1 .. Len(s) : s[i] = e
  <2>1. e \notin Range(s)
    BY <1>0, <1>1 DEF Range
  <2>2. RemoveFirst(s, e) = s
    BY <2>1, RemoveFirstAbsent
  <2> QED BY <2>1, <2>2
<1>2. CASE \E i \in 1 .. Len(s) : s[i] = e
  <2> DEFINE I == {i \in 1 .. Len(s) : s[i] = e}
             k == SelectInSeq(s, LAMBDA v : v = e)
  <2>1. I \in SUBSET Nat /\ I # {}
    BY <1>0, <1>2
  <2>2. \E x \in I : \A y \in I : x <= y
    BY <2>1, LeastNat
  <2>3. k = Min(I)
    BY <2>1 DEF SelectInSeq
  <2>4. k \in I
    <3> HIDE DEF k, I
    <3> QED BY <2>2, <2>3 DEF Min
  <2>5. k \in DOMAIN s /\ s[k] = e /\ k \in 1 .. Len(s)
    BY <1>0, <2>4
  <2>6. RemoveFirst(s, e) = RemoveAt(s, k)
    BY <1>2 DEF RemoveFirst
  <2> HIDE DEF k, I
  <2>7. /\ \A i, j \in DOMAIN RemoveAt(s, k) : RemoveAt(s, k)[i] = RemoveAt(s, k)[j] => i = j
        /\ \A q : (\E i \in DOMAIN RemoveAt(s, k) : RemoveAt(s, k)[i] = q)
                      <=> q # s[k] /\ \E i \in DOMAIN s : s[i] = q
    BY <2>5, LeaveQueue DEF IsInjective
  <2>8. RemoveAt(s, k) \in Seq(S)
    BY <2>5, RemoveAtFacts
  <2> DEFINE t == RemoveAt(s, k)
  <2>9. \A x : x \in Range(t) <=> \E i \in DOMAIN t : t[i] = x
    BY DEF Range
  <2>10. \A x : x \in Range(s) <=> \E i \in DOMAIN s : s[i] = x
    BY DEF Range
  <2>11. Range(t) = Range(s) \ {e}
    <3> HIDE DEF t
    <3>1. \A x : x \in Range(t) <=> x \in Range(s) /\ x # e
      BY <2>5, <2>7, <2>9, <2>10 DEF t
    <3> QED BY <3>1
  <2>12. IsInjective(t)
    BY <2>7 DEF IsInjective
  <2> QED BY <2>6, <2>8, <2>11, <2>12
<1> QED BY <1>1, <1>2

\* A list without repetition is no longer than the set of its elements.
LEMMA ShortSeq ==
    ASSUME NEW S, IsFiniteSet(S), NEW l \in Seq(S), IsInjective(l)
    PROVE  /\ Len(l) \in Nat /\ DOMAIN l = 1 .. Len(l)
           /\ Len(l) <= Cardinality(S) /\ Cardinality(S) \in Nat
           /\ Len(l) = Cardinality(ToSet(l))
<1>1. Len(l) \in Nat /\ DOMAIN l = 1 .. Len(l) /\ l \in [1 .. Len(l) -> S]
  BY LenProperties
<1>2. l \in Injection(1 .. Len(l), S)
  BY <1>1 DEF Injection, IsInjective
<1>3. Cardinality(1 .. Len(l)) = Len(l) /\ IsFiniteSet(1 .. Len(l))
  <2> DEFINE n == Len(l)
  <2>1. n \in Nat /\ n \in Int /\ 1 \in Int
    BY <1>1
  <2> HIDE DEF n
  <2>2. IsFiniteSet(1 .. n) /\ Cardinality(1 .. n) = IF 1 > n THEN 0 ELSE n - 1 + 1
    BY <2>1, FS_Interval
  <2>3. (IF 1 > n THEN 0 ELSE n - 1 + 1) = n
    BY <2>1
  <2> QED BY <2>2, <2>3 DEF n
<1>4. IsFiniteSet(S) /\ Cardinality(S) \in Nat
  BY FS_CardinalityType
<1>5. Len(l) <= Cardinality(S)
  BY <1>2, <1>3, <1>4, FS_Injection
<1>6. l \in Surjection(1 .. Len(l), ToSet(l)) /\ l \in Injection(1 .. Len(l), ToSet(l))
  BY <1>1, <1>2 DEF Surjection, Injection, ToSet, IsInjective
<1>7. Cardinality(ToSet(l)) = Len(l)
  BY <1>3, <1>6, FS_Surjection
<1> QED BY <1>1, <1>4, <1>5, <1>7

-----------------------------------------------------------------------------
(* Parts of a list.                                                        *)

\* The first i members of a list, and the others.
FirstOf(l, i) == SubSeq(l, 1, i)
RestOf(l, i) == SubSeq(l, i + 1, Len(l))

LEMMA FirstFacts ==
    ASSUME NEW S, NEW l \in Seq(S), NEW i \in 0 .. Len(l), NEW a, a = FirstOf(l, i)
    PROVE  a \in Seq(S) /\ Len(a) = i /\ \A j \in 1 .. i : a[j] = l[j]
<1>1. /\ Len(l) \in Nat /\ i \in Int /\ 0 <= i /\ i <= Len(l)
      /\ \A j \in 1 .. Len(l) : l[j] \in S
  BY LenProperties, ElementOfSeq
<1>2. /\ a \in Seq(S) /\ Len(a) = (IF 1 <= i THEN i - 1 + 1 ELSE 0)
      /\ \A j \in 1 .. i - 1 + 1 : a[j] = l[1 + j - 1]
  <2>1. 1 \in Int /\ i \in Int /\ \A j \in 1 .. i : l[j] \in S
    BY <1>1
  <2> QED BY <2>1, SubSeqProperties DEF FirstOf
<1>3. i - 1 + 1 = i /\ (\A j \in 1 .. i : 1 + j - 1 = j) /\ (1 <= i \/ i = 0)
  BY <1>1
<1> QED BY <1>2, <1>3

LEMMA RestFacts ==
    ASSUME NEW S, NEW l \in Seq(S), NEW i \in 0 .. Len(l), NEW b, b = RestOf(l, i)
    PROVE  b \in Seq(S) /\ Len(b) = Len(l) - i /\ \A j \in 1 .. Len(b) : b[j] = l[i + j]
<1>1. /\ Len(l) \in Nat /\ i \in Int /\ 0 <= i /\ i <= Len(l)
      /\ \A j \in 1 .. Len(l) : l[j] \in S
  BY LenProperties, ElementOfSeq
<1>2. /\ b \in Seq(S) /\ Len(b) = (IF i + 1 <= Len(l) THEN Len(l) - (i + 1) + 1 ELSE 0)
      /\ \A j \in 1 .. Len(l) - (i + 1) + 1 : b[j] = l[(i + 1) + j - 1]
  <2>1. 1 \in Int /\ i + 1 \in Int /\ Len(l) \in Int /\ \A j \in i + 1 .. Len(l) : l[j] \in S
    BY <1>1
  <2> QED BY <2>1, SubSeqProperties DEF RestOf
<1> DEFINE n == Len(l) - i
<1>3. /\ Len(l) - (i + 1) + 1 = n /\ (\A j \in 1 .. n : (i + 1) + j - 1 = i + j)
      /\ (~(i + 1 <= Len(l)) => n = 0)
  BY <1>1
<1> HIDE DEF n
<1>4. Len(b) = n /\ \A j \in 1 .. n : b[j] = l[i + j]
  BY <1>2, <1>3
<1> QED BY <1>2, <1>4 DEF n

LEMMA RestInjective ==
    ASSUME NEW S, NEW l \in Seq(S), NEW i \in 0 .. Len(l), IsInjective(l),
           NEW b, b = RestOf(l, i)
    PROVE  IsInjective(b)
<1> DEFINE n == Len(b)
<1>2. b \in Seq(S) /\ n = Len(l) - i /\ \A j \in 1 .. n : b[j] = l[i + j]
  BY RestFacts
<1>3. DOMAIN l = 1 .. Len(l) /\ DOMAIN b = 1 .. n /\ Len(l) \in Nat
  BY <1>2, LenProperties
<1> HIDE DEF n
<1>4. \A j, k \in 1 .. n : i + j \in 1 .. Len(l) /\ (i + j = i + k => j = k)
  BY <1>2, <1>3
<1>5. ASSUME NEW j \in 1 .. n, NEW k \in 1 .. n, b[j] = b[k] PROVE j = k
  <2>1. l[i + j] = l[i + k]
    BY <1>2, <1>5
  <2>2. i + j = i + k
    BY <1>3, <1>4, <2>1 DEF IsInjective
  <2> QED BY <1>4, <2>2
<1> QED BY <1>3, <1>5 DEF IsInjective

\* Both ends.
LEMMA PartsEnds ==
    ASSUME NEW S, NEW l \in Seq(S)
    PROVE  /\ FirstOf(l, 0) = <<>> /\ RestOf(l, 0) = l
           /\ FirstOf(l, Len(l)) = l /\ RestOf(l, Len(l)) = <<>>
<1> DEFINE n == Len(l)
           a == FirstOf(l, 0)
           b == RestOf(l, 0)
           c == FirstOf(l, n)
           d == RestOf(l, n)
<1>1. n \in Nat /\ 0 \in 0 .. n /\ n \in 0 .. n /\ n = Len(l)
  <2>1. n \in Nat
    BY LenProperties
  <2> HIDE DEF n
  <2> QED BY <2>1 DEF n
<1> HIDE DEF a, b, c, d
<1>0. a = FirstOf(l, 0) /\ b = RestOf(l, 0) /\ c = FirstOf(l, n) /\ d = RestOf(l, n)
  BY DEF a, b, c, d
<1> HIDE DEF n
<1>2. a \in Seq(S) /\ Len(a) = 0
  BY <1>0, <1>1, FirstFacts
<1>3. c \in Seq(S) /\ Len(c) = n /\ \A j \in 1 .. n : c[j] = l[j]
  <2>1. n \in 0 .. Len(l)
    BY <1>1
  <2> QED BY <1>0, <2>1, FirstFacts
<1>8. b \in Seq(S) /\ Len(b) = n /\ \A j \in 1 .. n : b[j] = l[0 + j]
  <2>1. 0 \in 0 .. Len(l) /\ n = Len(l) - 0
    BY <1>1
  <2>2. b \in Seq(S) /\ Len(b) = Len(l) - 0 /\ \A j \in 1 .. Len(b) : b[j] = l[0 + j]
    BY <1>0, <2>1, RestFacts
  <2> QED BY <2>1, <2>2
<1>9. d \in Seq(S) /\ Len(d) = 0
  <2>1. n \in 0 .. Len(l) /\ Len(l) - n = 0
    BY <1>1
  <2>2. d \in Seq(S) /\ Len(d) = Len(l) - n
    BY <1>0, <2>1, RestFacts
  <2> QED BY <2>1, <2>2
<1>4. \A j \in 1 .. n : 0 + j = j
  BY <1>1
<1>5. a = <<>> /\ d = <<>>
  BY <1>2, <1>9, EmptySeq
<1>6. b = l
  BY <1>1, <1>4, <1>8, SeqEqual
<1>7. c = l
  BY <1>1, <1>3, SeqEqual
<1> QED BY <1>5, <1>6, <1>7 DEF a, b, c, d, n

\* One more of them.
LEMMA PartsStep ==
    ASSUME NEW S, NEW l \in Seq(S), NEW i \in 0 .. Len(l), i # Len(l),
           NEW e, e = l[i + 1], NEW b, b = RestOf(l, i)
    PROVE  /\ e \in S /\ b # <<>> /\ Head(b) = e /\ Tail(b) = RestOf(l, i + 1)
           /\ Append(FirstOf(l, i), e) = FirstOf(l, i + 1)
           /\ IsInjective(l) => e \notin Range(FirstOf(l, i))
<1> DEFINE n == Len(l)
           a == FirstOf(l, i)
           c == FirstOf(l, i + 1)
           d == RestOf(l, i + 1)
<1>1. n \in Nat /\ i + 1 \in 0 .. n /\ i \in 0 .. n /\ i + 1 \in 1 .. n /\ n = Len(l) /\ i # n
  <2>1. n \in Nat /\ i \in 0 .. n /\ i # n /\ n = Len(l)
    BY LenProperties
  <2> HIDE DEF n
  <2> QED BY <2>1
<1> HIDE DEF a, c, d
<1>11. a = FirstOf(l, i) /\ c = FirstOf(l, i + 1) /\ d = RestOf(l, i + 1)
  BY DEF a, c, d
<1>2. /\ a \in Seq(S) /\ Len(a) = i /\ (\A j \in 1 .. i : a[j] = l[j])
      /\ b \in Seq(S) /\ Len(b) = n - i /\ \A j \in 1 .. n - i : b[j] = l[i + j]
  <2>1. a \in Seq(S) /\ Len(a) = i /\ \A j \in 1 .. i : a[j] = l[j]
    BY <1>11, FirstFacts
  <2>2. b \in Seq(S) /\ Len(b) = Len(l) - i /\ \A j \in 1 .. Len(b) : b[j] = l[i + j]
    BY RestFacts
  <2>3. Len(l) = n
    BY <1>1
  <2> HIDE DEF n
  <2> QED BY <2>1, <2>2, <2>3
<1>3. /\ c \in Seq(S) /\ Len(c) = i + 1 /\ (\A j \in 1 .. i + 1 : c[j] = l[j])
      /\ d \in Seq(S) /\ Len(d) = n - (i + 1) /\ \A j \in 1 .. n - (i + 1) : d[j] = l[(i + 1) + j]
  <2>1. i + 1 \in 0 .. Len(l)
    BY <1>1
  <2>2. c \in Seq(S) /\ Len(c) = i + 1 /\ \A j \in 1 .. i + 1 : c[j] = l[j]
    BY <1>11, <2>1, FirstFacts
  <2> DEFINE g == i + 1
  <2>3. g \in 0 .. Len(l) /\ d = RestOf(l, g)
    BY <1>11, <2>1
  <2> HIDE DEF g
  <2>4. d \in Seq(S) /\ Len(d) = Len(l) - g /\ \A j \in 1 .. Len(d) : d[j] = l[g + j]
    BY <2>3, RestFacts
  <2>5. Len(l) = n
    BY <1>1
  <2> HIDE DEF n
  <2> QED BY <2>2, <2>4, <2>5 DEF g
<1>4. e \in S
  BY <1>1, ElementOfSeq
<1> HIDE DEF n
<1>5. n - i # 0 /\ 1 \in 1 .. n - i /\ n - (i + 1) = (n - i) - 1 /\ n - i \in Nat
  BY <1>1
<1>6. b # <<>>
  BY <1>2, <1>5, EmptySeq
<1>7. Head(b) = e /\ Tail(b) \in Seq(S) /\ Len(Tail(b)) = n - (i + 1)
      /\ \A j \in 1 .. n - (i + 1) : Tail(b)[j] = b[j + 1]
  <2>1. /\ Tail(b) \in Seq(S) /\ Len(Tail(b)) = (n - i) - 1
        /\ \A j \in 1 .. Len(Tail(b)) : Tail(b)[j] = b[j + 1]
    BY <1>2, <1>6, HeadTailProperties
  <2>2. Head(b) = b[1]
    BY <1>2, <1>6
  <2> QED BY <1>2, <1>5, <2>1, <2>2
<1>8. Tail(b) = d
  <2> DEFINE t == Tail(b)
  <2>1. t \in Seq(S) /\ Len(t) = n - (i + 1) /\ \A j \in 1 .. n - (i + 1) : t[j] = b[j + 1]
    BY <1>7
  <2> HIDE DEF t
  <2>2. ASSUME NEW j \in 1 .. Len(t) PROVE t[j] = d[j]
    <3>1. j \in 1 .. n - (i + 1) /\ j + 1 \in 1 .. n - i /\ i + (j + 1) = (i + 1) + j
      BY <1>1, <2>1
    <3>2. t[j] = b[j + 1] /\ d[j] = l[(i + 1) + j]
      BY <1>3, <2>1, <3>1
    <3>3. b[j + 1] = l[i + (j + 1)]
      BY <1>2, <3>1
    <3> QED BY <3>1, <3>2, <3>3
  <2>3. t = d
    BY <1>3, <2>1, <2>2, SeqEqual
  <2> QED BY <2>3 DEF t
<1>9. Append(a, e) = c
  <2> DEFINE t == Append(a, e)
  <2>1. t \in Seq(S) /\ Len(t) = i + 1 /\ (\A j \in 1 .. i : t[j] = a[j]) /\ t[i + 1] = e
    <3>1. /\ Append(a, e) \in Seq(S) /\ Len(Append(a, e)) = Len(a) + 1
          /\ \A j \in 1 .. Len(a) : Append(a, e)[j] = a[j]
          /\ Append(a, e)[Len(a) + 1] = e
      BY <1>2, <1>4, AppendFacts
    <3> QED BY <1>2, <3>1
  <2> HIDE DEF t
  <2>2. ASSUME NEW j \in 1 .. Len(t) PROVE t[j] = c[j]
    <3>1. j \in 1 .. i + 1 /\ (j # i + 1 => j \in 1 .. i)
      BY <1>1, <2>1
    <3> QED BY <1>2, <1>3, <2>1, <3>1
  <2>3. t = c
    BY <1>3, <2>1, <2>2, SeqEqual
  <2> QED BY <2>3 DEF t
<1>10. ASSUME IsInjective(l) PROVE e \notin Range(a)
  <2>1. DOMAIN l = 1 .. n /\ DOMAIN a = 1 .. i
    BY <1>2, LenProperties DEF n
  <2>2. \A j \in 1 .. i : j \in 1 .. n /\ j # i + 1
    BY <1>1
  <2>3. \A j \in 1 .. i : l[j] # e
    BY <1>1, <1>10, <2>1, <2>2 DEF IsInjective
  <2> QED BY <1>2, <2>1, <2>3 DEF Range
<1> QED BY <1>4, <1>6, <1>7, <1>8, <1>9, <1>10 DEF a, c, d

\* Taking a member out of a list without repetition.
LEMMA RemoveFirstAt ==
    ASSUME NEW S, NEW s \in Seq(S), IsInjective(s), NEW p \in 1 .. Len(s), NEW e, e = s[p]
    PROVE  RemoveFirst(s, e) = RemoveAt(s, p)
<1> DEFINE I == {i \in 1 .. Len(s) : s[i] = e}
           k == SelectInSeq(s, LAMBDA v : v = e)
<1>1. DOMAIN s = 1 .. Len(s) /\ Len(s) \in Nat
  BY LenProperties
<1>2. I = {p}
  BY <1>1 DEF IsInjective
<1>3. k = Min(I)
  BY <1>2 DEF SelectInSeq
<1>4. k = p
  <2>1. Min({p}) = p
    BY <1>1 DEF Min
  <2> QED BY <1>2, <1>3, <2>1
<1>5. RemoveFirst(s, e) = RemoveAt(s, k)
  BY DEF RemoveFirst
<1> QED BY <1>4, <1>5

\* A turn is given and taken back: the first has left the list.
LEMMA TurnBack ==
    ASSUME NEW S, NEW s \in Seq(S), IsInjective(s), s # <<>>,
           NEW m, m = Append(Tail(s), Head(s))
    PROVE  /\ m \in Seq(S) /\ IsInjective(m) /\ Len(m) = Len(s) /\ Len(m) \in 1 .. Len(m)
           /\ m[Len(m)] = Head(s)
           /\ RemoveAt(m, Len(m)) = Tail(s) /\ RemoveFirst(m, Head(s)) = Tail(s)
<1> DEFINE t == Tail(s)
           e == Head(s)
           n == Len(s)
<1>1. /\ e \in S /\ t \in Seq(S) /\ IsInjective(t) /\ e \notin Range(t)
  BY TailRange
<1>2. Len(t) = n - 1 /\ n \in Nat /\ n # 0
  <2>1. Len(Tail(s)) = Len(s) - 1
    BY HeadTailProperties
  <2>2. Len(s) \in Nat /\ Len(s) # 0
    BY EmptySeq, LenProperties
  <2> QED BY <2>1, <2>2
<1> HIDE DEF t, e, n
<1>3. m = Append(t, e)
  BY DEF t, e
<1>4. /\ m \in Seq(S) /\ Len(m) = n /\ m[n] = e /\ n \in 1 .. n
      /\ \A i \in 1 .. n - 1 : m[i] = t[i]
  <2>1. /\ Append(t, e) \in Seq(S) /\ Len(Append(t, e)) = Len(t) + 1
        /\ \A j \in 1 .. Len(t) : Append(t, e)[j] = t[j]
        /\ Append(t, e)[Len(t) + 1] = e
    BY <1>1, AppendFacts
  <2>2. (n - 1) + 1 = n /\ n \in 1 .. n
    BY <1>2
  <2> QED BY <1>2, <1>3, <2>1, <2>2
<1>5. IsInjective(m)
  <2>1. IsInjective(Append(t, e))
    BY <1>1, AppendRange
  <2> QED BY <1>3, <2>1
<1>6. RemoveAt(m, n) = t
  <2>1. /\ RemoveAt(m, n) \in Seq(S) /\ Len(RemoveAt(m, n)) = n - 1
        /\ \A j \in 1 .. n - 1 : RemoveAt(m, n)[j] = IF j < n THEN m[j] ELSE m[j + 1]
    <3>1. m \in Seq(S) /\ n \in 1 .. Len(m)
      BY <1>4
    <3>2. /\ RemoveAt(m, n) \in Seq(S) /\ Len(RemoveAt(m, n)) = Len(m) - 1
          /\ \A j \in 1 .. Len(m) - 1 : RemoveAt(m, n)[j] = IF j < n THEN m[j] ELSE m[j + 1]
      BY ONLY <3>1, RemoveAtFacts
    <3>3. Len(m) = n
      BY <1>4
    <3> QED BY <3>2, <3>3
  <2> DEFINE u == RemoveAt(m, n)
  <2>2. \A j \in 1 .. n - 1 : j < n
    BY <1>2
  <2>3. u \in Seq(S) /\ Len(u) = n - 1 /\ \A j \in 1 .. n - 1 : u[j] = t[j]
    BY <1>4, <2>1, <2>2
  <2> HIDE DEF u
  <2>4. u = t
    BY <1>1, <1>2, <2>3, SeqEqual
  <2> QED BY <2>4 DEF u
<1>7. RemoveFirst(m, e) = RemoveAt(m, n)
  BY <1>4, <1>5, RemoveFirstAt
<1> QED BY <1>4, <1>5, <1>6, <1>7 DEF t, e, n

-----------------------------------------------------------------------------
(* Recursive functions.                                                    *)

\* A function that is defined along 0 .. N, with values in T, exists.
Iterates(f, N, T, b, F) ==
    /\ f \in [0 .. N -> T]
    /\ f = [n \in 0 .. N |-> IF n = 0 THEN b ELSE F[n][f[n - 1]]]

LEMMA Recursion ==
    ASSUME NEW N \in Nat, NEW T, NEW b \in T, NEW F \in [1 .. N -> [T -> T]]
    PROVE  \E f : Iterates(f, N, T, b, F)
<1> DEFINE Good(m) == \E f \in [0 .. m -> T] :
                          \A n \in 0 .. m : f[n] = IF n = 0 THEN b ELSE F[n][f[n - 1]]
           Bad == {m \in 0 .. N : ~Good(m)}
<1>1. Good(0)
  <2> DEFINE g == [n \in 0 .. 0 |-> b]
  <2>1. g \in [0 .. 0 -> T]
    OBVIOUS
  <2>2. \A n \in 0 .. 0 : n = 0 /\ g[n] = b
    OBVIOUS
  <2> HIDE DEF g
  <2> QED BY <2>1, <2>2
<1>2. ASSUME NEW m \in 1 .. N, Good(m - 1) PROVE Good(m)
  <2>1. PICK f \in [0 .. m - 1 -> T] :
           \A n \in 0 .. m - 1 : f[n] = IF n = 0 THEN b ELSE F[n][f[n - 1]]
    BY <1>2
  <2> DEFINE v == F[m][f[m - 1]]
             g == [n \in 0 .. m |-> IF n = m THEN v ELSE f[n]]
  <2>2. m - 1 \in 0 .. m - 1 /\ m \in Int
    OBVIOUS
  <2>3. v \in T
    BY <2>1, <2>2
  <2>4. \A n \in 0 .. m : n # m => n \in 0 .. m - 1
    BY <2>2
  <2>5. g \in [0 .. m -> T]
    <3> HIDE DEF v
    <3> QED BY <2>1, <2>3, <2>4
  <2>6. ASSUME NEW n \in 0 .. m PROVE g[n] = IF n = 0 THEN b ELSE F[n][g[n - 1]]
    <3>1. n # 0 => n - 1 \in 0 .. m /\ n - 1 # m
      BY <2>2
    <3>2. n # 0 => g[n - 1] = f[n - 1]
      BY <3>1
    <3>3. CASE n = m
      <4>1. n # 0
        BY <3>3
      <4>2. g[n] = v
        BY <3>3
      <4> QED BY <3>2, <3>3, <4>1, <4>2
    <3>4. CASE n # m
      <4>1. g[n] = f[n] /\ n \in 0 .. m - 1
        BY <2>4, <3>4
      <4> HIDE DEF g
      <4> QED BY <2>1, <3>2, <4>1
    <3> QED BY <3>3, <3>4
  <2> HIDE DEF g
  <2> QED BY <2>5, <2>6
<1>3. Bad = {}
  <2>1. SUFFICES ASSUME Bad # {} PROVE FALSE
    OBVIOUS
  <2>2. Bad \in SUBSET Nat
    <3> HIDE DEF Good
    <3> QED OBVIOUS
  <2> HIDE DEF Bad
  <2>3. PICK m \in Bad : \A n \in Bad : m <= n
    BY <2>1, <2>2, LeastNat
  <2> HIDE DEF Good
  <2>4. m \in 0 .. N /\ ~Good(m)
    BY DEF Bad
  <2>5. m # 0 => m \in 1 .. N /\ m - 1 \in 0 .. N /\ ~(m <= m - 1)
    BY <2>4
  <2>6. m # 0 => Good(m - 1)
    BY <2>3, <2>5 DEF Bad
  <2> QED BY <1>1, <1>2, <2>4, <2>5, <2>6
<1>4. Good(N)
  <2> HIDE DEF Good
  <2> QED BY <1>3
<1>5. PICK f \in [0 .. N -> T] : \A n \in 0 .. N : f[n] = IF n = 0 THEN b ELSE F[n][f[n - 1]]
  BY <1>4
<1>6. f = [n \in 0 .. N |-> IF n = 0 THEN b ELSE F[n][f[n - 1]]]
  BY <1>5
<1>7. Iterates(f, N, T, b, F)
  BY <1>5, <1>6 DEF Iterates
<1> QED BY <1>7
=============================================================================
