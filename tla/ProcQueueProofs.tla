-------------------------- MODULE ProcQueueProofs --------------------------
(***************************************************************************)
(* What insertProcQ, removeProcQ and outProcQ return, for every queue: the *)
(* lemmas the proofs about the nucleus rest on.  A queue is described by   *)
(* its length, by the set of the PCBs it links (its Range) and by whether  *)
(* it links them once.                                                     *)
(***************************************************************************)
EXTENDS ProcQueue, TLAPS, SequenceTheorems, WellFoundedInduction,
        NaturalsInduction

\* A non-empty set of naturals has a least element: Min of it is defined.
LEMMA MinOfNat ==
  ASSUME NEW S \in SUBSET Nat, S # {}
  PROVE  Min(S) \in S /\ \A x \in S : Min(S) <= x
<1> DEFINE R == {ss \in Nat \X Nat : ss[1] < ss[2]}
<1>1. IsWellFoundedOn(R, Nat)
  BY NatLessThanWellFounded, Zenon DEF OpToRel
<1>2. PICK m \in S : \A y \in S : ~(<<y, m>> \in R)
  BY <1>1, WFMin
<1>3. \A y \in S : <<y, m>> \in Nat \X Nat /\ <<y, m>>[1] = y /\ <<y, m>>[2] = m
  OBVIOUS
<1>4. \A y \in S : ~(y < m)
  BY <1>2, <1>3
<1>5. \E x \in S : \A y \in S : x <= y
  BY <1>4
<1> QED BY <1>5 DEF Min

\* InsertAt shifts the elements from position i on by one.
LEMMA InsertAtProperties ==
  ASSUME NEW S, NEW q \in Seq(S), NEW e \in S, NEW i \in 1..(Len(q) + 1)
  PROVE  /\ InsertAt(q, i, e) \in Seq(S)
         /\ Len(InsertAt(q, i, e)) = Len(q) + 1
         /\ \A j \in 1..(Len(q) + 1) : InsertAt(q, i, e)[j] =
              IF j < i THEN q[j] ELSE IF j = i THEN e ELSE q[j - 1]
<1> DEFINE a == SubSeq(q, 1, i - 1)
           b == SubSeq(q, i, Len(q))
<1>1. a \in Seq(S) /\ Len(a) = i - 1 /\ \A j \in 1..(i - 1) : a[j] = q[j]
  BY SubSeqProperties
<1>2. /\ b \in Seq(S) /\ Len(b) = Len(q) - i + 1
      /\ \A j \in 1..(Len(q) - i + 1) : b[j] = q[i + j - 1]
  BY SubSeqProperties
<1>3. <<e>> \in Seq(S) /\ Len(<<e>>) = 1 /\ <<e>>[1] = e
  OBVIOUS
<1> HIDE DEF a, b
<1> DEFINE c == a \o <<e>>
<1>4. c \in Seq(S) /\ Len(c) = i /\ \A j \in 1..i : c[j] = IF j < i THEN q[j] ELSE e
  BY <1>1, <1>3, ConcatProperties
<1> HIDE DEF c
<1>5. /\ c \o b \in Seq(S) /\ Len(c \o b) = Len(q) + 1
      /\ \A j \in 1..(Len(q) + 1) :
           (c \o b)[j] = IF j <= i THEN c[j] ELSE b[j - i]
  <2>1. c \in Seq(S) /\ b \in Seq(S)
    BY <1>2, <1>4
  <2>2. /\ c \o b \in Seq(S) /\ Len(c \o b) = Len(c) + Len(b)
        /\ \A j \in 1..(Len(c) + Len(b)) :
             (c \o b)[j] = IF j <= Len(c) THEN c[j] ELSE b[j - Len(c)]
    BY <2>1, ConcatProperties
  <2>3. Len(c) = i /\ Len(c) + Len(b) = Len(q) + 1
    BY <1>2, <1>4
  <2> QED BY <2>2, <2>3
<1>6. InsertAt(q, i, e) = c \o b
  BY DEF InsertAt, a, b, c
<1> QED BY <1>6, <1>5, <1>4, <1>2

\* RemoveAt shifts the elements after position i back by one.
LEMMA RemoveAtProperties ==
  ASSUME NEW S, NEW q \in Seq(S), NEW i \in 1..Len(q)
  PROVE  /\ RemoveAt(q, i) \in Seq(S)
         /\ Len(RemoveAt(q, i)) = Len(q) - 1
         /\ \A j \in 1..(Len(q) - 1) :
              RemoveAt(q, i)[j] = IF j < i THEN q[j] ELSE q[j + 1]
<1> DEFINE a == SubSeq(q, 1, i - 1)
           b == SubSeq(q, i + 1, Len(q))
<1>1. a \in Seq(S) /\ Len(a) = i - 1 /\ \A j \in 1..(i - 1) : a[j] = q[j]
  BY SubSeqProperties
<1>2. /\ b \in Seq(S) /\ Len(b) = Len(q) - i
      /\ \A j \in 1..(Len(q) - i) : b[j] = q[i + j]
  <2>1. \A j \in (i + 1)..Len(q) : q[j] \in S
    OBVIOUS
  <2>2. /\ b \in Seq(S)
        /\ Len(b) = IF i + 1 <= Len(q) THEN Len(q) - (i + 1) + 1 ELSE 0
        /\ \A j \in 1..(Len(q) - (i + 1) + 1) : b[j] = q[(i + 1) + j - 1]
    BY <2>1, SubSeqProperties
  <2> QED BY <2>2
<1> HIDE DEF a, b
<1>3. /\ a \o b \in Seq(S) /\ Len(a \o b) = Len(q) - 1
      /\ \A j \in 1..(Len(q) - 1) :
           (a \o b)[j] = IF j <= i - 1 THEN a[j] ELSE b[j - (i - 1)]
  <2>1. a \in Seq(S) /\ b \in Seq(S)
    BY <1>1, <1>2
  <2>2. /\ a \o b \in Seq(S) /\ Len(a \o b) = Len(a) + Len(b)
        /\ \A j \in 1..(Len(a) + Len(b)) :
             (a \o b)[j] = IF j <= Len(a) THEN a[j] ELSE b[j - Len(a)]
    BY <2>1, ConcatProperties
  <2>3. Len(a) = i - 1 /\ Len(a) + Len(b) = Len(q) - 1
    BY <1>1, <1>2
  <2> QED BY <2>2, <2>3
<1>4. RemoveAt(q, i) = a \o b
  BY DEF RemoveAt, a, b
<1> QED BY <1>4, <1>3, <1>2, <1>1
-----------------------------------------------------------------------------
\* The place insertProcQ finds is a place of the queue; everything before it
\* has at least the priority of p, and what stands there has a lower one.
LEMMA InsertPosProperties ==
  ASSUME NEW S, NEW q \in Seq(S), NEW p \in S, NEW pri \in [S -> Int]
  PROVE  /\ InsertPos(q, p, pri) \in 1..(Len(q) + 1)
         /\ \A j \in 1..Len(q) :
              j < InsertPos(q, p, pri) => pri[q[j]] >= pri[p]
         /\ InsertPos(q, p, pri) <= Len(q)
              => pri[q[InsertPos(q, p, pri)]] < pri[p]
<1> DEFINE lower == {i \in 1..Len(q) : pri[q[i]] < pri[p]}
<1>1. lower \in SUBSET Nat /\ \A j \in 1..Len(q) : pri[q[j]] \in Int
  OBVIOUS
<1>2. CASE lower = {}
  BY <1>1, <1>2 DEF InsertPos
<1>3. CASE lower # {}
  <2>1. InsertPos(q, p, pri) = Min(lower)
    BY <1>3 DEF InsertPos
  <2>2. Min(lower) \in lower /\ \A x \in lower : Min(lower) <= x
    BY <1>1, <1>3, MinOfNat
  <2>3. PICK m \in 1..Len(q) : m = Min(lower) /\ pri[q[m]] < pri[p]
    BY <2>2
  <2>4. \A j \in 1..Len(q) : j < m => ~(pri[q[j]] < pri[p])
    BY <2>2, <2>3
  <2>5. InsertPos(q, p, pri) = m
    BY <2>1, <2>3
  <2>6. pri[p] \in Int /\ Len(q) \in Nat
    OBVIOUS
  <2> HIDE DEF lower
  <2> QED BY <1>1, <2>3, <2>4, <2>5, <2>6
<1> QED BY <1>2, <1>3

\* insertProcQ adds p to the PCBs of the queue.
LEMMA InsertProcQProperties ==
  ASSUME NEW S, NEW q \in Seq(S), NEW p \in S, NEW pri \in [S -> Int]
  PROVE  /\ InsertProcQ(q, p, pri) \in Seq(S)
         /\ Len(InsertProcQ(q, p, pri)) = Len(q) + 1
         /\ Range(InsertProcQ(q, p, pri)) = Range(q) \cup {p}
         /\ LinkedOnce(q) /\ p \notin Range(q)
              => LinkedOnce(InsertProcQ(q, p, pri))
<1> DEFINE i == InsertPos(q, p, pri)
           r == InsertProcQ(q, p, pri)
<1>1. i \in 1..(Len(q) + 1)
  BY InsertPosProperties
<1>2. r = InsertAt(q, i, p)
  BY DEF InsertProcQ
<1> HIDE DEF i, r
<1>3. /\ r \in Seq(S) /\ Len(r) = Len(q) + 1
      /\ \A j \in 1..(Len(q) + 1) : r[j] =
           IF j < i THEN q[j] ELSE IF j = i THEN p ELSE q[j - 1]
  <2>1. /\ InsertAt(q, i, p) \in Seq(S) /\ Len(InsertAt(q, i, p)) = Len(q) + 1
        /\ \A j \in 1..(Len(q) + 1) : InsertAt(q, i, p)[j] =
             IF j < i THEN q[j] ELSE IF j = i THEN p ELSE q[j - 1]
    BY <1>1, InsertAtProperties
  <2> QED BY <1>2, <2>1
<1>4. Len(q) \in Nat /\ i \in Nat
  BY <1>1
<1>5. /\ \A j \in 1..Len(q) : j < i => j \in 1..Len(r) /\ r[j] = q[j]
      /\ \A j \in 1..Len(q) : j >= i => j + 1 \in 1..Len(r) /\ r[j + 1] = q[j]
      /\ i \in 1..Len(r) /\ r[i] = p
  BY <1>1, <1>3, <1>4
<1>6. \A j \in 1..Len(r) :
        \/ j < i /\ j \in 1..Len(q) /\ r[j] = q[j]
        \/ j = i /\ r[j] = p
        \/ j > i /\ j - 1 \in 1..Len(q) /\ r[j] = q[j - 1]
  BY <1>1, <1>3, <1>4
<1>7. /\ Range(r) = {r[j] : j \in 1..Len(r)}
      /\ Range(q) = {q[j] : j \in 1..Len(q)}
  BY <1>3, RangeEquality
<1>8. Range(r) = Range(q) \cup {p}
  <2>1. ASSUME NEW x \in Range(q) PROVE x \in Range(r)
    <3>1. PICK j \in 1..Len(q) : q[j] = x
      BY <1>7
    <3>2. j < i \/ j >= i
      BY <1>4
    <3> QED BY <3>1, <3>2, <1>5, <1>7
  <2>2. p \in Range(r)
    BY <1>5, <1>7
  <2>3. ASSUME NEW x \in Range(r) PROVE x \in Range(q) \cup {p}
    BY <1>6, <1>7
  <2> QED BY <2>1, <2>2, <2>3
<1>9. ASSUME LinkedOnce(q), p \notin Range(q) PROVE LinkedOnce(r)
  <2> SUFFICES ASSUME NEW j \in 1..Len(r), NEW k \in 1..Len(r), r[j] = r[k]
               PROVE  j = k
    BY DEF LinkedOnce
  <2>1. \A n \in 1..Len(q) : q[n] # p
    BY <1>7, <1>9
  <2>2. \A m, n \in 1..Len(q) : q[m] = q[n] => m = n
    BY <1>9 DEF LinkedOnce
  <2>3. j \in Int /\ k \in Int
    OBVIOUS
  <2>4. \/ j < i /\ j \in 1..Len(q) /\ r[j] = q[j]
        \/ j = i /\ r[j] = p
        \/ j > i /\ j - 1 \in 1..Len(q) /\ r[j] = q[j - 1]
    BY <1>6
  <2>5. \/ k < i /\ k \in 1..Len(q) /\ r[k] = q[k]
        \/ k = i /\ r[k] = p
        \/ k > i /\ k - 1 \in 1..Len(q) /\ r[k] = q[k - 1]
    BY <1>6
  <2>6. CASE r[j] = p
    <3>1. j = i
      BY <2>1, <2>4, <2>6
    <3>2. k = i
      BY <2>1, <2>5, <2>6
    <3> QED BY <3>1, <3>2
  <2>7. CASE r[j] # p
    <3>1. PICK m \in 1..Len(q) :
            r[j] = q[m] /\ ((j < i /\ m = j) \/ (j > i /\ m = j - 1))
      BY <2>4, <2>7
    <3>2. PICK n \in 1..Len(q) :
            r[k] = q[n] /\ ((k < i /\ n = k) \/ (k > i /\ n = k - 1))
      BY <2>5, <2>7
    <3>3. m = n
      BY <2>2, <3>1, <3>2
    <3> QED BY <1>4, <2>3, <3>1, <3>2, <3>3
  <2> QED BY <2>6, <2>7
<1> QED BY <1>3, <1>8, <1>9 DEF r

\* removeProcQ: the head leaves a queue that links it once.
LEMMA RemoveProcQProperties ==
  ASSUME NEW S, NEW q \in Seq(S), q # <<>>
  PROVE  /\ Head(q) \in S /\ Head(q) \in Range(q)
         /\ Tail(q) \in Seq(S)
         /\ Len(q) \in Nat \ {0} /\ Len(Tail(q)) = Len(q) - 1
         /\ Range(Tail(q)) \subseteq Range(q)
         /\ LinkedOnce(q) => /\ LinkedOnce(Tail(q))
                             /\ Range(Tail(q)) = Range(q) \ {Head(q)}
<1>1. /\ Head(q) \in S /\ Head(q) = q[1]
      /\ Tail(q) \in Seq(S) /\ Len(Tail(q)) = Len(q) - 1
      /\ \A i \in 1..Len(Tail(q)) : Tail(q)[i] = q[i + 1]
  BY HeadTailProperties
<1>2. Len(q) \in Nat \ {0}
  BY EmptySeq
<1>3. Range(Tail(q)) = {q[i] : i \in 2..Len(q)}
  <2>1. \A i \in 2..Len(q) : i - 1 \in 1..Len(Tail(q)) /\ Tail(q)[i - 1] = q[i]
    BY <1>1, <1>2
  <2>2. \A j \in 1..Len(Tail(q)) : j + 1 \in 2..Len(q)
    BY <1>1, <1>2
  <2>3. Range(Tail(q)) = {Tail(q)[i] : i \in 1..Len(Tail(q))}
    BY <1>1, RangeEquality
  <2>4. ASSUME NEW x \in Range(Tail(q)) PROVE x \in {q[i] : i \in 2..Len(q)}
    BY <2>2, <2>3, <1>1
  <2>5. ASSUME NEW i \in 2..Len(q) PROVE q[i] \in Range(Tail(q))
    BY <2>1, <2>3
  <2> QED BY <2>4, <2>5
<1>4. Range(q) = {q[i] : i \in 1..Len(q)}
  BY RangeEquality
<1>5. ASSUME LinkedOnce(q)
      PROVE  LinkedOnce(Tail(q)) /\ Range(Tail(q)) = Range(q) \ {Head(q)}
  <2>1. LinkedOnce(Tail(q))
    BY <1>1, <1>2, <1>5 DEF LinkedOnce
  <2>2. \A i \in 2..Len(q) : q[i] # q[1]
    BY <1>2, <1>5 DEF LinkedOnce
  <2> QED BY <2>1, <2>2, <1>1, <1>2, <1>3, <1>4
<1> QED BY <1>1, <1>2, <1>3, <1>4, <1>5

\* outProcQ: p leaves a queue that links it once, and no other does.
LEMMA OutProcQProperties ==
  ASSUME NEW S, NEW q \in Seq(S), NEW p
  PROVE  /\ OutProcQ(q, p) \in Seq(S)
         /\ p \notin Range(q) => OutProcQ(q, p) = q
         /\ p \in Range(q) => Len(OutProcQ(q, p)) = Len(q) - 1
         /\ LinkedOnce(q) => /\ LinkedOnce(OutProcQ(q, p))
                             /\ Range(OutProcQ(q, p)) = Range(q) \ {p}
<1>1. CASE p \notin Range(q)
  <2>1. ~ \E i \in 1..Len(q) : q[i] = p
    BY <1>1 DEF Range
  <2>2. OutProcQ(q, p) = q
    BY <2>1 DEF OutProcQ, RemoveFirst
  <2> QED BY <1>1, <2>2
<1>2. CASE p \in Range(q)
  <2> DEFINE I == {i \in 1..Len(q) : q[i] = p}
             r == RemoveAt(q, Min(I))
  <2>1. I # {} /\ I \in SUBSET Nat
    BY <1>2 DEF Range
  <2>2. Min(I) \in 1..Len(q) /\ q[Min(I)] = p
    BY <2>1, MinOfNat
  <2>3. OutProcQ(q, p) = r
    BY <2>1 DEF OutProcQ, RemoveFirst, SelectInSeq
  <2> HIDE DEF I
  <2>4. PICK m \in 1..Len(q) : m = Min(I) /\ q[m] = p
    BY <2>2
  <2>5. /\ r \in Seq(S) /\ Len(r) = Len(q) - 1
        /\ \A j \in 1..(Len(q) - 1) : r[j] = IF j < m THEN q[j] ELSE q[j + 1]
    BY <2>4, RemoveAtProperties
  <2> HIDE DEF r
  <2>6. ASSUME LinkedOnce(q)
        PROVE  LinkedOnce(r) /\ Range(r) = Range(q) \ {p}
    <3>1. \A j \in 1..Len(r) : LET k == IF j < m THEN j ELSE j + 1 IN
            k \in 1..Len(q) /\ k # m /\ r[j] = q[k]
      BY <2>4, <2>5
    <3>2. \A k \in 1..Len(q) : k # m =>
            LET j == IF k < m THEN k ELSE k - 1 IN
            j \in 1..Len(r) /\ r[j] = q[k]
      BY <2>4, <2>5
    <3>3. \A j, k \in 1..Len(q) : q[j] = q[k] => j = k
      BY <2>6 DEF LinkedOnce
    <3>4. /\ Range(r) = {r[j] : j \in 1..Len(r)}
          /\ Range(q) = {q[j] : j \in 1..Len(q)}
      BY <2>5, RangeEquality
    <3>5. LinkedOnce(r)
      <4> SUFFICES ASSUME NEW j \in 1..Len(r), NEW k \in 1..Len(r), r[j] = r[k]
                   PROVE  j = k
        BY DEF LinkedOnce
      <4>1. (IF j < m THEN j ELSE j + 1) = (IF k < m THEN k ELSE k + 1)
        BY <3>1, <3>3
      <4> QED BY <4>1, <2>4
    <3>6. ASSUME NEW x \in Range(r) PROVE x \in Range(q) \ {p}
      <4>1. PICK k \in 1..Len(q) : k # m /\ x = q[k]
        BY <3>1, <3>4
      <4> QED BY <4>1, <2>4, <3>3, <3>4
    <3>7. ASSUME NEW x \in Range(q) \ {p} PROVE x \in Range(r)
      <4>1. PICK k \in 1..Len(q) : x = q[k] /\ k # m
        BY <2>4, <3>4
      <4> QED BY <4>1, <3>2, <3>4
    <3> QED BY <3>5, <3>6, <3>7
  <2> QED BY <1>2, <2>3, <2>5, <2>6
<1> QED BY <1>1, <1>2

\* list_add_tail of a PCB on the free list.
LEMMA FreePcbProperties ==
  ASSUME NEW S, NEW q \in Seq(S), NEW p \in S
  PROVE  /\ Append(q, p) \in Seq(S)
         /\ Range(Append(q, p)) = Range(q) \cup {p}
         /\ LinkedOnce(q) /\ p \notin Range(q) => LinkedOnce(Append(q, p))
<1> DEFINE r == Append(q, p)
<1>1. /\ r \in Seq(S) /\ Len(r) = Len(q) + 1
      /\ \A i \in 1..Len(q) : r[i] = q[i]
      /\ r[Len(q) + 1] = p
  BY AppendProperties
<1> HIDE DEF r
<1>2. Range(r) = Range(q) \cup {p}
  BY <1>1 DEF Range
<1>3. ASSUME LinkedOnce(q), p \notin Range(q) PROVE LinkedOnce(r)
  <2>1. \A n \in 1..Len(q) : q[n] # p
    BY <1>3 DEF Range
  <2> QED BY <1>1, <1>3, <2>1 DEF LinkedOnce
<1> QED BY <1>1, <1>2, <1>3 DEF r

\* A queue is empty when it links nothing.
LEMMA EmptyRange ==
  ASSUME NEW S, NEW q \in Seq(S)
  PROVE  /\ Range(q) \subseteq S
         /\ q = <<>> <=> Range(q) = {}
         /\ q = <<>> <=> Len(q) = 0
         /\ Len(q) \in Nat
<1>1. Len(q) \in Nat /\ (q # <<>> => Len(q) \in Nat \ {0}) /\ Len(<<>>) = 0
  BY EmptySeq, LenProperties
<1>2. q # <<>> => q[1] \in Range(q)
  BY <1>1 DEF Range
<1>3. Range(q) \subseteq S
  BY DEF Range
<1>4. Range(<<>>) = {}
  BY DEF Range
<1> QED BY <1>1, <1>2, <1>3, <1>4
-----------------------------------------------------------------------------
(* Priority order                                                          *)

\* The order of a queue depends on the priorities of its own PCBs only.
LEMMA SortedAgrees ==
  ASSUME NEW q, NEW pri, NEW pri2, SortedBy(q, pri),
         \A i \in 1..Len(q) : pri2[q[i]] = pri[q[i]]
  PROVE  SortedBy(q, pri2)
BY DEF SortedBy

\* insertProcQ keeps the order, and puts p behind every PCB of its own
\* priority or a higher one.
LEMMA InsertProcQSorted ==
  ASSUME NEW S, NEW q \in Seq(S), NEW p \in S, NEW pri \in [S -> Int],
         SortedBy(q, pri)
  PROVE  /\ SortedBy(InsertProcQ(q, p, pri), pri)
         /\ \A x \in Range(q) : pri[p] <= pri[x] =>
              \E i, j \in 1..Len(InsertProcQ(q, p, pri)) :
                /\ i < j
                /\ InsertProcQ(q, p, pri)[i] = x /\ InsertProcQ(q, p, pri)[j] = p
<1> DEFINE m == InsertPos(q, p, pri)
           r == InsertProcQ(q, p, pri)
<1>1. /\ m \in 1..(Len(q) + 1)
      /\ \A j \in 1..Len(q) : j < m => pri[q[j]] >= pri[p]
      /\ m <= Len(q) => pri[q[m]] < pri[p]
  BY InsertPosProperties
<1>2. r = InsertAt(q, m, p)
  BY DEF InsertProcQ
<1> HIDE DEF m, r
<1>3. /\ r \in Seq(S) /\ Len(r) = Len(q) + 1
      /\ \A j \in 1..(Len(q) + 1) : r[j] =
           IF j < m THEN q[j] ELSE IF j = m THEN p ELSE q[j - 1]
  <2>1. /\ InsertAt(q, m, p) \in Seq(S) /\ Len(InsertAt(q, m, p)) = Len(q) + 1
        /\ \A j \in 1..(Len(q) + 1) : InsertAt(q, m, p)[j] =
             IF j < m THEN q[j] ELSE IF j = m THEN p ELSE q[j - 1]
    BY <1>1, InsertAtProperties
  <2> QED BY <1>2, <2>1
<1>4. /\ Len(q) \in Nat /\ m \in Nat /\ pri[p] \in Int
      /\ \A j \in 1..Len(q) : q[j] \in S /\ pri[q[j]] \in Int
  BY <1>1
<1>5. \A i, j \in 1..Len(q) : i < j => pri[q[i]] >= pri[q[j]]
  BY DEF SortedBy
<1>6. \A j \in 1..Len(q) : j >= m => pri[q[j]] < pri[p]
  <2> SUFFICES ASSUME NEW j \in 1..Len(q), j >= m PROVE pri[q[j]] < pri[p]
    OBVIOUS
  <2>1. m \in 1..Len(q) /\ pri[q[m]] < pri[p]
    BY <1>1, <1>4
  <2>2. pri[q[m]] >= pri[q[j]]
    <3>1. CASE j = m
      BY <1>4, <2>1, <3>1
    <3>2. CASE m < j
      BY <1>5, <2>1, <3>2
    <3> QED BY <1>4, <3>1, <3>2
  <2> QED BY <1>4, <2>1, <2>2
<1>7. SortedBy(r, pri)
  <2> SUFFICES ASSUME NEW i \in 1..Len(r), NEW j \in 1..Len(r), i < j
               PROVE  pri[r[i]] >= pri[r[j]]
    BY DEF SortedBy
  <2>1. i \in 1..(Len(q) + 1) /\ j \in 1..(Len(q) + 1) /\ i \in Nat /\ j \in Nat
    BY <1>3, <1>4
  <2>2. CASE j < m
    <3>1. r[i] = q[i] /\ r[j] = q[j] /\ i \in 1..Len(q) /\ j \in 1..Len(q)
      BY <1>1, <1>3, <1>4, <2>1, <2>2
    <3> QED BY <1>5, <3>1
  <2>3. CASE j = m
    <3>1. r[i] = q[i] /\ r[j] = p /\ i \in 1..Len(q) /\ i < m
      BY <1>1, <1>3, <1>4, <2>1, <2>3
    <3> QED BY <1>1, <3>1
  <2>4. CASE j > m /\ i < m
    <3>1. r[i] = q[i] /\ r[j] = q[j - 1] /\ i \in 1..Len(q) /\ j - 1 \in 1..Len(q)
      BY <1>1, <1>3, <1>4, <2>1, <2>4
    <3>2. pri[q[i]] >= pri[p] /\ pri[q[j - 1]] < pri[p]
      BY <1>1, <1>4, <1>6, <2>1, <2>4, <3>1
    <3> QED BY <1>4, <3>1, <3>2
  <2>5. CASE j > m /\ i = m
    <3>1. r[i] = p /\ r[j] = q[j - 1] /\ j - 1 \in 1..Len(q) /\ j - 1 >= m
      BY <1>1, <1>3, <1>4, <2>1, <2>5
    <3>2. pri[q[j - 1]] < pri[p]
      BY <1>6, <3>1
    <3> QED BY <1>4, <3>1, <3>2
  <2>6. CASE j > m /\ i > m
    <3>1. /\ r[i] = q[i - 1] /\ r[j] = q[j - 1]
          /\ i - 1 \in 1..Len(q) /\ j - 1 \in 1..Len(q) /\ i - 1 < j - 1
      BY <1>1, <1>3, <1>4, <2>1, <2>6
    <3> QED BY <1>5, <3>1
  <2> QED BY <1>4, <2>1, <2>2, <2>3, <2>4, <2>5, <2>6
<1>8. ASSUME NEW x \in Range(q), pri[p] <= pri[x]
      PROVE  \E i, j \in 1..Len(r) : i < j /\ r[i] = x /\ r[j] = p
  <2>1. PICK i \in 1..Len(q) : q[i] = x
    BY DEF Range
  <2>2. i < m
    BY <1>4, <1>6, <1>8, <2>1
  <2>3. i \in 1..Len(r) /\ m \in 1..Len(r) /\ r[i] = x /\ r[m] = p
    BY <1>1, <1>3, <1>4, <2>1, <2>2
  <2> QED BY <2>2, <2>3
<1> QED BY <1>7, <1>8 DEF r

\* removeProcQ keeps the order of the rest.
LEMMA TailSorted ==
  ASSUME NEW S, NEW q \in Seq(S), q # <<>>, NEW pri, SortedBy(q, pri)
  PROVE  /\ SortedBy(Tail(q), pri)
         /\ \A i, j \in 1..Len(q) : i < j /\ q[i] \in Range(Tail(q)) /\ LinkedOnce(q) =>
              /\ i - 1 \in 1..Len(Tail(q)) /\ j - 1 \in 1..Len(Tail(q)) /\ i - 1 < j - 1
              /\ Tail(q)[i - 1] = q[i] /\ Tail(q)[j - 1] = q[j]
<1>1. /\ Tail(q) \in Seq(S) /\ Len(Tail(q)) = Len(q) - 1 /\ Head(q) = q[1]
      /\ \A i \in 1..Len(Tail(q)) : Tail(q)[i] = q[i + 1]
  BY HeadTailProperties
<1>2. Len(q) \in Nat \ {0}
  BY EmptySeq
<1>3. SortedBy(Tail(q), pri)
  BY <1>1, <1>2 DEF SortedBy
<1>4. ASSUME NEW i \in 1..Len(q), NEW j \in 1..Len(q), i < j,
             q[i] \in Range(Tail(q)), LinkedOnce(q)
      PROVE  /\ i - 1 \in 1..Len(Tail(q)) /\ j - 1 \in 1..Len(Tail(q)) /\ i - 1 < j - 1
             /\ Tail(q)[i - 1] = q[i] /\ Tail(q)[j - 1] = q[j]
  <2>1. q[i] # q[1]
    BY <1>1, <1>4, RemoveProcQProperties
  <2>2. i # 1
    BY <2>1
  <2> QED BY <1>1, <1>2, <1>4, <2>2
<1> QED BY <1>3, <1>4

\* outProcQ keeps the order of the rest.
LEMMA OutProcQSorted ==
  ASSUME NEW S, NEW q \in Seq(S), NEW p, NEW pri, SortedBy(q, pri)
  PROVE  SortedBy(OutProcQ(q, p), pri)
<1>1. CASE p \notin Range(q)
  BY <1>1, OutProcQProperties
<1>2. CASE p \in Range(q)
  <2> DEFINE I == {i \in 1..Len(q) : q[i] = p}
  <2>1. I # {} /\ I \in SUBSET Nat
    BY <1>2 DEF Range
  <2>2. Min(I) \in 1..Len(q)
    BY <2>1, MinOfNat
  <2>3. OutProcQ(q, p) = RemoveAt(q, Min(I))
    BY <2>1 DEF OutProcQ, RemoveFirst, SelectInSeq
  <2> HIDE DEF I
  <2>4. PICK m \in 1..Len(q) : m = Min(I)
    BY <2>2
  <2>5. /\ Len(OutProcQ(q, p)) = Len(q) - 1
        /\ \A j \in 1..(Len(q) - 1) :
             OutProcQ(q, p)[j] = IF j < m THEN q[j] ELSE q[j + 1]
    BY <2>3, <2>4, RemoveAtProperties
  <2> QED BY <2>4, <2>5 DEF SortedBy
<1> QED BY <1>1, <1>2
=============================================================================
