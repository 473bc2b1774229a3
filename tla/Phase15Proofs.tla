---------------------------- MODULE Phase15Proofs ----------------------------
(***************************************************************************)
(* Proofs about the nucleus of Phase 1.5, for any number of tests: none is *)
(* lost, and ageing is bounded.                                            *)
(***************************************************************************)
EXTENDS Phase15, ProcQueueProofs

Type15 ==
  /\ readyQ \in Seq(Proc)
  /\ prio \in [Proc -> Int]
  /\ curr \in Proc \cup {NoProc}
  /\ halted \in BOOLEAN
  /\ round \in [Proc -> Nat]
  /\ ~halted => curr \in Proc

\* The further back a test is, the less it can have aged.  For this bound to
\* survive an insertion before the test, the queue must be sorted: the tests
\* behind the one that joins have less than its original priority.
AgeByPlace ==
  /\ Len(readyQ) <= NumProc - 1
  /\ SortedBy(readyQ, prio)
  /\ \A i \in 1..Len(readyQ) : prio[readyQ[i]] <= 2 * NumProc - 1 - i

Inv15 == Type15 /\ OnePlace /\ AgeByPlace

LEMMA Constants15 ==
  /\ NumProc \in Nat /\ NumProc > 1 /\ Steps \in Nat /\ NumProc \in Proc
  /\ NoProc \notin Proc /\ Proc \subseteq Nat /\ \A p \in Proc : p <= NumProc
BY Phase15Assumption DEF Proc, NoProc

LEMMA Init15Inv == Init15 => Inv15
<1> SUFFICES ASSUME Init15 PROVE Inv15
  OBVIOUS
<1>1. /\ readyQ = [i \in 1..(NumProc - 1) |-> NumProc - i]
      /\ prio = [p \in Proc |-> p] /\ curr = NumProc /\ halted = FALSE
      /\ round = [p \in Proc |-> 0]
  BY DEF Init15
<1>2. readyQ \in Seq(Proc) /\ Len(readyQ) = NumProc - 1
  BY <1>1, Constants15 DEF Proc
<1>3. \A i \in 1..Len(readyQ) : readyQ[i] = NumProc - i /\ prio[readyQ[i]] = NumProc - i
  BY <1>1, <1>2, Constants15 DEF Proc
<1>4. Type15
  <2>1. prio \in [Proc -> Int] /\ round \in [Proc -> Nat]
    BY <1>1, Constants15
  <2>2. curr \in Proc /\ halted \in BOOLEAN
    BY <1>1, Constants15
  <2> QED BY <1>2, <2>1, <2>2 DEF Type15
<1>5. OnePlace
  <2>1. LinkedOnce(readyQ)
    BY <1>2, <1>3, Constants15 DEF LinkedOnce
  <2>2. curr \notin Ready15
    BY <1>1, <1>2, <1>3, Constants15 DEF Ready15, Range
  <2>3. ASSUME NEW p \in Proc PROVE p \in Ready15 \cup {curr}
    <3>1. CASE p = NumProc
      BY <1>1, <3>1
    <3>2. CASE p # NumProc
      <4>1. NumProc - p \in 1..Len(readyQ) /\ NumProc - (NumProc - p) = p
        BY <1>2, <3>2, Constants15 DEF Proc
      <4>2. readyQ[NumProc - p] = p
        BY <1>3, <4>1
      <4> QED BY <1>2, <4>1, <4>2, RangeEquality DEF Ready15
    <3> QED BY <3>1, <3>2
  <2> QED BY <2>1, <2>2, <2>3 DEF OnePlace
<1>6. AgeByPlace
  BY <1>2, <1>3, Constants15 DEF AgeByPlace, SortedBy
<1> QED BY <1>4, <1>5, <1>6 DEF Inv15
-----------------------------------------------------------------------------
(* The scheduler                                                           *)

\* What the invariant needs of the queue rq after a step, for the running
\* process c and the priorities pr.
QueueInv(rq, pr, c) ==
  /\ rq \in Seq(Proc) /\ pr \in [Proc -> Int] /\ LinkedOnce(rq)
  /\ c \notin Range(rq)
  /\ Len(rq) <= NumProc - 1 /\ SortedBy(rq, pr)
  /\ \A i \in 1..Len(rq) : pr[rq[i]] <= 2 * NumProc - 1 - i

\* A time slice: the tests in the queue age and the running one goes back
\* among them with its original priority.
LEMMA Rotate ==
  ASSUME Inv15, curr \in Proc, readyQ # <<>>
  PROVE  /\ QueueInv(Tail(Requeue(curr)), Aged(curr), Head(Requeue(curr)))
         /\ Head(Requeue(curr)) \in Proc
         /\ Range(Tail(Requeue(curr))) \cup {Head(Requeue(curr))} = Ready15 \cup {curr}
<1> DEFINE a == Aged(curr)
           w == InsertProcQ(readyQ, curr, a)
           m == InsertPos(readyQ, curr, a)
<1>1. /\ readyQ \in Seq(Proc) /\ prio \in [Proc -> Int]
      /\ LinkedOnce(readyQ) /\ curr \notin Range(readyQ)
      /\ Len(readyQ) <= NumProc - 1 /\ Len(readyQ) \in Nat
      /\ \A i, j \in 1..Len(readyQ) : i < j => prio[readyQ[i]] >= prio[readyQ[j]]
      /\ \A i \in 1..Len(readyQ) : prio[readyQ[i]] <= 2 * NumProc - 1 - i
  BY DEF Inv15, Type15, OnePlace, AgeByPlace, SortedBy, Ready15
<1>2. a \in [Proc -> Int] /\ a[curr] = curr
  BY <1>1, Constants15 DEF Aged
<1>3. \A i \in 1..Len(readyQ) :
        /\ readyQ[i] \in Proc /\ readyQ[i] \in Range(readyQ) /\ readyQ[i] # curr
        /\ prio[readyQ[i]] \in Int
  BY <1>1 DEF Range
<1>4. \A i \in 1..Len(readyQ) : a[readyQ[i]] = prio[readyQ[i]] + 1
  BY <1>3, Constants15 DEF Aged
<1>5. Requeue(curr) = w
  BY Constants15 DEF Requeue
<1> HIDE DEF a
<1>6. SortedBy(readyQ, a)
  BY <1>1, <1>3, <1>4 DEF SortedBy
<1>7. /\ w \in Seq(Proc) /\ Len(w) = Len(readyQ) + 1 /\ LinkedOnce(w)
      /\ Range(w) = Range(readyQ) \cup {curr} /\ SortedBy(w, a)
  BY <1>1, <1>2, <1>6, InsertProcQProperties, InsertProcQSorted
<1>8. /\ m \in 1..(Len(readyQ) + 1)
      /\ \A j \in 1..Len(w) : w[j] =
           IF j < m THEN readyQ[j] ELSE IF j = m THEN curr ELSE readyQ[j - 1]
  <2>1. m \in 1..(Len(readyQ) + 1)
    BY <1>1, <1>2, InsertPosProperties
  <2>2. w = InsertAt(readyQ, m, curr)
    BY DEF InsertProcQ
  <2> HIDE DEF m
  <2>3. \A j \in 1..(Len(readyQ) + 1) : InsertAt(readyQ, m, curr)[j] =
          IF j < m THEN readyQ[j] ELSE IF j = m THEN curr ELSE readyQ[j - 1]
    BY <1>1, <2>1, InsertAtProperties
  <2> HIDE DEF w
  <2> QED BY <1>7, <2>1, <2>2, <2>3
<1> HIDE DEF m, w
<1>9. \A j \in 1..Len(w) : a[w[j]] <= 2 * NumProc - j
  <2> SUFFICES ASSUME NEW j \in 1..Len(w) PROVE a[w[j]] <= 2 * NumProc - j
    OBVIOUS
  <2>1. j \in Nat /\ m \in Nat /\ j <= NumProc /\ curr <= NumProc
    BY <1>1, <1>7, <1>8, Constants15
  <2>2. CASE j < m
    <3>1. j \in 1..Len(readyQ) /\ w[j] = readyQ[j]
      BY <1>1, <1>8, <2>1, <2>2
    <3>2. prio[readyQ[j]] <= 2 * NumProc - 1 - j
      BY <1>1, <3>1
    <3> QED BY <1>3, <1>4, <2>1, <3>1, <3>2, Constants15
  <2>3. CASE j >= m
    <3>1. a[w[m]] = curr /\ m \in 1..Len(w)
      BY <1>1, <1>2, <1>7, <1>8
    <3>2. \A i \in 1..Len(w) : a[w[i]] \in Int
      BY <1>2, <1>7
    <3>3. a[w[j]] <= curr
      <4>1. CASE j = m
        BY <2>1, <3>1, <4>1, Constants15
      <4>2. CASE m < j
        BY <1>7, <3>1, <3>2, <4>2 DEF SortedBy
      <4> QED BY <2>1, <2>3, <4>1, <4>2
    <3> QED BY <2>1, <3>2, <3>3, Constants15
  <2> QED BY <2>1, <2>2, <2>3
<1>10. w # <<>>
  BY <1>1, <1>7, EmptyRange
<1>11. /\ Tail(w) \in Seq(Proc) /\ Len(Tail(w)) = Len(w) - 1
       /\ Head(w) \in Proc /\ Head(w) \in Range(w) /\ LinkedOnce(Tail(w))
       /\ Range(Tail(w)) = Range(w) \ {Head(w)} /\ SortedBy(Tail(w), a)
  BY <1>7, <1>10, RemoveProcQProperties, TailSorted
<1>12. \A i \in 1..Len(Tail(w)) : a[Tail(w)[i]] <= 2 * NumProc - 1 - i
  <2>1. \A i \in 1..Len(Tail(w)) : Tail(w)[i] = w[i + 1]
    BY <1>7, <1>10, HeadTailProperties
  <2>2. \A i \in 1..Len(Tail(w)) : i + 1 \in 1..Len(w) /\ 2 * NumProc - (i + 1) = 2 * NumProc - 1 - i
    BY <1>1, <1>7, <1>11, Constants15
  <2> QED BY <1>9, <2>1, <2>2
<1>13. QueueInv(Tail(w), a, Head(w))
  <2>1. Head(w) \notin Range(Tail(w)) /\ Len(Tail(w)) <= NumProc - 1
    BY <1>1, <1>7, <1>11, Constants15
  <2> QED BY <1>2, <1>11, <1>12, <2>1 DEF QueueInv
<1>14. Range(Tail(w)) \cup {Head(w)} = Ready15 \cup {curr}
  BY <1>7, <1>11 DEF Ready15
<1> QED BY <1>5, <1>11, <1>13, <1>14 DEF a

\* The end of a test: the first in the queue runs and nobody ages.
LEMMA Replace ==
  ASSUME Inv15, readyQ # <<>>
  PROVE  /\ Requeue(NoProc) = readyQ /\ Aged(NoProc) = prio
         /\ QueueInv(Tail(readyQ), prio, Head(readyQ)) /\ Head(readyQ) \in Proc
         /\ Range(Tail(readyQ)) \cup {Head(readyQ)} = Ready15
<1>1. /\ readyQ \in Seq(Proc) /\ prio \in [Proc -> Int] /\ LinkedOnce(readyQ)
      /\ Len(readyQ) <= NumProc - 1 /\ SortedBy(readyQ, prio)
      /\ \A i \in 1..Len(readyQ) : prio[readyQ[i]] <= 2 * NumProc - 1 - i
  BY DEF Inv15, Type15, OnePlace, AgeByPlace
<1>2. /\ Tail(readyQ) \in Seq(Proc) /\ Len(Tail(readyQ)) = Len(readyQ) - 1
      /\ Head(readyQ) \in Proc /\ Head(readyQ) \in Range(readyQ)
      /\ LinkedOnce(Tail(readyQ)) /\ Len(readyQ) \in Nat
      /\ Range(Tail(readyQ)) = Range(readyQ) \ {Head(readyQ)}
      /\ SortedBy(Tail(readyQ), prio)
  BY <1>1, RemoveProcQProperties, TailSorted
<1>3. \A i \in 1..Len(Tail(readyQ)) :
        prio[Tail(readyQ)[i]] <= 2 * NumProc - 1 - i
  <2>1. \A i \in 1..Len(Tail(readyQ)) : Tail(readyQ)[i] = readyQ[i + 1]
    BY <1>1, HeadTailProperties
  <2>2. \A i \in 1..Len(Tail(readyQ)) : i + 1 \in 1..Len(readyQ)
    BY <1>2
  <2>3. \A i \in 1..Len(readyQ) : prio[readyQ[i]] \in Int
    BY <1>1
  <2>4. \A i \in 1..Len(Tail(readyQ)) :
          prio[readyQ[i + 1]] <= 2 * NumProc - 1 - (i + 1)
    BY <1>1, <2>2
  <2> QED BY <1>2, <2>1, <2>2, <2>3, <2>4, Constants15
<1>4. Requeue(NoProc) = readyQ /\ Aged(NoProc) = prio
  BY <1>1, Constants15 DEF Requeue, Aged
<1>5. QueueInv(Tail(readyQ), prio, Head(readyQ))
  <2>1. Head(readyQ) \notin Range(Tail(readyQ)) /\ Len(Tail(readyQ)) <= NumProc - 1
    BY <1>1, <1>2, Constants15
  <2> QED BY <1>1, <1>2, <1>3, <2>1 DEF QueueInv
<1> QED BY <1>2, <1>4, <1>5 DEF Ready15

\* scheduler(), called for the running process or after it ended.
LEMMA SchedulerInv15 ==
  ASSUME Inv15, ~halted, UNCHANGED round,
         NEW c, c = curr \/ (c = NoProc /\ Finished(curr)), Scheduler(c)
  PROVE  Inv15'
<1>1. /\ curr \in Proc /\ curr \notin Ready15 /\ round \in [Proc -> Nat]
      /\ \A p \in Proc : ~Finished(p) => p \in Ready15 \cup {curr}
  BY DEF Inv15, Type15, OnePlace
<1>2. \A p \in Proc : Finished(p)' <=> Finished(p)
  BY DEF Finished, Rounds
<1>3. CASE readyQ = <<>>
  <2>1. halted' = TRUE /\ UNCHANGED <<readyQ, prio>> /\ curr' = c
    BY <1>3 DEF Scheduler
  <2>2. Ready15 = {}
    BY <1>3 DEF Ready15, Range
  <2>3. c \in Proc \cup {NoProc} /\ c \notin Ready15
    BY <1>1, <2>2
  <2>4. \A p \in Proc : ~Finished(p) => p = c
    BY <1>1, <2>2
  <2> QED BY <1>1, <1>2, <2>1, <2>2, <2>3, <2>4
          DEF Inv15, Type15, OnePlace, AgeByPlace, Ready15
<1>4. CASE readyQ # <<>>
  <2>1. /\ curr' = Head(Requeue(c)) /\ readyQ' = Tail(Requeue(c))
        /\ prio' = Aged(c) /\ halted' = halted
    BY <1>4 DEF Scheduler
  <2>2. /\ QueueInv(readyQ', prio', curr') /\ curr' \in Proc
        /\ \A p \in Proc : ~Finished(p) => p \in Range(readyQ') \cup {curr'}
    <3>1. CASE c = curr
      BY <1>1, <1>4, <2>1, <3>1, Rotate, Constants15
    <3>2. CASE c = NoProc /\ Finished(curr)
      BY <1>1, <1>4, <2>1, <3>2, Replace
    <3> QED BY <3>1, <3>2
  <2> QED BY <1>1, <1>2, <2>1, <2>2
          DEF Inv15, Type15, OnePlace, AgeByPlace, Ready15, QueueInv
<1> QED BY <1>3, <1>4
-----------------------------------------------------------------------------
LEMMA Next15Inv == Inv15 /\ [Next15]_vars15 => Inv15'
<1> SUFFICES ASSUME Inv15, [Next15]_vars15 PROVE Inv15'
  OBVIOUS
<1>1. CASE Advance
  <2>1. /\ curr \in Proc /\ round \in [Proc -> Nat]
        /\ round' = [round EXCEPT ![curr] = @ + 1]
        /\ UNCHANGED <<readyQ, prio, curr, halted>>
    BY <1>1 DEF Advance, Inv15, Type15
  <2>2. \A p \in Proc : p # curr => (Finished(p)' <=> Finished(p))
    BY <2>1 DEF Finished, Rounds
  <2>3. round' \in [Proc -> Nat]
    BY <2>1
  <2> QED BY <2>1, <2>2, <2>3 DEF Inv15, Type15, OnePlace, AgeByPlace, Ready15
<1>2. CASE TimeSlice
  BY <1>2, SchedulerInv15 DEF TimeSlice
<1>3. CASE TerminateProc
  BY <1>3, SchedulerInv15 DEF TerminateProc, KillProc
<1>4. CASE UNCHANGED vars15
  BY <1>4 DEF vars15, Inv15, Type15, OnePlace, AgeByPlace, Ready15, Finished, Rounds
<1> QED BY <1>1, <1>2, <1>3, <1>4 DEF Next15, Halted

LEMMA Invariance15 == Spec15 => []Inv15
BY Init15Inv, Next15Inv, PTL DEF Spec15

\* However the time slices fall, a test that has not finished runs or is
\* ready, in one place.
THEOREM NoTestLost == Spec15 => []OnePlace
<1>1. Inv15 => OnePlace
  BY DEF Inv15
<1> QED BY <1>1, Invariance15, PTL

\* No ready test ages beyond twice the highest original priority but one,
\* for any number of tests.
THEOREM AgeingBounded == Spec15 => []AgeBound
<1>1. Inv15 => AgeBound
  <2> SUFFICES ASSUME Inv15, NEW p \in Ready15 PROVE prio[p] <= 2 * (NumProc - 1)
    BY DEF AgeBound
  <2>1. /\ readyQ \in Seq(Proc) /\ prio \in [Proc -> Int] /\ Len(readyQ) \in Nat
        /\ \A i \in 1..Len(readyQ) : prio[readyQ[i]] <= 2 * NumProc - 1 - i
    BY DEF Inv15, Type15, AgeByPlace
  <2>2. PICK i \in 1..Len(readyQ) : readyQ[i] = p
    BY DEF Ready15, Range
  <2>3. prio[p] \in Int /\ prio[p] <= 2 * NumProc - 1 - i
    BY <2>1, <2>2
  <2> QED BY <2>2, <2>3, Constants15
<1> QED BY <1>1, Invariance15, PTL
=============================================================================
