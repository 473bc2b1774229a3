--------------------------- MODULE NucleusProofs ---------------------------
(***************************************************************************)
(* Proofs that every step of the nucleus preserves IInv, hence the         *)
(* invariants it contains, for any number of PCBs, semaphores and          *)
(* priorities; and that the children of a process that ends go to the      *)
(* right tutor.                                                            *)
(***************************************************************************)
EXTENDS NucleusLemmas

\* What the invariant says of the running process and of the lists.
LEMMA RunningFacts ==
  ASSUME IInv, cpu = "running"
  PROVE  /\ Intact
         /\ curr \in Pcb \ Free /\ curr \notin Ready
         /\ \A k \in Sem : curr \notin Waiting(k)
         /\ LinkedOnce(pcbFree) /\ LinkedOnce(readyQ)
         /\ \A k \in Sem : LinkedOnce(asl[k])
BY ConstantFacts DEF IInv, FieldsOK, OneList, Intact, SemKeyTellsQueue

\* The initial state: main() has allocated the first PCB for the root.
LEMMA InitInv == Init => IInv
<1> SUFFICES ASSUME Init PROVE IInv
  OBVIOUS
<1> USE ConstantFacts
<1>1. MAXPROC \in Nat \ {0} /\ NumSemd \in Nat /\ RootPriority \in Int /\ InitSem \subseteq Nat
  BY NucleusAssumption
<1>2. /\ pcbFree \in Seq(Pcb) /\ LinkedOnce(pcbFree) /\ Free = Pcb \ {Root}
  <2>1. pcbFree = [i \in 1..(MAXPROC - 1) |-> i + 1]
    BY DEF Init
  <2>2. pcbFree \in Seq(Pcb) /\ Len(pcbFree) = MAXPROC - 1
    BY <1>1, <2>1 DEF Pcb
  <2>3. \A i \in 1..Len(pcbFree) : pcbFree[i] = i + 1
    BY <2>1, <2>2
  <2>4. LinkedOnce(pcbFree)
    BY <2>3 DEF LinkedOnce
  <2>5. Free = {pcbFree[i] : i \in 1..Len(pcbFree)}
    BY <2>2, RangeEquality DEF Free
  <2>6. ASSUME NEW x \in Pcb \ {Root} PROVE x \in Free
    <3>1. x - 1 \in 1..Len(pcbFree) /\ (x - 1) + 1 = x
      BY <1>1, <2>2 DEF Pcb, Root
    <3> QED BY <2>3, <2>5, <3>1
  <2>7. ASSUME NEW x \in Free PROVE x \in Pcb \ {Root}
    BY <1>1, <2>2, <2>3, <2>5 DEF Pcb, Root
  <2> QED BY <2>2, <2>4, <2>6, <2>7
<1>3. FieldsOK
  <2>1. pcbFree \in Seq(Pcb) /\ readyQ \in Seq(Pcb) /\ asl \in [Sem -> Seq(Pcb)]
    BY <1>2 DEF Init
  <2>2. /\ parent \in [Pcb -> Pcb \cup {NoProc}] /\ child \in [Pcb -> SUBSET Pcb]
        /\ passup \in [Pcb -> SUBSET TrapType]
        /\ semkey \in [Pcb -> Sem \cup {NoKey}]
    BY DEF Init
  <2>3. tutor \in [Pcb -> BOOLEAN] /\ ku \in [Pcb -> BOOLEAN]
    BY Zenon DEF Init
  <2>4. prio \in [Pcb -> Int] /\ orig \in [Pcb -> Int]
    BY <1>1 DEF Init
  <2>5. sem \in [Sem -> Int] /\ semdFree \in Nat /\ ProcBlocked \in Int
    <3>1. InitSem \cup {0} \subseteq Int
      BY <1>1
    <3>2. sem \in [Sem -> InitSem \cup {0}] /\ semdFree = NumSemd /\ ProcBlocked = 0
      BY DEF Init
    <3> QED BY <1>1, <3>1, <3>2
  <2>6. /\ curr \in Pcb /\ curr # NoProc /\ cpu = "running"
    BY DEF Init
  <2> QED BY <2>1, <2>2, <2>3, <2>4, <2>5, <2>6 DEF FieldsOK
<1>4. Ready = {} /\ \A k \in Sem : Waiting(k) = {}
  BY DEF Init, Ready, Waiting, Range
<1>5. OneList
  <2>1. curr = Root /\ LinkedOnce(readyQ) /\ \A k \in Sem : LinkedOnce(asl[k])
    BY DEF Init, LinkedOnce
  <2> QED BY <1>2, <1>4, <2>1 DEF OneList
<1>6. SemKeyTellsQueue
  BY <1>4 DEF SemKeyTellsQueue, Init
<1>7. TreeInv
  <2>1. TreeOf(parent, child, Free, [p \in Pcb |-> 0])
    BY <1>2 DEF TreeOf, Init
  <2>2. tutor[Root] /\ [p \in Pcb |-> 0] \in [Pcb -> Nat]
    BY DEF Init
  <2> QED BY <2>1, <2>2 DEF TreeInv
<1> QED BY <1>3, <1>5, <1>6, <1>7 DEF IInv
-----------------------------------------------------------------------------
(* SYS2                                                                    *)

LEMMA CreateProcessInv ==
  ASSUME IInv, NEW pr \in Priorities, NEW usermode \in UserModes,
         CreateProcess(pr, usermode)
  PROVE  IInv'
<1> DEFINE p == Head(pcbFree)
<1>1. cpu = "running" /\ pcbFree # <<>> /\ FieldsOK
  BY DEF CreateProcess, Serving, IInv
<1>2. /\ curr \in Pcb \ Free /\ LinkedOnce(pcbFree) /\ LinkedOnce(readyQ)
      /\ OneList /\ Intact
  BY <1>1, RunningFacts DEF IInv
<1>3. pcbFree \in Seq(Pcb) /\ readyQ \in Seq(Pcb)
  BY <1>1 DEF FieldsOK
<1>4. /\ p \in Pcb /\ p \in Free /\ Tail(pcbFree) \in Seq(Pcb)
      /\ LinkedOnce(Tail(pcbFree)) /\ Range(Tail(pcbFree)) = Free \ {p}
  BY <1>1, <1>2, <1>3, RemoveProcQProperties DEF Free
<1>5. /\ pcbFree' = Tail(pcbFree)
      /\ parent' = [parent EXCEPT ![p] = curr]
      /\ child' = [child EXCEPT ![p] = {}, ![curr] = @ \cup {p}]
      /\ tutor' = [tutor EXCEPT ![p] = FALSE]
      /\ orig' = [orig EXCEPT ![p] = pr]
      /\ prio' = [prio EXCEPT ![p] = pr]
      /\ passup' = [passup EXCEPT ![p] = {}]
      /\ ku' = [ku EXCEPT ![p] = usermode]
      /\ semkey' = [semkey EXCEPT ![p] = NoKey]
      /\ readyQ' = InsertProcQ(readyQ, p, prio')
      /\ UNCHANGED <<asl, semdFree, sem, ProcBlocked, curr, cpu>>
  BY DEF CreateProcess, FreshSemkey
<1> HIDE DEF p
<1>6. pr \in Int /\ usermode \in BOOLEAN
  BY NucleusAssumption
<1>7. prio' \in [Pcb -> Int]
  BY <1>1, <1>4, <1>5, <1>6 DEF FieldsOK
<1>8. p \notin Ready /\ p # curr /\ \A k \in Sem : p \notin Waiting(k)
  BY <1>2, <1>4 DEF OneList
<1>9. /\ readyQ' \in Seq(Pcb) /\ Ready' = Ready \cup {p} /\ LinkedOnce(readyQ')
  <2>1. /\ InsertProcQ(readyQ, p, prio') \in Seq(Pcb)
        /\ Range(InsertProcQ(readyQ, p, prio')) = Range(readyQ) \cup {p}
        /\ LinkedOnce(readyQ) /\ p \notin Range(readyQ)
             => LinkedOnce(InsertProcQ(readyQ, p, prio'))
    BY <1>3, <1>4, <1>7, InsertProcQProperties
  <2> QED BY <1>2, <1>5, <1>8, <2>1 DEF Ready
<1>10. Free' = Free \ {p} /\ \A k \in Sem : Waiting(k)' = Waiting(k)
  BY <1>4, <1>5 DEF Free, Waiting
<1>11. FieldsOK'
  BY <1>1, <1>2, <1>4, <1>5, <1>6, <1>7, <1>9, ConstantFacts DEF FieldsOK
<1>12. OneList'
  BY <1>2, <1>4, <1>5, <1>8, <1>9, <1>10 DEF OneList, Intact
<1>13. SemKeyTellsQueue'
  BY <1>1, <1>4, <1>5, <1>8, <1>10, ConstantFacts
     DEF SemKeyTellsQueue, IInv, FieldsOK
<1>14. TreeInv'
  <2>1. PICK rank \in [Pcb -> Nat] : TreeOf(parent, child, Free, rank)
    BY DEF IInv, TreeInv
  <2>2. Free \in SUBSET Pcb
    BY <1>3, EmptyRange DEF Free
  <2>3. TreeOf(parent', child', Free', [rank EXCEPT ![p] = rank[curr] + 1])
    BY <1>1, <1>2, <1>4, <1>5, <1>10, <2>1, <2>2, InsertChild DEF FieldsOK
  <2>4. [rank EXCEPT ![p] = rank[curr] + 1] \in [Pcb -> Nat]
    <3>1. rank[curr] + 1 \in Nat
      BY <1>2
    <3> QED BY <3>1
  <2>5. tutor'[Root]
    <3>1. p # Root
      BY <1>4, <2>1 DEF TreeOf
    <3> QED BY <1>1, <1>5, <3>1, ConstantFacts DEF IInv, TreeInv, FieldsOK
  <2> QED BY <2>3, <2>4, <2>5 DEF TreeInv
<1> QED BY <1>11, <1>12, <1>13, <1>14 DEF IInv
-----------------------------------------------------------------------------
(* SYS3 and traps                                                          *)

\* The running process ends: the links par and ch, of a tree, lose it.
LEMMA ExitInv ==
  ASSUME IInv, cpu = "running", curr # Root,
         NEW par \in [Pcb -> Pcb \cup {NoProc}], NEW ch \in [Pcb -> SUBSET Pcb],
         NEW rank \in [Pcb -> Nat], TreeOf(par, ch, Free, rank),
         NEW u \in Pcb \ Free, rank[u] < rank[curr],
         Exit(curr, u, par, ch), UNCHANGED <<tutor, attrs, sems>>
  PROVE  IInv'
<1>1. /\ Intact /\ curr \in Pcb \ Free /\ curr \notin Ready
      /\ \A k \in Sem : curr \notin Waiting(k)
      /\ LinkedOnce(pcbFree) /\ LinkedOnce(readyQ)
      /\ FieldsOK /\ OneList /\ SemKeyTellsQueue
  BY RunningFacts DEF IInv
<1>2. /\ pcbFree \in Seq(Pcb) /\ readyQ \in Seq(Pcb) /\ Free \in SUBSET Pcb
      /\ prio \in [Pcb -> Int] /\ orig \in [Pcb -> Int]
  BY <1>1, EmptyRange DEF FieldsOK, Free
<1>3. /\ parent' \in [Pcb -> Pcb \cup {NoProc}] /\ child' \in [Pcb -> SUBSET Pcb]
      /\ TreeOf(parent', child', Free \cup {curr}, rank)
  <2> DEFINE P1 == ParentMoved(par, ch, curr, u)
             C1 == ChildMoved(ch, curr, u)
  <2>1. /\ ParentMoved(par, ch, curr, u) \in [Pcb -> Pcb \cup {NoProc}]
        /\ ChildMoved(ch, curr, u) \in [Pcb -> SUBSET Pcb]
        /\ TreeOf(ParentMoved(par, ch, curr, u), ChildMoved(ch, curr, u), Free, rank)
        /\ ChildMoved(ch, curr, u)[curr] = {}
        /\ ParentMoved(par, ch, curr, u)[curr] = par[curr]
    <3>1. /\ Free \in SUBSET Pcb /\ TreeOf(par, ch, Free, rank)
          /\ curr \in Pcb \ Free /\ rank[u] < rank[curr]
      BY <1>1, <1>2
    <3>2. /\ ParentMoved(par, ch, curr, u) \in [Pcb -> Pcb \cup {NoProc}]
          /\ ChildMoved(ch, curr, u) \in [Pcb -> SUBSET Pcb]
          /\ TreeOf(ParentMoved(par, ch, curr, u), ChildMoved(ch, curr, u), Free, rank)
      BY <3>1, HandOver
    <3>3. ChildMoved(ch, curr, u)[curr] = {}
      BY <3>1, HandOver
    <3>4. ParentMoved(par, ch, curr, u)[curr] = par[curr]
      <4>1. curr \notin ch[curr]
        BY <3>1, ConstantFacts DEF TreeOf
      <4> QED BY <3>1, <4>1 DEF ParentMoved
    <3> QED BY <3>2, <3>3, <3>4
  <2>2. /\ parent' = [P1 EXCEPT ![curr] = NoProc]
        /\ child' = [C1 EXCEPT ![P1[curr]] = @ \ {curr}]
    BY <2>1 DEF Exit
  <2> HIDE DEF P1, C1
  <2>3. /\ [P1 EXCEPT ![curr] = NoProc] \in [Pcb -> Pcb \cup {NoProc}]
        /\ [C1 EXCEPT ![P1[curr]] = @ \ {curr}] \in [Pcb -> SUBSET Pcb]
        /\ TreeOf([P1 EXCEPT ![curr] = NoProc],
                  [C1 EXCEPT ![P1[curr]] = @ \ {curr}], Free \cup {curr}, rank)
    BY <1>1, <1>2, <2>1, OutChild DEF P1, C1
  <2> QED BY <2>2, <2>3
<1>4. /\ pcbFree' \in Seq(Pcb) /\ Free' = Free \cup {curr} /\ LinkedOnce(pcbFree')
  <2>1. pcbFree' = Append(pcbFree, curr) /\ curr \notin Range(pcbFree)
    BY <1>1 DEF Exit, Free
  <2> QED BY <1>1, <1>2, <2>1, FreePcbProperties DEF Free
<1>5. /\ readyQ' \in Seq(Pcb) /\ prio' \in [Pcb -> Int]
      /\ curr' \in Pcb \cup {NoProc} /\ cpu' \in {"running", "waiting", "halted"}
      /\ cpu' = "running" => curr' # NoProc
      /\ LinkedOnce(readyQ') /\ curr' \notin Ready'
      /\ Ready' \subseteq Pcb
      /\ \A p \in Pcb : p \in Ready' \/ p = curr' <=> p \in Ready
  <2>1. Scheduler(readyQ, prio, NoProc, ProcBlocked) /\ NoProc \notin Range(readyQ)
    BY <1>2, EmptyRange, ConstantFacts DEF Exit
  <2> QED BY <1>1, <1>2, <2>1, SchedulerKeeps, ConstantFacts DEF Ready
<1>6. /\ \A k \in Sem : Waiting(k)' = Waiting(k)
      /\ UNCHANGED <<tutor, orig, passup, ku, semkey, asl, semdFree, sem, ProcBlocked>>
  BY DEF attrs, sems, Waiting
<1>7. FieldsOK'
  BY <1>1, <1>3, <1>4, <1>5, <1>6 DEF FieldsOK
<1>8. OneList'
  <2>1. \A p \in Ready : p \in Pcb
    BY <1>2, EmptyRange DEF Ready
  <2>2. /\ \A p \in Free : p \notin Ready /\ p # curr
        /\ \A k \in Sem : \A p \in Waiting(k) :
             /\ p \in Pcb /\ p \notin Free /\ p \notin Ready /\ p # curr
             /\ \A l \in Sem : p \in Waiting(l) => k = l
    BY <1>1, EmptyRange DEF OneList, Waiting, FieldsOK
  <2>3. \A p \in Free' : p \notin Ready' /\ p # curr'
    BY <1>1, <1>2, <1>4, <1>5, <2>2
  <2>4. \A k \in Sem : \A p \in Waiting(k)' :
          /\ p \notin Free' /\ p \notin Ready' /\ p # curr'
          /\ \A l \in Sem : p \in Waiting(l)' => k = l
    BY <1>1, <1>4, <1>5, <1>6, <2>2
  <2>5. \A k \in Sem : LinkedOnce(asl[k])'
    BY <1>1, <1>6 DEF OneList
  <2> QED BY <1>4, <1>5, <2>3, <2>4, <2>5 DEF OneList
<1>9. SemKeyTellsQueue'
  BY <1>1, <1>4, <1>6 DEF SemKeyTellsQueue
<1>10. TreeInv'
  BY <1>3, <1>4, <1>6 DEF TreeInv, IInv
<1> QED BY <1>7, <1>8, <1>9, <1>10 DEF IInv

\* The root is dropped, or a process runs its program-trap handler: only the
\* links and the scheduler change.
LEMMA DropRootInv ==
  ASSUME IInv, cpu = "running",
         NEW par \in [Pcb -> Pcb \cup {NoProc}], NEW ch \in [Pcb -> SUBSET Pcb],
         NEW rank \in [Pcb -> Nat], TreeOf(par, ch, Free, rank),
         DropRoot(par, ch) \/ ResumeHandler(par, ch),
         UNCHANGED <<tutor, attrs, sems>>
  PROVE  IInv'
<1>1. /\ Intact /\ curr \in Pcb \ Free /\ curr \notin Ready
      /\ LinkedOnce(readyQ) /\ FieldsOK /\ OneList /\ SemKeyTellsQueue
  BY RunningFacts DEF IInv
<1>2. /\ readyQ \in Seq(Pcb) /\ prio \in [Pcb -> Int] /\ orig \in [Pcb -> Int]
  BY <1>1 DEF FieldsOK
<1>3. /\ readyQ' \in Seq(Pcb) /\ prio' \in [Pcb -> Int]
      /\ curr' \in Pcb \cup {NoProc} /\ cpu' \in {"running", "waiting", "halted"}
      /\ cpu' = "running" => curr' # NoProc
      /\ LinkedOnce(readyQ') /\ curr' \notin Ready'
      /\ Ready' \subseteq Pcb
      /\ \A p \in Pcb : p \in Ready' \/ p = curr' => p \in Ready \/ p = curr
  <2>1. CASE DropRoot(par, ch)
    <3>1. Scheduler(readyQ, prio, NoProc, ProcBlocked) /\ NoProc \notin Range(readyQ)
      BY <1>2, <2>1, EmptyRange, ConstantFacts DEF DropRoot
    <3> QED BY <1>1, <1>2, <3>1, SchedulerKeeps, ConstantFacts DEF Ready
  <2>2. CASE ResumeHandler(par, ch)
    <3>1. UNCHANGED <<readyQ, prio, curr, cpu>>
      BY <2>2 DEF ResumeHandler, sched
    <3>2. Ready \subseteq Pcb
      BY <1>2, EmptyRange DEF Ready
    <3> QED BY <1>1, <1>2, <3>1, <3>2, ConstantFacts DEF Ready
  <2> QED BY <2>1, <2>2
<1>4. /\ \A k \in Sem : Waiting(k)' = Waiting(k)
      /\ UNCHANGED <<tutor, orig, passup, ku, semkey, asl, semdFree, sem, ProcBlocked>>
  BY DEF attrs, sems, Waiting
<1>5. pcbFree' = pcbFree /\ Free' = Free /\ parent' = par /\ child' = ch
  BY DEF DropRoot, ResumeHandler, Free
<1>6. FieldsOK'
  BY <1>1, <1>3, <1>4, <1>5 DEF FieldsOK
<1>7. OneList'
  <2>1. /\ \A p \in Free : p \in Pcb /\ p \notin Ready /\ p # curr
        /\ \A k \in Sem : \A p \in Waiting(k) :
             /\ p \in Pcb /\ p \notin Free /\ p \notin Ready /\ p # curr
             /\ \A l \in Sem : p \in Waiting(l) => k = l
    BY <1>1, EmptyRange DEF OneList, Waiting, Free, FieldsOK
  <2>2. \A p \in Free' : p \notin Ready' /\ p # curr'
    BY <1>3, <1>5, <2>1
  <2>3. \A k \in Sem : \A p \in Waiting(k)' :
          /\ p \notin Free' /\ p \notin Ready' /\ p # curr'
          /\ \A l \in Sem : p \in Waiting(l)' => k = l
    BY <1>3, <1>4, <1>5, <2>1
  <2>4. LinkedOnce(pcbFree') /\ \A k \in Sem : LinkedOnce(asl[k])'
    BY <1>1, <1>4, <1>5 DEF OneList
  <2> QED BY <1>3, <2>2, <2>3, <2>4 DEF OneList
<1>8. SemKeyTellsQueue'
  BY <1>1, <1>4, <1>5 DEF SemKeyTellsQueue
<1>9. TreeInv'
  BY <1>4, <1>5 DEF TreeInv, IInv
<1> QED BY <1>6, <1>7, <1>8, <1>9 DEF IInv

\* The nearest tutor of the running process is a live process above it.
LEMMA TutorFacts ==
  ASSUME IInv, NEW rank \in [Pcb -> Nat],
         TreeOf(parent, child, Free, rank),
         NEW q \in Pcb \ Free, NEW u \in NearestTutor(q)
  PROVE  u \in Pcb \ Free /\ rank[u] < rank[q]
BY ClimbGoesUp DEF IInv, NearestTutor

LEMMA TerminateCurrentInv ==
  ASSUME IInv, cpu = "running", TerminateCurrent
  PROVE  IInv'
<1>1. curr \in Pcb \ Free /\ FieldsOK
  BY RunningFacts DEF IInv
<1>2. PICK rank \in [Pcb -> Nat] : TreeOf(parent, child, Free, rank)
  BY DEF IInv, TreeInv
<1>3. /\ parent \in [Pcb -> Pcb \cup {NoProc}] /\ child \in [Pcb -> SUBSET Pcb]
      /\ Free \in SUBSET Pcb
  BY <1>1, EmptyRange DEF FieldsOK, Free
<1>4. PICK u \in NearestTutor(curr) :
        \/ ResumeHandler(ParentMoved(parent, child, curr, u),
                         ChildMoved(child, curr, u))
        \/ Exit(curr, u, parent, child)
  BY DEF TerminateCurrent
<1>5. curr # Root /\ UNCHANGED <<tutor, attrs, sems>>
  BY DEF TerminateCurrent
<1>6. u \in Pcb \ Free /\ rank[u] < rank[curr]
  BY <1>1, <1>2, TutorFacts
<1>7. CASE Exit(curr, u, parent, child)
  BY <1>2, <1>3, <1>5, <1>6, <1>7, ExitInv
<1>8. CASE ResumeHandler(ParentMoved(parent, child, curr, u),
                         ChildMoved(child, curr, u))
  <2> DEFINE P1 == ParentMoved(parent, child, curr, u)
             C1 == ChildMoved(child, curr, u)
  <2>1. /\ P1 \in [Pcb -> Pcb \cup {NoProc}] /\ C1 \in [Pcb -> SUBSET Pcb]
        /\ TreeOf(P1, C1, Free, rank)
    BY <1>1, <1>2, <1>3, <1>6, HandOver
  <2>2. ResumeHandler(P1, C1)
    BY <1>8
  <2> HIDE DEF P1, C1
  <2> QED BY <1>5, <2>1, <2>2, DropRootInv
<1> QED BY <1>4, <1>7, <1>8

LEMMA KillInv ==
  ASSUME IInv, cpu = "running", Kill
  PROVE  IInv'
<1>1. CASE TerminateCurrent
  BY <1>1, TerminateCurrentInv
<1>2. CASE DropRoot(parent, child) /\ UNCHANGED <<tutor, attrs, sems>>
  <2>1. PICK rank \in [Pcb -> Nat] : TreeOf(parent, child, Free, rank)
    BY DEF IInv, TreeInv
  <2>2. /\ parent \in [Pcb -> Pcb \cup {NoProc}] /\ child \in [Pcb -> SUBSET Pcb]
    BY DEF IInv, FieldsOK
  <2> QED BY <1>2, <2>1, <2>2, DropRootInv
<1> QED BY <1>1, <1>2 DEF Kill

\* What the invariant says of a descendant q of the running process.
LEMMA DescendantFacts ==
  ASSUME IInv, cpu = "running", NEW q \in Pcb, curr \in Ancestors(q),
         NEW rank \in [Pcb -> Nat], TreeOf(parent, child, Free, rank)
  PROVE  q \in Pcb \ (Free \cup {Root}) /\ rank[curr] < rank[q] /\ q # curr
<1>1. q \notin Free
  <2> SUFFICES ASSUME q \in Free PROVE FALSE
    OBVIOUS
  <2> DEFINE none == {b \in Pcb : FALSE}
  <2>1. parent[q] \in none \cup {NoProc}
    BY DEF TreeOf
  <2>2. none \in SUBSET Pcb /\ \A b \in none : parent[b] \in none \cup {NoProc}
    OBVIOUS
  <2> HIDE DEF none
  <2>3. Climb(q, {}) \subseteq none
    BY <2>1, <2>2, ClimbInClosed
  <2> QED BY <2>3 DEF none, Ancestors
<1>2. rank[curr] < rank[q] /\ q # Root /\ curr \in Pcb
  BY <1>1, ClimbGoesUp DEF IInv, Ancestors
<1>3. rank[q] \in Nat
  OBVIOUS
<1> QED BY <1>1, <1>2, <1>3

LEMMA UnlinkInv ==
  ASSUME IInv, cpu = "running", NEW q \in Pcb, curr \in Ancestors(q),
         child[q] = {}, Unlink(q), tutor' = tutor
  PROVE  /\ q \in Pcb \ Free /\ q # curr
         /\ parent' \in [Pcb -> Pcb \cup {NoProc}] /\ child' \in [Pcb -> SUBSET Pcb]
         /\ pcbFree' \in Seq(Pcb) /\ Free' = Free \cup {q} /\ LinkedOnce(pcbFree')
         /\ TreeInv'
<1>1. FieldsOK /\ LinkedOnce(pcbFree) /\ tutor[Root]
  BY RunningFacts DEF IInv, TreeInv
<1>2. PICK rank \in [Pcb -> Nat] : TreeOf(parent, child, Free, rank)
  BY DEF IInv, TreeInv
<1>3. q \in Pcb \ Free /\ q # Root /\ q # curr
  BY <1>2, DescendantFacts
<1>4. /\ parent \in [Pcb -> Pcb \cup {NoProc}] /\ child \in [Pcb -> SUBSET Pcb]
      /\ pcbFree \in Seq(Pcb) /\ Free \in SUBSET Pcb
  BY <1>1, EmptyRange DEF FieldsOK, Free
<1>5. /\ parent' = [parent EXCEPT ![q] = NoProc]
      /\ child' = [child EXCEPT ![parent[q]] = @ \ {q}]
      /\ pcbFree' = Append(pcbFree, q)
  BY DEF Unlink
<1>6. /\ parent' \in [Pcb -> Pcb \cup {NoProc}] /\ child' \in [Pcb -> SUBSET Pcb]
      /\ TreeOf(parent', child', Free \cup {q}, rank)
  BY <1>2, <1>3, <1>4, <1>5, OutChild
<1>7. pcbFree' \in Seq(Pcb) /\ Free' = Free \cup {q} /\ LinkedOnce(pcbFree')
  BY <1>1, <1>3, <1>4, <1>5, FreePcbProperties DEF Free
<1>8. TreeInv'
  BY <1>1, <1>6, <1>7 DEF TreeInv
<1> QED BY <1>3, <1>6, <1>7, <1>8

LEMMA TerminateBlockedInv ==
  ASSUME IInv, NEW q \in Pcb, TerminateBlocked(q)
  PROVE  IInv'
<1>1. /\ cpu = "running" /\ curr \in Ancestors(q) /\ child[q] = {}
      /\ semkey[q] # NoKey /\ Unlink(q) /\ OutBlocked(q)
      /\ readyQ' = OutProcQ(readyQ, q)
      /\ UNCHANGED <<tutor, orig, passup, ku, semkey, prio, curr, cpu>>
  BY DEF TerminateBlocked, Serving, attrs
<1>2. FieldsOK /\ OneList /\ SemKeyTellsQueue /\ Intact
  BY <1>1, RunningFacts DEF IInv
<1>3. /\ q \in Pcb \ Free /\ q # curr
      /\ parent' \in [Pcb -> Pcb \cup {NoProc}] /\ child' \in [Pcb -> SUBSET Pcb]
      /\ pcbFree' \in Seq(Pcb) /\ Free' = Free \cup {q} /\ LinkedOnce(pcbFree')
      /\ TreeInv'
  BY <1>1, UnlinkInv
<1>4. PICK k \in Sem : k = semkey[q] /\ q \in Waiting(k)
  BY <1>1, <1>2, <1>3 DEF FieldsOK, SemKeyTellsQueue
<1>5. /\ q \notin Ready /\ LinkedOnce(readyQ) /\ readyQ \in Seq(Pcb)
      /\ asl[k] \in Seq(Pcb) /\ LinkedOnce(asl[k])
      /\ \A l \in Sem : q \in Waiting(l) => l = k
  BY <1>2, <1>4 DEF OneList, FieldsOK
<1>6. readyQ' = readyQ /\ Ready' = Ready
  BY <1>1, <1>5, OutProcQProperties DEF Ready
<1>7. /\ OutProcQ(asl[k], q) \in Seq(Pcb) /\ LinkedOnce(OutProcQ(asl[k], q))
      /\ Range(OutProcQ(asl[k], q)) = Range(asl[k]) \ {q}
  BY <1>5, OutProcQProperties
<1>8. /\ asl' = [asl EXCEPT ![k] = OutProcQ(@, q)]
      /\ semdFree' = GiveSemd(asl'[k])
      /\ sem' = [sem EXCEPT ![k] = @ + 1]
      /\ ProcBlocked' = ProcBlocked - 1
  BY <1>1, <1>4 DEF OutBlocked
<1>9. /\ asl' \in [Sem -> Seq(Pcb)]
      /\ \A l \in Sem : Waiting(l)' = Waiting(l) \ {q} /\ LinkedOnce(asl'[l])
  <2>1. asl \in [Sem -> Seq(Pcb)] /\ \A l \in Sem : LinkedOnce(asl[l])
    BY <1>2 DEF FieldsOK, OneList
  <2>2. ASSUME NEW l \in Sem, l # k
        PROVE  Waiting(l)' = Waiting(l) \ {q} /\ LinkedOnce(asl'[l])
    BY <1>5, <1>8, <2>1, <2>2 DEF Waiting
  <2>3. asl'[k] = OutProcQ(asl[k], q)
    BY <1>4, <1>8, <2>1
  <2>4. Waiting(k)' = Waiting(k) \ {q} /\ LinkedOnce(asl'[k])
    BY <1>7, <2>3 DEF Waiting
  <2>5. asl' \in [Sem -> Seq(Pcb)]
    BY <1>7, <1>8, <2>1
  <2>6. ASSUME NEW l \in Sem
        PROVE  Waiting(l)' = Waiting(l) \ {q} /\ LinkedOnce(asl'[l])
    <3>1. CASE l = k
      BY <2>4, <3>1
    <3>2. CASE l # k
      BY <2>2, <3>2
    <3> QED BY <3>1, <3>2
  <2> QED BY <2>5, <2>6
<1>10. FieldsOK'
  <2>1. semdFree' \in Nat /\ ProcBlocked' \in Int
    BY <1>2, <1>8 DEF FieldsOK, GiveSemd
  <2>2. sem' \in [Sem -> Int]
    BY <1>2, <1>4, <1>8 DEF FieldsOK
  <2> QED BY <1>1, <1>2, <1>3, <1>5, <1>6, <1>9, <2>1, <2>2 DEF FieldsOK
<1>11. OneList'
  <2>1. /\ \A p \in Free : p \notin Ready /\ p # curr
        /\ \A p \in Ready : p # curr
        /\ \A l \in Sem : \A p \in Waiting(l) :
             /\ p \notin Free /\ p \notin Ready /\ p # curr
             /\ \A m \in Sem : p \in Waiting(m) => l = m
    BY <1>2 DEF OneList
  <2>2. curr' = curr
    BY <1>1
  <2>3. \A p \in Free' : p \notin Ready' /\ p # curr'
    BY <1>3, <1>5, <1>6, <2>1, <2>2
  <2>4. \A l \in Sem : \A p \in Waiting(l)' :
          /\ p \notin Free' /\ p \notin Ready' /\ p # curr'
          /\ \A m \in Sem : p \in Waiting(m)' => l = m
    BY <1>3, <1>6, <1>9, <2>1, <2>2
  <2> QED BY <1>3, <1>5, <1>6, <1>9, <2>1, <2>2, <2>3, <2>4 DEF OneList
<1>12. SemKeyTellsQueue'
  BY <1>1, <1>2, <1>3, <1>9 DEF SemKeyTellsQueue
<1> QED BY <1>3, <1>10, <1>11, <1>12 DEF IInv

LEMMA TerminateReadyInv ==
  ASSUME IInv, NEW q \in Pcb, TerminateReady(q)
  PROVE  IInv'
<1>1. /\ cpu = "running" /\ curr \in Ancestors(q) /\ child[q] = {} /\ Unlink(q)
      /\ cpu' = "corrupt"
      /\ UNCHANGED <<tutor, orig, passup, ku, semkey, asl, semdFree, sem,
                     ProcBlocked, readyQ, prio, curr>>
  BY DEF TerminateReady, Serving, attrs, sems
<1>2. FieldsOK /\ SemKeyTellsQueue
  BY DEF IInv
<1>3. /\ parent' \in [Pcb -> Pcb \cup {NoProc}] /\ child' \in [Pcb -> SUBSET Pcb]
      /\ pcbFree' \in Seq(Pcb) /\ Free' = Free \cup {q} /\ TreeInv'
  BY <1>1, UnlinkInv
<1>4. FieldsOK'
  BY <1>1, <1>2, <1>3 DEF FieldsOK
<1>5. OneList'
  BY <1>1 DEF OneList, Intact
<1>6. SemKeyTellsQueue'
  BY <1>1, <1>2, <1>3 DEF SemKeyTellsQueue, Waiting
<1> QED BY <1>3, <1>4, <1>5, <1>6 DEF IInv

LEMMA TerminateParentInv ==
  ASSUME IInv, NEW q \in Pcb, TerminateParent(q)
  PROVE  IInv'
<1>1. /\ cpu = "running" /\ curr \in Ancestors(q)
      /\ UNCHANGED <<tutor, attrs, sems>>
  BY DEF TerminateParent, Serving
<1>2. PICK rank \in [Pcb -> Nat] : TreeOf(parent, child, Free, rank)
  BY DEF IInv, TreeInv
<1>3. q \in Pcb \ Free /\ curr \in Pcb \ Free
  BY <1>1, <1>2, DescendantFacts, RunningFacts
<1>4. /\ parent \in [Pcb -> Pcb \cup {NoProc}] /\ child \in [Pcb -> SUBSET Pcb]
      /\ Free \in SUBSET Pcb
  BY EmptyRange DEF IInv, FieldsOK, Free
<1>5. PICK u \in NearestTutor(q) :
        LET par == ParentMoved(parent, child, q, u)
            ch  == ChildMoved(child, q, u)
        IN  \/ ResumeHandler(par, ch)
            \/ DropRoot(par, ch)
            \/ /\ curr # Root
               /\ \E v \in NearestTutor(curr) : Exit(curr, v, par, ch)
  BY DEF TerminateParent
<1> DEFINE P1 == ParentMoved(parent, child, q, u)
           C1 == ChildMoved(child, q, u)
<1>6. /\ P1 \in [Pcb -> Pcb \cup {NoProc}] /\ C1 \in [Pcb -> SUBSET Pcb]
      /\ TreeOf(P1, C1, Free, rank)
  <2>1. u \in Pcb \ Free /\ rank[u] < rank[q]
    BY <1>2, <1>3, TutorFacts
  <2> QED BY <1>2, <1>3, <1>4, <2>1, HandOver
<1>7. \/ ResumeHandler(P1, C1) \/ DropRoot(P1, C1)
      \/ curr # Root /\ \E v \in NearestTutor(curr) : Exit(curr, v, P1, C1)
  BY <1>5
<1> HIDE DEF P1, C1
<1>8. CASE ResumeHandler(P1, C1) \/ DropRoot(P1, C1)
  BY <1>1, <1>6, <1>8, DropRootInv
<1>9. CASE curr # Root /\ \E v \in NearestTutor(curr) : Exit(curr, v, P1, C1)
  <2>1. PICK v \in NearestTutor(curr) : Exit(curr, v, P1, C1)
    BY <1>9
  <2>2. v \in Pcb \ Free /\ rank[v] < rank[curr]
    BY <1>2, <1>3, TutorFacts
  <2> QED BY <1>1, <1>6, <1>9, <2>1, <2>2, ExitInv
<1> QED BY <1>7, <1>8, <1>9
-----------------------------------------------------------------------------
(* SYS4, SYS5, SYS7 and the V's of the interval timer                      *)

\* insertProcQ on the ready queue.
LEMMA MadeReady ==
  ASSUME FieldsOK, LinkedOnce(readyQ), NEW w \in Pcb, w \notin Ready
  PROVE  /\ InsertProcQ(readyQ, w, prio) \in Seq(Pcb)
         /\ Range(InsertProcQ(readyQ, w, prio)) = Ready \cup {w}
         /\ LinkedOnce(InsertProcQ(readyQ, w, prio))
<1>1. readyQ \in Seq(Pcb) /\ prio \in [Pcb -> Int] /\ w \notin Range(readyQ)
  BY DEF FieldsOK, Ready
<1>2. InsertProcQ(readyQ, w, prio) \in Seq(Pcb)
  BY <1>1, InsertProcQProperties
<1>3. Range(InsertProcQ(readyQ, w, prio)) = Range(readyQ) \cup {w}
  BY <1>1, InsertProcQProperties
<1>4. LinkedOnce(InsertProcQ(readyQ, w, prio))
  BY <1>1, InsertProcQProperties
<1> QED BY <1>2, <1>3, <1>4 DEF Ready

\* removeBlocked: the first process leaves the queue of k, forgets its key,
\* and becomes ready or is in no list.
LEMMA DequeueInv ==
  ASSUME IInv, Intact, NEW k \in Sem, asl[k] # <<>>,
         asl' = [asl EXCEPT ![k] = Tail(@)],
         semdFree' = GiveSemd(Tail(asl[k])),
         semkey' = [semkey EXCEPT ![Head(asl[k])] = NoKey],
         readyQ' = InsertProcQ(readyQ, Head(asl[k]), prio) \/ readyQ' = readyQ,
         sem' \in [Sem -> Int], ProcBlocked' \in Int,
         UNCHANGED <<pcbFree, tree, attrs, prio, curr, cpu>>
  PROVE  IInv'
<1>1. /\ FieldsOK /\ OneList /\ SemKeyTellsQueue /\ TreeInv
      /\ UNCHANGED <<pcbFree, parent, child, tutor, orig, passup, ku, prio, curr, cpu>>
  BY DEF IInv, tree, attrs
<1>2. /\ readyQ \in Seq(Pcb) /\ asl \in [Sem -> Seq(Pcb)] /\ asl[k] \in Seq(Pcb)
      /\ LinkedOnce(readyQ) /\ \A l \in Sem : LinkedOnce(asl[l])
      /\ prio \in [Pcb -> Int]
  BY <1>1 DEF FieldsOK, OneList
<1>3. Free' = Free
  BY <1>1 DEF Free
<1>4. TreeInv'
  BY <1>1, <1>3 DEF TreeInv
<1>5. PICK w \in Pcb : w = Head(asl[k])
  BY <1>2, RemoveProcQProperties
<1>6. /\ asl' = [asl EXCEPT ![k] = Tail(@)]
      /\ semdFree' = GiveSemd(Tail(asl[k]))
      /\ semkey' = [semkey EXCEPT ![w] = NoKey]
      /\ readyQ' = InsertProcQ(readyQ, w, prio) \/ readyQ' = readyQ
  BY <1>5
<1>7. /\ w \in Pcb /\ w \in Range(asl[k]) /\ Tail(asl[k]) \in Seq(Pcb)
      /\ LinkedOnce(Tail(asl[k])) /\ Range(Tail(asl[k])) = Range(asl[k]) \ {w}
  BY <1>2, <1>5, RemoveProcQProperties
<1>8. /\ w \in Waiting(k) /\ w \notin Free /\ w \notin Ready /\ w # curr
      /\ \A l \in Sem : w \in Waiting(l) => l = k
  BY <1>1, <1>7 DEF OneList, Waiting
<1>9. asl' \in [Sem -> Seq(Pcb)]
  BY <1>2, <1>6, <1>7
<1>10. ASSUME NEW l \in Sem
      PROVE  Waiting(l)' = Waiting(l) \ {w} /\ LinkedOnce(asl'[l])
  <2>1. CASE l = k
    <3>1. asl'[k] = Tail(asl[k])
      BY <1>2, <1>6
    <3> QED BY <1>7, <2>1, <3>1 DEF Waiting
  <2>2. CASE l # k
    BY <1>2, <1>6, <1>8, <2>2 DEF Waiting
  <2> QED BY <2>1, <2>2
<1>11. /\ readyQ' \in Seq(Pcb) /\ LinkedOnce(readyQ')
      /\ \A p \in Ready' : p \in Ready \/ p = w
  <2>1. /\ InsertProcQ(readyQ, w, prio) \in Seq(Pcb)
        /\ Range(InsertProcQ(readyQ, w, prio)) = Ready \cup {w}
        /\ LinkedOnce(InsertProcQ(readyQ, w, prio))
    BY <1>1, <1>2, <1>8, MadeReady
  <2>2. CASE readyQ' = InsertProcQ(readyQ, w, prio)
    BY <1>2, <1>8, <2>1, <2>2 DEF Ready
  <2>3. CASE readyQ' = readyQ
    BY <1>2, <2>3 DEF Ready
  <2> QED BY <1>6, <2>2, <2>3
<1>12. FieldsOK'
  <2>1. semdFree' \in Nat
    BY <1>1, <1>6 DEF FieldsOK, GiveSemd
  <2>2. semkey' \in [Pcb -> Sem \cup {NoKey}]
    BY <1>1, <1>6 DEF FieldsOK
  <2> QED BY <1>1, <1>9, <1>11, <2>1, <2>2 DEF FieldsOK
<1>13. OneList'
  <2>1. /\ \A p \in Free : p \notin Ready /\ p # curr
        /\ \A p \in Ready : p # curr
        /\ \A l \in Sem : \A p \in Waiting(l) :
             /\ p \notin Free /\ p \notin Ready /\ p # curr
             /\ \A m \in Sem : p \in Waiting(m) => l = m
        /\ LinkedOnce(pcbFree)
    BY <1>1 DEF OneList
  <2>2. curr' = curr /\ pcbFree' = pcbFree
    BY <1>1
  <2>3. \A p \in Free' : p \notin Ready' /\ p # curr'
    BY <1>3, <1>8, <1>11, <2>1, <2>2
  <2>4. \A p \in Ready' : p # curr'
    BY <1>8, <1>11, <2>1, <2>2
  <2>5. \A l \in Sem : \A p \in Waiting(l)' :
          /\ p \notin Free' /\ p \notin Ready' /\ p # curr'
          /\ \A m \in Sem : p \in Waiting(m)' => l = m
    BY <1>3, <1>10, <1>11, <2>1, <2>2
  <2> QED BY <1>10, <1>11, <2>1, <2>2, <2>3, <2>4, <2>5 DEF OneList
<1>14. SemKeyTellsQueue'
  <2> SUFFICES ASSUME NEW p \in Pcb \ Free, NEW l \in Sem
               PROVE  semkey'[p] = l <=> p \in Waiting(l)'
    BY <1>3 DEF SemKeyTellsQueue
  <2>1. semkey[p] = l <=> p \in Waiting(l)
    BY <1>1 DEF SemKeyTellsQueue
  <2>2. semkey'[p] = IF p = w THEN NoKey ELSE semkey[p]
    BY <1>1, <1>6 DEF FieldsOK
  <2> QED BY <1>10, <2>1, <2>2, ConstantFacts
<1> QED BY <1>4, <1>12, <1>13, <1>14 DEF IInv

LEMMA VInv ==
  ASSUME IInv, Intact, NEW k \in Sem, V(k),
         UNCHANGED <<pcbFree, tree, attrs, prio, curr, cpu>>
  PROVE  IInv'
<1>1. /\ FieldsOK /\ OneList /\ SemKeyTellsQueue /\ TreeInv
      /\ UNCHANGED <<pcbFree, parent, child, tutor, orig, passup, ku, prio, curr, cpu>>
  BY DEF IInv, tree, attrs
<1>2. /\ readyQ \in Seq(Pcb) /\ asl \in [Sem -> Seq(Pcb)] /\ asl[k] \in Seq(Pcb)
      /\ LinkedOnce(readyQ) /\ \A l \in Sem : LinkedOnce(asl[l])
      /\ prio \in [Pcb -> Int]
  BY <1>1 DEF FieldsOK, OneList
<1>3. sem' \in [Sem -> Int]
  BY <1>1 DEF V, FieldsOK
<1>4. Free' = Free
  BY <1>1 DEF Free
<1>5. TreeInv'
  BY <1>1, <1>4 DEF TreeInv
<1>6. CASE asl[k] = <<>>
  <2>1. UNCHANGED <<asl, semdFree, semkey, ProcBlocked, readyQ>>
    BY <1>6 DEF V
  <2>2. Ready' = Ready /\ \A l \in Sem : Waiting(l)' = Waiting(l)
    BY <2>1 DEF Ready, Waiting
  <2>3. FieldsOK'
    BY <1>1, <1>3, <2>1 DEF FieldsOK
  <2>4. OneList'
    BY <1>1, <1>4, <2>1, <2>2 DEF OneList, Intact
  <2>5. SemKeyTellsQueue'
    BY <1>1, <1>4, <2>1, <2>2 DEF SemKeyTellsQueue
  <2> QED BY <1>5, <2>3, <2>4, <2>5 DEF IInv
<1>7. CASE asl[k] # <<>>
  <2>1. /\ asl' = [asl EXCEPT ![k] = Tail(@)]
        /\ semdFree' = GiveSemd(Tail(asl[k]))
        /\ semkey' = [semkey EXCEPT ![Head(asl[k])] = NoKey]
        /\ readyQ' = InsertProcQ(readyQ, Head(asl[k]), prio) \/ readyQ' = readyQ
        /\ ProcBlocked' = ProcBlocked - 1 \/ ProcBlocked' = ProcBlocked
    BY <1>7 DEF V
  <2>2. ProcBlocked' \in Int
    BY <1>1, <2>1 DEF FieldsOK
  <2> QED BY <1>3, <1>7, <2>1, <2>2, DequeueInv
<1> QED BY <1>6, <1>7

LEMMA PInv ==
  ASSUME IInv, cpu = "running", NEW k \in Sem, P(k),
         UNCHANGED <<pcbFree, tree, attrs>>
  PROVE  IInv'
<1>1. /\ FieldsOK /\ OneList /\ SemKeyTellsQueue /\ TreeInv /\ Intact
      /\ curr \in Pcb \ Free /\ curr \notin Ready
      /\ \A l \in Sem : curr \notin Waiting(l)
      /\ UNCHANGED <<pcbFree, parent, child, tutor, orig, passup, ku>>
  BY RunningFacts DEF IInv, tree, attrs
<1>2. /\ readyQ \in Seq(Pcb) /\ asl \in [Sem -> Seq(Pcb)] /\ asl[k] \in Seq(Pcb)
      /\ LinkedOnce(readyQ) /\ \A l \in Sem : LinkedOnce(asl[l])
      /\ prio \in [Pcb -> Int] /\ orig \in [Pcb -> Int]
  BY <1>1 DEF FieldsOK, OneList
<1>3. sem' \in [Sem -> Int]
  BY <1>1 DEF P, FieldsOK
<1>4. Free' = Free
  BY <1>1 DEF Free
<1>5. TreeInv'
  BY <1>1, <1>4 DEF TreeInv
<1>6. CASE UNCHANGED <<asl, semdFree, semkey, ProcBlocked, sched>>
  <2>1. UNCHANGED <<asl, semdFree, semkey, ProcBlocked, readyQ, prio, curr, cpu>>
    BY <1>6 DEF sched
  <2>2. Ready' = Ready /\ \A l \in Sem : Waiting(l)' = Waiting(l)
    BY <2>1 DEF Ready, Waiting
  <2>3. FieldsOK'
    BY <1>1, <1>3, <2>1 DEF FieldsOK
  <2>4. OneList'
    BY <1>1, <1>4, <2>1, <2>2 DEF OneList, Intact
  <2>5. SemKeyTellsQueue'
    BY <1>1, <1>4, <2>1, <2>2 DEF SemKeyTellsQueue
  <2> QED BY <1>5, <2>3, <2>4, <2>5 DEF IInv
<1>7. CASE /\ asl[k] # <<>> \/ semdFree > 0
           /\ asl' = [asl EXCEPT ![k] = InsertProcQ(@, curr, prio)]
           /\ semdFree' = TakeSemd(k)
           /\ semkey' = [semkey EXCEPT ![curr] = k]
           /\ ProcBlocked' = ProcBlocked + 1
           /\ Scheduler(readyQ, prio, NoProc, ProcBlocked')
  <2>1. /\ readyQ' \in Seq(Pcb) /\ prio' \in [Pcb -> Int]
        /\ curr' \in Pcb \cup {NoProc} /\ cpu' \in {"running", "waiting", "halted"}
        /\ cpu' = "running" => curr' # NoProc
        /\ LinkedOnce(readyQ') /\ curr' \notin Ready'
        /\ Ready' \subseteq Pcb
        /\ \A p \in Pcb : p \in Ready' \/ p = curr' <=> p \in Ready
    <3>1. Scheduler(readyQ, prio, NoProc, ProcBlocked') /\ NoProc \notin Range(readyQ)
      BY <1>2, <1>7, EmptyRange, ConstantFacts
    <3>2. /\ readyQ \in Seq(Pcb) /\ prio \in [Pcb -> Int] /\ orig \in [Pcb -> Int]
          /\ LinkedOnce(readyQ)
      BY <1>2
    <3> HIDE DEF Ready
    <3>3. /\ readyQ' \in Seq(Pcb) /\ prio' \in [Pcb -> Int]
          /\ curr' \in Pcb \cup {NoProc} /\ cpu' \in {"running", "waiting", "halted"}
          /\ cpu' = "running" => curr' # NoProc
          /\ LinkedOnce(readyQ') /\ curr' \notin Range(readyQ')
          /\ Range(readyQ') \subseteq Pcb
          /\ \A p \in Pcb : p \in Range(readyQ') \/ p = curr' <=> p \in Range(readyQ) \/ p = NoProc
      BY <3>1, <3>2, SchedulerKeeps
    <3> QED BY <3>3, ConstantFacts DEF Ready
  <2>2. /\ InsertProcQ(asl[k], curr, prio) \in Seq(Pcb)
        /\ Range(InsertProcQ(asl[k], curr, prio)) = Range(asl[k]) \cup {curr}
        /\ LinkedOnce(asl[k]) /\ curr \notin Range(asl[k])
             => LinkedOnce(InsertProcQ(asl[k], curr, prio))
    BY <1>1, <1>2, InsertProcQProperties
  <2>3. asl' \in [Sem -> Seq(Pcb)]
    BY <1>2, <1>7, <2>2
  <2>4. ASSUME NEW l \in Sem
        PROVE  /\ Waiting(l)' = Waiting(l) \cup (IF l = k THEN {curr} ELSE {})
               /\ LinkedOnce(asl'[l])
    <3>1. CASE l = k
      <4>1. asl'[k] = InsertProcQ(asl[k], curr, prio)
        BY <1>2, <1>7
      <4> QED BY <1>1, <1>2, <2>2, <3>1, <4>1 DEF Waiting
    <3>2. CASE l # k
      BY <1>2, <1>7, <3>2 DEF Waiting
    <3> QED BY <3>1, <3>2
  <2>5. FieldsOK'
    <3>1. semdFree' \in Nat /\ ProcBlocked' \in Int
      BY <1>1, <1>7 DEF FieldsOK, TakeSemd
    <3>2. semkey' \in [Pcb -> Sem \cup {NoKey}]
      BY <1>1, <1>7 DEF FieldsOK
    <3> QED BY <1>1, <1>3, <2>1, <2>3, <3>1, <3>2 DEF FieldsOK
  <2>6. OneList'
    <3>1. /\ \A p \in Free : p \in Pcb /\ p \notin Ready /\ p # curr
          /\ \A l \in Sem : \A p \in Waiting(l) :
               /\ p \in Pcb /\ p \notin Free /\ p \notin Ready /\ p # curr
               /\ \A m \in Sem : p \in Waiting(m) => l = m
          /\ LinkedOnce(pcbFree')
      BY <1>1, EmptyRange DEF OneList, Waiting, Free, FieldsOK
    <3>2. \A p \in Free' : p \notin Ready' /\ p # curr'
      BY <1>4, <2>1, <3>1
    <3>3. \A p \in Ready' : p # curr'
      BY <2>1
    <3>4. ASSUME NEW l \in Sem, NEW p \in Waiting(l)'
          PROVE  /\ p \notin Free' /\ p \notin Ready' /\ p # curr'
                 /\ \A m \in Sem : p \in Waiting(m)' => l = m
      <4>1. CASE p = curr
        BY <1>1, <1>4, <2>1, <2>4, <4>1
      <4>2. CASE p # curr
        BY <1>4, <2>1, <2>4, <3>1, <4>2
      <4> QED BY <4>1, <4>2
    <3> QED BY <2>1, <2>4, <3>1, <3>2, <3>3, <3>4 DEF OneList
  <2>7. SemKeyTellsQueue'
    <3> SUFFICES ASSUME NEW p \in Pcb \ Free, NEW l \in Sem
                 PROVE  semkey'[p] = l <=> p \in Waiting(l)'
      BY <1>4 DEF SemKeyTellsQueue
    <3>1. semkey[p] = l <=> p \in Waiting(l)
      BY <1>1 DEF SemKeyTellsQueue
    <3>2. semkey'[p] = IF p = curr THEN k ELSE semkey[p]
      BY <1>1, <1>7 DEF FieldsOK
    <3> QED BY <1>1, <2>4, <3>1, <3>2
  <2> QED BY <1>5, <2>5, <2>6, <2>7 DEF IInv
<1> QED BY <1>6, <1>7 DEF P
-----------------------------------------------------------------------------
(* SYS8, SYS9 and the timers                                               *)

\* A step that moves no PCB and changes no link.
LEMMA QuietInv ==
  ASSUME IInv,
         UNCHANGED <<pcbFree, parent, child, orig, prio, ku, readyQ, sems, curr>>,
         tutor' \in [Pcb -> BOOLEAN], tutor'[Root],
         passup' \in [Pcb -> SUBSET TrapType],
         cpu' = cpu \/ cpu' # "corrupt",
         cpu = "corrupt" => cpu' = "corrupt",
         cpu' = "running" => curr # NoProc
  PROVE  IInv'
<1>1. /\ FieldsOK /\ OneList /\ SemKeyTellsQueue /\ TreeInv
      /\ UNCHANGED <<semkey, asl, semdFree, sem, ProcBlocked>>
  BY DEF IInv, sems
<1>2. /\ Free' = Free /\ Ready' = Ready /\ \A k \in Sem : Waiting(k)' = Waiting(k)
  BY <1>1 DEF Free, Ready, Waiting
<1>3. FieldsOK'
  <2>1. cpu' = "running" => curr' # NoProc
    BY <1>1 DEF FieldsOK
  <2> QED BY <1>1, <2>1 DEF FieldsOK
<1>4. OneList'
  BY <1>1, <1>2 DEF OneList, Intact
<1>5. SemKeyTellsQueue'
  BY <1>1, <1>2 DEF SemKeyTellsQueue
<1>6. TreeInv'
  BY <1>1, <1>2 DEF TreeInv
<1> QED BY <1>3, <1>4, <1>5, <1>6 DEF IInv

\* scheduler() puts the running process, if any, back into the ready queue.
LEMMA ScheduleInv ==
  ASSUME IInv, Intact, Scheduler(readyQ, prio, curr, ProcBlocked),
         UNCHANGED <<pcbFree, tree, attrs, sems>>
  PROVE  IInv'
<1>1. /\ FieldsOK /\ OneList /\ SemKeyTellsQueue /\ TreeInv
      /\ UNCHANGED <<pcbFree, parent, child, tutor, orig, passup, ku>>
      /\ UNCHANGED <<semkey, asl, semdFree, sem, ProcBlocked>>
  BY DEF IInv, tree, attrs, sems
<1>2. /\ Free' = Free /\ \A k \in Sem : Waiting(k)' = Waiting(k)
  BY <1>1 DEF Free, Waiting
<1>3. /\ readyQ' \in Seq(Pcb) /\ prio' \in [Pcb -> Int]
      /\ curr' \in Pcb \cup {NoProc} /\ cpu' \in {"running", "waiting", "halted"}
      /\ cpu' = "running" => curr' # NoProc
      /\ LinkedOnce(readyQ') /\ curr' \notin Range(readyQ')
      /\ Range(readyQ') \subseteq Pcb
      /\ \A p \in Pcb : p \in Range(readyQ') \/ p = curr' <=> p \in Range(readyQ) \/ p = curr
  <2>1. /\ readyQ \in Seq(Pcb) /\ prio \in [Pcb -> Int] /\ orig \in [Pcb -> Int]
        /\ LinkedOnce(readyQ) /\ curr \in Pcb \cup {NoProc}
    BY <1>1 DEF FieldsOK, OneList
  <2>2. curr \notin Range(readyQ)
    BY <1>1 DEF OneList, Ready
  <2> QED BY <2>1, <2>2, SchedulerKeeps
<1>4. FieldsOK'
  BY <1>1, <1>3 DEF FieldsOK
<1>5. OneList'
  <2>1. /\ \A p \in Free : p \in Pcb /\ p \notin Range(readyQ) /\ p # curr
        /\ \A k \in Sem : \A p \in Waiting(k) :
             /\ p \in Pcb /\ p \notin Free /\ p \notin Range(readyQ) /\ p # curr
             /\ \A l \in Sem : p \in Waiting(l) => k = l
        /\ LinkedOnce(pcbFree) /\ \A k \in Sem : LinkedOnce(asl[k])
    BY <1>1, EmptyRange DEF OneList, Waiting, Free, Ready, FieldsOK
  <2>2. \A p \in Free' : p \notin Range(readyQ') /\ p # curr'
    BY <1>2, <1>3, <2>1
  <2>3. \A k \in Sem : \A p \in Waiting(k)' :
          /\ p \notin Free' /\ p \notin Range(readyQ') /\ p # curr'
          /\ \A l \in Sem : p \in Waiting(l)' => k = l
    BY <1>2, <1>3, <2>1
  <2>4. LinkedOnce(pcbFree') /\ \A k \in Sem : LinkedOnce(asl[k])'
    BY <1>1, <2>1
  <2> QED BY <1>3, <2>2, <2>3, <2>4 DEF OneList, Ready
<1>6. SemKeyTellsQueue'
  BY <1>1, <1>2 DEF SemKeyTellsQueue
<1>7. TreeInv'
  BY <1>1, <1>2 DEF TreeInv
<1> QED BY <1>4, <1>5, <1>6, <1>7 DEF IInv
-----------------------------------------------------------------------------
(* The inductive invariant                                                 *)

\* Every step of the nucleus, whatever the system call, trap or interrupt,
\* preserves IInv.
LEMMA NextInv == IInv /\ [Next]_vars => IInv'
<1> SUFFICES ASSUME IInv, [Next]_vars PROVE IInv'
  OBVIOUS
<1> USE ConstantFacts
<1>1. ASSUME NEW pr \in Priorities, NEW usermode \in UserModes,
             CreateProcess(pr, usermode)
      PROVE  IInv'
  BY <1>1, CreateProcessInv
<1>2. CASE TerminateSelf
  BY <1>2, TerminateCurrentInv DEF TerminateSelf, Serving
<1>3. ASSUME NEW q \in Pcb, TerminateBlocked(q) PROVE IInv'
  BY <1>3, TerminateBlockedInv
<1>4. ASSUME NEW q \in Pcb, TerminateReady(q) PROVE IInv'
  BY <1>4, TerminateReadyInv
<1>5. ASSUME NEW q \in Pcb, TerminateParent(q) PROVE IInv'
  BY <1>5, TerminateParentInv
<1>6. ASSUME NEW k \in UserSem, Verhogen(k) PROVE IInv'
  <2>1. Intact /\ V(k) /\ UNCHANGED <<pcbFree, tree, attrs, prio, curr, cpu>>
    BY <1>6 DEF Verhogen, Serving, Intact
  <2> QED BY <2>1, VInv
<1>7. ASSUME NEW k \in Sem, Passeren(k) PROVE IInv'
  <2>1. cpu = "running" /\ P(k) /\ UNCHANGED <<pcbFree, tree, attrs>>
    BY <1>7 DEF Passeren, Serving
  <2> QED BY <2>1, PInv
<1>8. CASE SetTutor
  <2>1. tutor \in [Pcb -> BOOLEAN] /\ tutor[Root] /\ cpu = "running"
    BY <1>8 DEF IInv, FieldsOK, TreeInv, SetTutor, Serving
  <2>2. tutor' = [tutor EXCEPT ![curr] = TRUE]
    BY <1>8 DEF SetTutor
  <2>3. tutor' \in [Pcb -> BOOLEAN] /\ tutor'[Root]
    BY <2>1, <2>2, Zenon
  <2>4. UNCHANGED <<pcbFree, parent, child, orig, prio, ku, readyQ, sems, curr, passup, cpu>>
    BY <1>8 DEF SetTutor, attrs, sched
  <2> QED BY <2>1, <2>3, <2>4, QuietInv DEF IInv, FieldsOK
<1>9. ASSUME NEW t \in PassupTypes, SpecPassup(t) PROVE IInv'
  <2>1. /\ UNCHANGED <<pcbFree, parent, child, tutor, orig, prio, ku, readyQ, sems, curr, cpu>>
        /\ passup' = [passup EXCEPT ![curr] = @ \cup {t}]
    BY <1>9 DEF SpecPassup, tree, sched
  <2>2. passup' \in [Pcb -> SUBSET TrapType]
    BY <2>1, NucleusAssumption DEF IInv, FieldsOK
  <2> QED BY <2>1, <2>2, QuietInv DEF IInv, FieldsOK, TreeInv
<1>10. ASSUME NEW t \in TrapType, Trap(t) PROVE IInv'
  BY <1>10, KillInv DEF Trap, Serving
<1>11. CASE UserModeException
  BY <1>11, KillInv DEF UserModeException
<1>12. CASE TimeSlice
  BY <1>12, ScheduleInv DEF TimeSlice, Serving, Intact
<1>13. CASE IntervalTimer
  <2>1. /\ cpu \in {"running", "waiting"} /\ cpu' = "ticking"
        /\ UNCHANGED <<pcbFree, parent, child, tutor, orig, passup, ku, prio, readyQ, sems, curr>>
    BY <1>13 DEF IntervalTimer, Serving, tree, attrs
  <2> QED BY <2>1, QuietInv DEF IInv, FieldsOK, TreeInv
<1>14. CASE TickWake
  BY <1>14, VInv DEF TickWake, Intact
<1>15. CASE TickEnd
  <2>1. cpu = "ticking" /\ UNCHANGED <<pcbFree, tree, attrs, sems>>
    BY <1>15 DEF TickEnd
  <2>2. CASE curr # NoProc /\ cpu' = "running" /\ UNCHANGED <<readyQ, prio, curr>>
    BY <2>1, <2>2, QuietInv DEF IInv, FieldsOK, TreeInv, tree, attrs
  <2>3. CASE Scheduler(readyQ, prio, curr, ProcBlocked)
    BY <2>1, <2>3, ScheduleInv DEF Intact
  <2> QED BY <1>15, <2>2, <2>3 DEF TickEnd
<1>16. CASE UNCHANGED vars
  BY <1>16, QuietInv DEF IInv, FieldsOK, TreeInv, vars, tree, attrs, sched
<1> QED
  BY <1>1, <1>2, <1>3, <1>4, <1>5, <1>6, <1>7, <1>8, <1>9, <1>10, <1>11,
     <1>12, <1>13, <1>14, <1>15, <1>16
  DEF Next, WaitClock, Idle

LEMMA Invariance == Spec => []IInv
BY InitInv, NextInv, PTL DEF Spec

CpuState == {"running", "waiting", "ticking", "halted", "corrupt"}

\* The steps of the nucleus start and end in a state of the processor that
\* the nucleus has, not in one that another module adds; the lists are
\* corrupted by a process that runs.
LEMMA NextCpu ==
  ASSUME Next
  PROVE  /\ cpu \in CpuState /\ cpu' \in CpuState
         /\ cpu' = "corrupt" => cpu \in {"running", "corrupt"} /\ curr' = curr
<1> DEFINE Own ==
      /\ cpu \in CpuState /\ cpu' \in CpuState
      /\ cpu' = "corrupt" => cpu \in {"running", "corrupt"} /\ curr' = curr
<1> SUFFICES Own
  OBVIOUS
<1> USE DEF CpuState
<1>1. ASSUME NEW rq, NEW pr, NEW c, NEW n, Scheduler(rq, pr, c, n)
      PROVE  cpu' \in CpuState \ {"corrupt"}
  BY <1>1 DEF Scheduler, Context
<1>2. CASE cpu = "running" /\ TerminateCurrent
  BY <1>1, <1>2 DEF TerminateCurrent, ResumeHandler, Exit, sched
<1>3. CASE cpu = "running" /\ Kill
  BY <1>1, <1>2, <1>3 DEF Kill, DropRoot
<1>4. ASSUME NEW q \in Pcb, TerminateParent(q) PROVE Own
  <2>1. cpu = "running"
    BY <1>4 DEF TerminateParent, Serving
  <2> QED BY <1>1, <1>4, <2>1 DEF TerminateParent, ResumeHandler, DropRoot, Exit, sched
<1>5. ASSUME NEW k \in Sem, Passeren(k) PROVE Own
  BY <1>1, <1>5 DEF Passeren, P, sched, Serving
<1>6. ASSUME NEW pr \in Priorities, NEW usermode \in UserModes,
             CreateProcess(pr, usermode)
      PROVE  Own
  BY <1>6 DEF CreateProcess, Serving
<1>7. ASSUME NEW q \in Pcb, TerminateBlocked(q) \/ TerminateReady(q) PROVE Own
  BY <1>7 DEF TerminateBlocked, TerminateReady, Serving
<1>8. ASSUME NEW k \in UserSem, Verhogen(k) PROVE Own
  BY <1>8 DEF Verhogen, Serving
<1>9. CASE SetTutor \/ IntervalTimer \/ TickWake
  BY <1>9 DEF SetTutor, IntervalTimer, TickWake, Serving, sched
<1>10. ASSUME NEW t \in PassupTypes, SpecPassup(t) PROVE Own
  BY <1>10 DEF SpecPassup, Serving, sched
<1>11. CASE TimeSlice \/ TickEnd
  BY <1>1, <1>11 DEF TimeSlice, TickEnd, Serving
<1>12. CASE TerminateSelf \/ UserModeException \/ \E t \in TrapType : Trap(t)
  BY <1>2, <1>3, <1>12 DEF TerminateSelf, UserModeException, Trap, Serving
<1>13. CASE Idle
  BY <1>13 DEF Idle, vars, sched
<1> QED
  BY <1>4, <1>5, <1>6, <1>7, <1>8, <1>9, <1>10, <1>11, <1>12, <1>13, ConstantFacts
  DEF Next, WaitClock

\* The fields of the PCBs, the queues and the variables of the nucleus keep
\* their types: in particular no descriptor is taken from an empty pool and
\* a process runs whenever the processor does.
THEOREM TypeCorrect == Spec => []TypeOK
<1> DEFINE Own == cpu \in CpuState /\ (cpu = "corrupt" => curr # NoProc)
<1>1. Init => Own
  BY DEF Init, CpuState
<1>2. IInv /\ Own /\ [Next]_vars => Own'
  BY NextCpu DEF vars, sched, IInv, FieldsOK
<1>3. IInv /\ Own => TypeOK
  BY DEF IInv, TypeOK, CpuState
<1> HIDE DEF Own
<1> QED BY <1>1, <1>2, <1>3, Invariance, PTL DEF Spec

\* Whatever sequence of system calls, traps and timer interrupts is served,
\* no PCB is linked twice, in two lists, or in a list while it runs, until
\* Terminate_Process frees a ready process.
THEOREM ListsCorrect == Spec => []OneList
<1>1. IInv => OneList
  BY DEF IInv
<1> QED BY <1>1, Invariance, PTL

\* p_semkey tells whether a live process is blocked, and where.
THEOREM SemKeyCorrect == Spec => []SemKeyTellsQueue
<1>1. IInv => SemKeyTellsQueue
  BY DEF IInv
<1> QED BY <1>1, Invariance, PTL

LEMMA OneTreeHolds ==
  ASSUME IInv
  PROVE  OneTree
<1>1. PICK rank \in [Pcb -> Nat] : TreeOf(parent, child, Free, rank)
  BY DEF IInv, TreeInv
<1>2. /\ \A p, c \in Pcb : c \in child[p] <=> parent[c] = p
      /\ \A p \in Free : parent[p] = NoProc /\ child[p] = {}
      /\ parent[Root] = NoProc
  BY <1>1 DEF TreeOf
<1>3. tutor[Root]
  BY DEF IInv, TreeInv
<1>4. \A p \in Pcb \ (Free \cup {Root}) : Root \in Ancestors(p)
  BY RootIsAncestor DEF IInv
<1> QED BY <1>2, <1>3, <1>4 DEF OneTree

\* The links of the PCBs form one tree under the root, a tutor, so that the
\* climbs of lookup_proc and Terminate_Process never meet a NULL parent.
THEOREM TreeCorrect == Spec => []OneTree
BY OneTreeHolds, Invariance, PTL
-----------------------------------------------------------------------------
(* The parents of orphans                                                  *)

\* c, a live process that stays alive, has the parent it should have.
GoodParent(c) ==
  (c \notin Free' /\ parent'[c] # parent[c]) =>
    /\ parent'[c] \in Ancestors(parent[c])
    /\ tutor[parent'[c]]
    /\ parent'[c] \notin Free'
    /\ \A t \in NearestTutor(parent[c]) : t = parent'[c] \/ t \in Free'

GoodParents == \A c \in Pcb \ Free : GoodParent(c)

\* The tutor found for the children of a live process.
LEMMA HeirFacts ==
  ASSUME IInv, NEW q \in Pcb \ Free, NEW u \in NearestTutor(q)
  PROVE  /\ u \in Ancestors(q) /\ tutor[u] /\ u \in Pcb \ Free /\ u # q
         /\ \A t \in NearestTutor(q) : t = u
<1>1. PICK rank \in [Pcb -> Nat] : TreeOf(parent, child, Free, rank)
  BY DEF IInv, TreeInv
<1>2. FieldsOK
  BY DEF IInv
<1>3. u \in Climb(q, {a \in Pcb : tutor[a]}) /\ tutor[u]
  BY DEF NearestTutor
<1>4. u \in Ancestors(q)
  BY <1>3, ClimbAncestors
<1>5. u \in Pcb \ Free /\ rank[u] < rank[q]
  BY <1>1, <1>2, <1>3, ClimbGoesUp
<1>6. u # q
  <2>1. rank[q] \in Nat
    OBVIOUS
  <2> QED BY <1>5, <2>1
<1>7. \A t \in NearestTutor(q) : t = u
  BY <1>1, <1>2, OneNearestTutor
<1> QED BY <1>3, <1>4, <1>5, <1>6, <1>7

\* Children and parents agree.
LEMMA ChildFacts ==
  ASSUME IInv
  PROVE  /\ \A p, c \in Pcb : c \in child[p] <=> parent[c] = p
         /\ parent \in [Pcb -> Pcb \cup {NoProc}] /\ child \in [Pcb -> SUBSET Pcb]
         /\ pcbFree \in Seq(Pcb)
<1>1. PICK rank \in [Pcb -> Nat] : TreeOf(parent, child, Free, rank)
  BY DEF IInv, TreeInv
<1> QED BY <1>1 DEF TreeOf, IInv, FieldsOK

\* The links and the free PCBs stay as they are, but for one PCB that is
\* freed or was free.
LEMMA SameParents ==
  ASSUME IInv, NEW q, q \in Free \/ q \in Free',
         \A c \in Pcb \ {q} : parent'[c] = parent[c]
  PROVE  GoodParents
BY DEF GoodParents, GoodParent

\* The children of q go to its tutor u, which is not freed.
LEMMA MovedOnce ==
  ASSUME IInv, NEW q \in Pcb \ Free, NEW u \in NearestTutor(q), u \notin Free',
         parent' = ParentMoved(parent, child, q, u)
           \/ (q \in Free' /\ parent' = [ParentMoved(parent, child, q, u)
                                           EXCEPT ![q] = NoProc])
  PROVE  GoodParents
<1> SUFFICES ASSUME NEW c \in Pcb \ Free, c \notin Free', parent'[c] # parent[c]
             PROVE  /\ parent'[c] \in Ancestors(parent[c])
                    /\ tutor[parent'[c]]
                    /\ parent'[c] \notin Free'
                    /\ \A t \in NearestTutor(parent[c]) : t = parent'[c] \/ t \in Free'
  BY DEF GoodParents, GoodParent
<1>1. parent'[c] = IF c \in child[q] THEN u ELSE parent[c]
  BY DEF ParentMoved
<1>2. parent[c] = q /\ parent'[c] = u
  BY <1>1, ChildFacts
<1> QED BY <1>2, HeirFacts

\* Terminate_Process hands over the children of q, and the trap that ends it
\* those of the caller, q's children among them if the caller is q's tutor.
LEMMA MovedTwice ==
  ASSUME IInv, cpu = "running", NEW q \in Pcb \ Free, curr \in Ancestors(q), q # curr,
         NEW u \in NearestTutor(q), NEW v \in NearestTutor(curr),
         parent' = [ParentMoved(ParentMoved(parent, child, q, u),
                                ChildMoved(child, q, u), curr, v)
                      EXCEPT ![curr] = NoProc],
         Free' = Free \cup {curr}
  PROVE  GoodParents
<1> SUFFICES ASSUME NEW c \in Pcb \ Free, c \notin Free', parent'[c] # parent[c]
             PROVE  /\ parent'[c] \in Ancestors(parent[c])
                    /\ tutor[parent'[c]]
                    /\ parent'[c] \notin Free'
                    /\ \A t \in NearestTutor(parent[c]) : t = parent'[c] \/ t \in Free'
  BY DEF GoodParents, GoodParent
<1>1. curr \in Pcb \ Free
  BY RunningFacts
<1>2. /\ u \in Ancestors(q) /\ tutor[u] /\ u \in Pcb \ Free
      /\ \A t \in NearestTutor(q) : t = u
  BY HeirFacts
<1>3. /\ v \in Ancestors(curr) /\ tutor[v] /\ v \in Pcb \ Free /\ v # curr
      /\ \A t \in NearestTutor(curr) : t = v
  BY <1>1, HeirFacts
<1>4. c # curr
  OBVIOUS
<1>5. ChildMoved(child, q, u)[curr] =
        IF curr = u THEN child[curr] \cup child[q] ELSE child[curr]
  BY <1>1, <1>2, ChildFacts DEF ChildMoved
<1>6. parent'[c] = IF c \in ChildMoved(child, q, u)[curr] THEN v
                   ELSE IF c \in child[q] THEN u ELSE parent[c]
  BY <1>4 DEF ParentMoved
<1>7. CASE c \in child[curr]
  <2>1. parent[c] = curr /\ parent'[c] = v
    BY <1>1, <1>5, <1>6, <1>7, ChildFacts
  <2> QED BY <1>3, <2>1
<1>8. CASE c \in child[q] /\ c \notin child[curr] /\ u = curr
  <2>1. parent[c] = q /\ parent'[c] = v
    BY <1>5, <1>6, <1>8, ChildFacts
  <2>2. v \in Ancestors(q)
    BY <1>1, <1>3, AncestorsTransitive DEF Ancestors
  <2> QED BY <1>2, <1>3, <1>8, <2>1, <2>2
<1>9. CASE c \in child[q] /\ c \notin child[curr] /\ u # curr
  <2>1. parent[c] = q /\ parent'[c] = u
    BY <1>5, <1>6, <1>9, ChildFacts
  <2> QED BY <1>2, <1>9, <2>1
<1>10. CASE c \notin child[q] /\ c \notin child[curr]
  BY <1>5, <1>6, <1>10
<1> QED BY <1>7, <1>8, <1>9, <1>10

LEMMA TerminateCurrentParents ==
  ASSUME IInv, cpu = "running", TerminateCurrent
  PROVE  GoodParents
<1>1. curr \in Pcb \ Free /\ pcbFree \in Seq(Pcb)
  BY RunningFacts, ChildFacts
<1>2. PICK u \in NearestTutor(curr) :
        \/ ResumeHandler(ParentMoved(parent, child, curr, u),
                         ChildMoved(child, curr, u))
        \/ Exit(curr, u, parent, child)
  BY DEF TerminateCurrent
<1>3. u \notin Free /\ u # curr
  BY <1>1, HeirFacts
<1>4. CASE ResumeHandler(ParentMoved(parent, child, curr, u),
                         ChildMoved(child, curr, u))
  BY <1>1, <1>3, <1>4, MovedOnce DEF ResumeHandler, Free
<1>5. CASE Exit(curr, u, parent, child)
  <2>1. Free' = Free \cup {curr}
    BY <1>1, <1>5, FreePcbProperties DEF Exit, Free
  <2> QED BY <1>1, <1>3, <1>5, <2>1, MovedOnce DEF Exit
<1> QED BY <1>2, <1>4, <1>5

LEMMA TerminateParentParents ==
  ASSUME IInv, NEW q \in Pcb, TerminateParent(q)
  PROVE  GoodParents
<1>1. cpu = "running" /\ curr \in Ancestors(q)
  BY DEF TerminateParent, Serving
<1>2. q \in Pcb \ Free /\ q # curr
  <2>1. PICK rank \in [Pcb -> Nat] : TreeOf(parent, child, Free, rank)
    BY DEF IInv, TreeInv
  <2> QED BY <1>1, <2>1, DescendantFacts
<1>3. PICK u \in NearestTutor(q) :
        LET par == ParentMoved(parent, child, q, u)
            ch  == ChildMoved(child, q, u)
        IN  \/ ResumeHandler(par, ch)
            \/ DropRoot(par, ch)
            \/ \E v \in NearestTutor(curr) : Exit(curr, v, par, ch)
  BY DEF TerminateParent
<1> DEFINE par == ParentMoved(parent, child, q, u)
           ch  == ChildMoved(child, q, u)
<1>4. CASE ResumeHandler(par, ch) \/ DropRoot(par, ch)
  <2>1. u \notin Free
    BY <1>2, HeirFacts
  <2> QED BY <1>2, <1>4, <2>1, MovedOnce DEF ResumeHandler, DropRoot, Free
<1>5. ASSUME NEW v \in NearestTutor(curr), Exit(curr, v, par, ch)
      PROVE  GoodParents
  <2>1. curr \in Pcb /\ pcbFree \in Seq(Pcb)
    BY <1>1, RunningFacts, ChildFacts
  <2>2. Free' = Free \cup {curr}
    BY <1>5, <2>1, FreePcbProperties DEF Exit, Free
  <2> QED BY <1>1, <1>2, <1>5, <2>2, MovedTwice DEF Exit
<1> QED BY <1>3, <1>4, <1>5

LEMMA NextParents ==
  ASSUME IInv, [Next]_vars
  PROVE  GoodParents
<1>1. ASSUME UNCHANGED parent PROVE GoodParents
  BY <1>1 DEF GoodParents, GoodParent
<1>2. ASSUME NEW pr \in Priorities, NEW usermode \in UserModes,
             CreateProcess(pr, usermode)
      PROVE  GoodParents
  <2>1. pcbFree \in Seq(Pcb) /\ pcbFree # <<>>
    BY <1>2, ChildFacts DEF CreateProcess
  <2>2. PICK p \in Free : p = Head(pcbFree)
    BY <2>1, RemoveProcQProperties DEF Free
  <2>3. \A c \in Pcb \ {p} : parent'[c] = parent[c]
    BY <1>2, <2>2, ChildFacts DEF CreateProcess
  <2> QED BY <2>2, <2>3, SameParents
<1>3. ASSUME NEW q \in Pcb, Unlink(q) PROVE GoodParents
  <2>1. Free' = Free \cup {q}
    BY <1>3, ChildFacts, FreePcbProperties DEF Unlink, Free
  <2>2. \A c \in Pcb \ {q} : parent'[c] = parent[c]
    BY <1>3, ChildFacts DEF Unlink
  <2> QED BY <2>1, <2>2, SameParents
<1>4. ASSUME NEW q \in Pcb, TerminateBlocked(q) \/ TerminateReady(q)
      PROVE  GoodParents
  BY <1>3, <1>4 DEF TerminateBlocked, TerminateReady
<1>5. ASSUME NEW q \in Pcb, TerminateParent(q) PROVE GoodParents
  BY <1>5, TerminateParentParents
<1>6. CASE cpu = "running" /\ Kill
  BY <1>1, <1>6, TerminateCurrentParents DEF Kill, DropRoot
<1>7. CASE TerminateSelf \/ UserModeException \/ \E t \in TrapType : Trap(t)
  BY <1>6, <1>7, TerminateCurrentParents
     DEF TerminateSelf, UserModeException, Trap, Serving
<1>8. CASE \/ \E k \in UserSem : Verhogen(k) \/ Passeren(k)
           \/ WaitClock \/ SetTutor \/ \E t \in PassupTypes : SpecPassup(t)
           \/ TimeSlice \/ IntervalTimer \/ TickWake \/ TickEnd \/ UNCHANGED vars
  BY <1>1, <1>8
     DEF Verhogen, Passeren, WaitClock, SetTutor, SpecPassup, TimeSlice,
         IntervalTimer, TickWake, TickEnd, vars, tree
<1> QED BY <1>2, <1>4, <1>5, <1>7, <1>8 DEF Next, Idle
-----------------------------------------------------------------------------
\* The children of a process that is terminated, or is about to be, go to
\* the nearest tutor above it that is alive after the step.
THEOREM OrphansCorrect == Spec => OrphansClimbToTutor
<1>1. IInv /\ [Next]_vars => [GoodParents]_vars
  BY NextParents
<1>2. Spec => [][GoodParents]_vars
  BY <1>1, Invariance, PTL DEF Spec
<1> QED BY <1>2 DEF OrphansClimbToTutor, GoodParents, GoodParent
=============================================================================
