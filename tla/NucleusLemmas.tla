--------------------------- MODULE NucleusLemmas ---------------------------
(***************************************************************************)
(* The inductive invariant of the nucleus and the lemmas about the         *)
(* operators its actions are built from.                                   *)
(*                                                                         *)
(* The invariants of NucleusProps depend on each other: Terminate_Process  *)
(* finds the queue of its target through p_semkey, so that a PCB is in one *)
(* list only because p_semkey is right; it spares the root and reaches     *)
(* only live processes because of the tree; and the tree gets a free PCB   *)
(* only because no free PCB runs.  They are proved together.               *)
(***************************************************************************)
EXTENDS NucleusProps, ProcQueueProofs

\* The links par and ch form one tree: parents and children agree, the PCBs
\* of F, which are free, are linked to nothing, every other PCB but the root
\* has a live parent, and rank grows from parent to child, so that no climb
\* goes round in a circle.
TreeOf(par, ch, F, rank) ==
  /\ \A p, c \in Pcb : c \in ch[p] <=> par[c] = p
  /\ \A p \in F : par[p] = NoProc /\ ch[p] = {}
  /\ par[Root] = NoProc /\ Root \notin F
  /\ \A p \in Pcb \ (F \cup {Root}) : par[p] \in Pcb \ F
  /\ \A p \in Pcb : par[p] # NoProc => rank[par[p]] < rank[p]

TreeInv ==
  /\ tutor[Root]
  /\ \E rank \in [Pcb -> Nat] : TreeOf(parent, child, Free, rank)

IInv == FieldsOK /\ OneList /\ SemKeyTellsQueue /\ TreeInv

\* What the constants are good for.
LEMMA ConstantFacts ==
  /\ Root \in Pcb /\ NoProc \notin Pcb /\ Pcb \subseteq Nat
  /\ NoKey \notin Sem /\ Clock \in Sem /\ UserSem \subseteq Sem
BY NucleusAssumption DEF Pcb, NoProc, Root, Sem
-----------------------------------------------------------------------------
(* Process tree                                                            *)

\* A climb stays in any set of PCBs that has the parent of q and is closed
\* under parents.
LEMMA ClimbInClosed ==
  ASSUME NEW q \in Pcb, NEW stop, NEW S \in SUBSET Pcb,
         parent[q] \in S \cup {NoProc},
         \A b \in S : parent[b] \in S \cup {NoProc}
  PROVE  Climb(q, stop) \subseteq S
BY DEF Climb

\* The climb of a live process meets live processes of lower rank.
LEMMA ClimbGoesUp ==
  ASSUME FieldsOK, NEW rank \in [Pcb -> Nat],
         TreeOf(parent, child, Free, rank),
         NEW q \in Pcb \ Free, NEW stop, NEW u \in Climb(q, stop)
  PROVE  u \in Pcb \ Free /\ rank[u] < rank[q] /\ q # Root
<1> DEFINE S == {b \in Pcb \ Free : rank[b] < rank[q]}
<1>1. parent \in [Pcb -> Pcb \cup {NoProc}]
  BY DEF FieldsOK
<1>2. \A b \in Pcb \ Free : parent[b] # NoProc =>
        parent[b] \in Pcb \ Free /\ rank[parent[b]] < rank[b]
  BY <1>1, ConstantFacts DEF TreeOf
<1>3. parent[q] \in S \cup {NoProc}
  BY <1>1, <1>2
<1>4. \A b \in S : parent[b] \in S \cup {NoProc}
  <2> SUFFICES ASSUME NEW b \in S, parent[b] # NoProc PROVE parent[b] \in S
    OBVIOUS
  <2>1. parent[b] \in Pcb \ Free /\ rank[parent[b]] < rank[b] /\ rank[b] < rank[q]
    BY <1>2
  <2>2. rank[parent[b]] \in Nat /\ rank[b] \in Nat /\ rank[q] \in Nat
    BY <2>1
  <2> QED BY <2>1, <2>2
<1>5. Climb(q, stop) \subseteq S
  BY <1>3, <1>4, ClimbInClosed
<1>6. q # Root
  <2> SUFFICES ASSUME q = Root PROVE FALSE
    OBVIOUS
  <2> DEFINE none == {b \in Pcb : FALSE}
  <2>1. parent[q] \in none \cup {NoProc}
    BY DEF TreeOf
  <2>2. none \in SUBSET Pcb /\ \A b \in none : parent[b] \in none \cup {NoProc}
    OBVIOUS
  <2> HIDE DEF none
  <2>3. Climb(q, stop) \subseteq none
    BY <2>1, <2>2, ClimbInClosed
  <2> QED BY <2>3 DEF none
<1> QED BY <1>5, <1>6

\* Handing the children of q to a live u of lower rank keeps the tree.
LEMMA HandOver ==
  ASSUME NEW par \in [Pcb -> Pcb \cup {NoProc}], NEW ch \in [Pcb -> SUBSET Pcb],
         NEW F \in SUBSET Pcb, NEW rank \in [Pcb -> Nat],
         TreeOf(par, ch, F, rank),
         NEW q \in Pcb \ F, NEW u \in Pcb \ F, rank[u] < rank[q]
  PROVE  /\ ParentMoved(par, ch, q, u) \in [Pcb -> Pcb \cup {NoProc}]
         /\ ChildMoved(ch, q, u) \in [Pcb -> SUBSET Pcb]
         /\ TreeOf(ParentMoved(par, ch, q, u), ChildMoved(ch, q, u), F, rank)
         /\ ChildMoved(ch, q, u)[q] = {}
<1> DEFINE P1 == ParentMoved(par, ch, q, u)
           C1 == ChildMoved(ch, q, u)
<1>1. u # q
  BY ConstantFacts
<1>2. \A c \in Pcb : P1[c] = IF c \in ch[q] THEN u ELSE par[c]
  BY DEF ParentMoved
<1>3. \A p \in Pcb : C1[p] = IF p = q THEN {}
                             ELSE IF p = u THEN ch[u] \cup ch[q] ELSE ch[p]
  BY <1>1 DEF ChildMoved
<1>4. P1 \in [Pcb -> Pcb \cup {NoProc}]
  BY DEF ParentMoved
<1>5. C1 \in [Pcb -> SUBSET Pcb]
  BY DEF ChildMoved
<1> HIDE DEF P1, C1
<1>7. \A p, c \in Pcb : c \in C1[p] <=> P1[c] = p
  BY <1>1, <1>2, <1>3 DEF TreeOf
<1>8. \A p \in F : P1[p] = NoProc /\ C1[p] = {}
  BY <1>2, <1>3, ConstantFacts DEF TreeOf
<1>9. P1[Root] = NoProc /\ Root \notin F
  BY <1>2, ConstantFacts DEF TreeOf
<1>10. \A p \in Pcb \ (F \cup {Root}) : P1[p] \in Pcb \ F
  BY <1>2 DEF TreeOf
<1>11. ASSUME NEW p \in Pcb, P1[p] # NoProc PROVE rank[P1[p]] < rank[p]
  <2>1. CASE p \in ch[q]
    <3>1. P1[p] = u /\ rank[q] < rank[p]
      BY <1>2, <2>1, ConstantFacts DEF TreeOf
    <3>2. rank[u] \in Nat /\ rank[q] \in Nat /\ rank[p] \in Nat
      OBVIOUS
    <3> QED BY <3>1, <3>2
  <2>2. CASE p \notin ch[q]
    BY <1>2, <1>11, <2>2 DEF TreeOf
  <2> QED BY <2>1, <2>2
<1>12. TreeOf(P1, C1, F, rank)
  BY <1>7, <1>8, <1>9, <1>10, <1>11 DEF TreeOf
<1> QED BY <1>3, <1>4, <1>5, <1>12 DEF P1, C1

\* Unlinking a childless process p, which is freed, keeps the tree.
LEMMA OutChild ==
  ASSUME NEW par \in [Pcb -> Pcb \cup {NoProc}], NEW ch \in [Pcb -> SUBSET Pcb],
         NEW F \in SUBSET Pcb, NEW rank \in [Pcb -> Nat],
         TreeOf(par, ch, F, rank),
         NEW p \in Pcb \ F, p # Root, ch[p] = {}
  PROVE  /\ [par EXCEPT ![p] = NoProc] \in [Pcb -> Pcb \cup {NoProc}]
         /\ [ch EXCEPT ![par[p]] = @ \ {p}] \in [Pcb -> SUBSET Pcb]
         /\ TreeOf([par EXCEPT ![p] = NoProc],
                   [ch EXCEPT ![par[p]] = @ \ {p}], F \cup {p}, rank)
<1> DEFINE P1 == [par EXCEPT ![p] = NoProc]
           C1 == [ch EXCEPT ![par[p]] = @ \ {p}]
<1>1. P1 \in [Pcb -> Pcb \cup {NoProc}] /\ C1 \in [Pcb -> SUBSET Pcb]
  OBVIOUS
<1>2. par[p] \in Pcb \ F /\ par[p] # p
  BY DEF TreeOf
<1>3. \A c \in Pcb : P1[c] = IF c = p THEN NoProc ELSE par[c]
  OBVIOUS
<1>4. \A x \in Pcb : C1[x] = IF x = par[p] THEN ch[x] \ {p} ELSE ch[x]
  OBVIOUS
<1> HIDE DEF P1, C1
<1>5. ASSUME NEW x \in Pcb, NEW c \in Pcb PROVE c \in C1[x] <=> P1[c] = x
  <2>1. c \in ch[x] <=> par[c] = x
    BY DEF TreeOf
  <2>2. CASE c = p
    BY <1>3, <1>4, <2>1, <2>2, ConstantFacts
  <2>3. CASE c # p
    BY <1>3, <1>4, <2>1, <2>3
  <2> QED BY <2>2, <2>3
<1>6. \A x \in F \cup {p} : P1[x] = NoProc /\ C1[x] = {}
  BY <1>2, <1>3, <1>4 DEF TreeOf
<1>7. P1[Root] = NoProc /\ Root \notin F \cup {p}
  BY <1>3, ConstantFacts DEF TreeOf
<1>8. \A x \in Pcb \ ((F \cup {p}) \cup {Root}) : P1[x] \in Pcb \ (F \cup {p})
  BY <1>3 DEF TreeOf
<1>9. \A x \in Pcb : P1[x] # NoProc => rank[P1[x]] < rank[x]
  BY <1>3 DEF TreeOf
<1> QED BY <1>1, <1>5, <1>6, <1>7, <1>8, <1>9 DEF TreeOf, P1, C1

\* insertChild of the PCB p, just allocated, under the live process r.
LEMMA InsertChild ==
  ASSUME NEW par \in [Pcb -> Pcb \cup {NoProc}], NEW ch \in [Pcb -> SUBSET Pcb],
         NEW F \in SUBSET Pcb, NEW rank \in [Pcb -> Nat],
         TreeOf(par, ch, F, rank),
         NEW p \in F, NEW r \in Pcb \ F
  PROVE  /\ [par EXCEPT ![p] = r] \in [Pcb -> Pcb \cup {NoProc}]
         /\ [ch EXCEPT ![p] = {}, ![r] = @ \cup {p}] \in [Pcb -> SUBSET Pcb]
         /\ TreeOf([par EXCEPT ![p] = r],
                   [ch EXCEPT ![p] = {}, ![r] = @ \cup {p}], F \ {p},
                   [rank EXCEPT ![p] = rank[r] + 1])
<1> DEFINE P1 == [par EXCEPT ![p] = r]
           C1 == [ch EXCEPT ![p] = {}, ![r] = @ \cup {p}]
           R1 == [rank EXCEPT ![p] = rank[r] + 1]
<1>1. P1 \in [Pcb -> Pcb \cup {NoProc}] /\ C1 \in [Pcb -> SUBSET Pcb]
  OBVIOUS
<1>2. p # r /\ par[p] = NoProc /\ ch[p] = {} /\ \A c \in Pcb : par[c] # p
  BY DEF TreeOf
<1>3. \A c \in Pcb : P1[c] = IF c = p THEN r ELSE par[c]
  OBVIOUS
<1>4. \A x \in Pcb : C1[x] = IF x = p THEN {}
                             ELSE IF x = r THEN ch[x] \cup {p} ELSE ch[x]
  BY <1>2
<1>5. \A x \in Pcb : R1[x] = IF x = p THEN rank[r] + 1 ELSE rank[x]
  OBVIOUS
<1> HIDE DEF P1, C1, R1
<1>6. ASSUME NEW x \in Pcb, NEW c \in Pcb PROVE c \in C1[x] <=> P1[c] = x
  <2>1. c \in ch[x] <=> par[c] = x
    BY DEF TreeOf
  <2>2. CASE c = p
    <3>1. P1[c] = r /\ c \notin ch[x]
      BY <1>2, <1>3, <2>1, <2>2, ConstantFacts
    <3> QED BY <1>2, <1>4, <2>2, <3>1
  <2>3. CASE c # p
    <3>1. P1[c] = par[c] /\ par[c] # p
      BY <1>2, <1>3, <2>3
    <3> QED BY <1>4, <2>1, <2>3, <3>1
  <2> QED BY <2>2, <2>3
<1>7. ASSUME NEW x \in F \ {p} PROVE P1[x] = NoProc /\ C1[x] = {}
  <2>1. x \in Pcb /\ x # r /\ par[x] = NoProc /\ ch[x] = {}
    BY DEF TreeOf
  <2> QED BY <1>3, <1>4, <2>1
<1>8. P1[Root] = NoProc /\ Root \notin F \ {p}
  BY <1>3, ConstantFacts DEF TreeOf
<1>9. \A x \in Pcb \ ((F \ {p}) \cup {Root}) : P1[x] \in Pcb \ (F \ {p})
  BY <1>2, <1>3 DEF TreeOf
<1>10. ASSUME NEW x \in Pcb, P1[x] # NoProc PROVE R1[P1[x]] < R1[x]
  <2>1. rank[r] \in Nat
    OBVIOUS
  <2>2. CASE x = p
    BY <1>2, <1>3, <1>5, <2>1, <2>2
  <2>3. CASE x # p
    BY <1>2, <1>3, <1>5, <1>10, <2>3 DEF TreeOf
  <2> QED BY <2>2, <2>3
<1> QED BY <1>1, <1>6, <1>7, <1>8, <1>9, <1>10 DEF TreeOf, P1, C1, R1

\* Every live process descends from the root.
LEMMA RootIsAncestor ==
  ASSUME FieldsOK, TreeInv, NEW p \in Pcb \ (Free \cup {Root})
  PROVE  Root \in Ancestors(p)
<1>1. PICK rank \in [Pcb -> Nat] : TreeOf(parent, child, Free, rank)
  BY DEF TreeInv
<1>2. \A b \in Pcb \ (Free \cup {Root}) :
        parent[b] \in Pcb \ Free /\ rank[parent[b]] < rank[b]
  BY <1>1, ConstantFacts DEF TreeOf
<1> SUFFICES ASSUME NEW S \in SUBSET Pcb, parent[p] \in S \cup {NoProc},
                    \A b \in S : parent[b] \in S \cup {NoProc}
             PROVE  Root \in S
  BY ConstantFacts DEF Ancestors, Climb
<1> DEFINE ranks == {rank[b] : b \in S \ Free}
<1>3. parent[p] \in S \ Free
  BY <1>2, ConstantFacts
<1>4. ranks \in SUBSET Nat /\ ranks # {}
  BY <1>3
<1>5. Min(ranks) \in ranks /\ \A x \in ranks : Min(ranks) <= x
  BY <1>4, MinOfNat
<1>6. PICK m \in S \ Free : \A b \in S \ Free : rank[m] <= rank[b]
  <2>1. PICK x \in ranks : \A y \in ranks : x <= y
    BY <1>5
  <2>2. PICK m \in S \ Free : rank[m] = x
    BY <2>1
  <2>3. \A b \in S \ Free : rank[b] \in ranks
    OBVIOUS
  <2> HIDE DEF ranks
  <2> QED BY <2>1, <2>2, <2>3
<1>7. ASSUME m # Root PROVE FALSE
  <2>1. parent[m] \in S \ Free /\ rank[parent[m]] < rank[m]
    BY <1>2, <1>7, ConstantFacts
  <2>2. rank[m] <= rank[parent[m]] /\ rank[m] \in Nat /\ rank[parent[m]] \in Nat
    BY <1>6, <2>1
  <2> QED BY <2>1, <2>2
<1> QED BY <1>6, <1>7

\* A climb first meets the parent; what it meets beyond it is met by the
\* climb from the parent.
LEMMA ClimbOnce ==
  ASSUME FieldsOK, NEW q \in Pcb, NEW stop
  PROVE  /\ parent[q] = NoProc => Climb(q, stop) = {}
         /\ parent[q] # NoProc =>
              Climb(q, stop) \subseteq
                {parent[q]} \cup (IF parent[q] \in stop THEN {}
                                  ELSE Climb(parent[q], stop))
<1>1. parent \in [Pcb -> Pcb \cup {NoProc}] /\ NoProc \notin Pcb
  BY ConstantFacts DEF FieldsOK
<1>2. ASSUME NEW x \in Pcb
      PROVE  \A b \in Climb(x, stop) \ stop :
               parent[b] \in Climb(x, stop) \cup {NoProc}
  <2> SUFFICES ASSUME NEW b \in Climb(x, stop) \ stop, parent[b] # NoProc,
                      NEW S \in SUBSET Pcb, parent[x] \in S \cup {NoProc},
                      \A a \in S \ stop : parent[a] \in S \cup {NoProc}
               PROVE  parent[b] \in S
    BY <1>1 DEF Climb
  <2>1. b \in S
    BY DEF Climb
  <2> QED BY <2>1
<1>3. ASSUME NEW x \in Pcb
      PROVE  parent[x] \in Climb(x, stop) \cup {NoProc}
  BY <1>1 DEF Climb
<1>4. ASSUME parent[q] = NoProc PROVE Climb(q, stop) = {}
  <2> DEFINE none == {b \in Pcb : FALSE}
  <2>1. none \in SUBSET Pcb /\ \A b \in none \ stop : parent[b] \in none \cup {NoProc}
    OBVIOUS
  <2>2. Climb(q, stop) \subseteq none
    BY <1>4, <2>1 DEF Climb
  <2> QED BY <2>2
<1>5. ASSUME parent[q] # NoProc
      PROVE  Climb(q, stop) \subseteq
               {parent[q]} \cup (IF parent[q] \in stop THEN {}
                                 ELSE Climb(parent[q], stop))
  <2>1. PICK y \in Pcb : y = parent[q]
    BY <1>1, <1>5
  <2> DEFINE S == {y} \cup (IF y \in stop THEN {} ELSE Climb(y, stop))
  <2>2. S \in SUBSET Pcb
    BY DEF Climb
  <2>3. \A b \in S \ stop : parent[b] \in S \cup {NoProc}
    BY <1>2, <1>3
  <2> HIDE DEF S
  <2>4. Climb(q, stop) \subseteq S
    <3>1. parent[q] \in S \cup {NoProc}
      BY <2>1 DEF S
    <3> QED BY <2>2, <2>3, <3>1 DEF Climb
  <2> QED BY <2>1, <2>4 DEF S
<1> QED BY <1>4, <1>5

\* An ancestor of an ancestor is an ancestor.
LEMMA AncestorsTransitive ==
  ASSUME NEW q \in Pcb, NEW y \in Ancestors(q), NEW stop, NEW v \in Climb(y, stop)
  PROVE  v \in Ancestors(q)
<1> SUFFICES ASSUME NEW S \in SUBSET Pcb, parent[q] \in S \cup {NoProc},
                    \A b \in S : parent[b] \in S \cup {NoProc}
             PROVE  v \in S
  BY DEF Ancestors, Climb
<1>1. y \in S
  BY DEF Ancestors, Climb
<1>2. parent[y] \in S \cup {NoProc}
  BY <1>1
<1> QED BY <1>2 DEF Climb

\* A climb that stops somewhere meets ancestors only.
LEMMA ClimbAncestors ==
  ASSUME NEW q, NEW stop
  PROVE  Climb(q, stop) \subseteq Ancestors(q)
BY DEF Ancestors, Climb

\* The search for a tutor finds one process at most.
LEMMA OneNearestTutor ==
  ASSUME FieldsOK, NEW rank \in [Pcb -> Nat], TreeOf(parent, child, Free, rank),
         NEW q \in Pcb, NEW u \in NearestTutor(q), NEW t \in NearestTutor(q)
  PROVE  u = t
<1> DEFINE T == {a \in Pcb : tutor[a]}
           Bad == {x \in Pcb : \E a, b \in NearestTutor(x) : a # b}
           ranks == {rank[x] : x \in Bad}
<1> SUFFICES ASSUME Bad # {} PROVE FALSE
  BY Zenon
<1>1. ranks \in SUBSET Nat /\ ranks # {}
  OBVIOUS
<1>2. Min(ranks) \in ranks /\ \A x \in ranks : Min(ranks) <= x
  BY <1>1, MinOfNat
<1>3. PICK n \in ranks : \A x \in ranks : n <= x
  BY <1>2
<1>4. PICK m \in Bad : rank[m] = n
  BY <1>3
<1>5. \A x \in Bad : rank[m] <= rank[x]
  BY <1>3, <1>4
<1> HIDE DEF Bad, ranks
<1>6. m \in Pcb /\ \E a, b \in NearestTutor(m) : a # b
  BY DEF Bad
<1>7. PICK a, b \in NearestTutor(m) : a # b
  BY <1>6
<1>8. a \in Climb(m, T) /\ b \in Climb(m, T) /\ tutor[a] /\ tutor[b]
  BY DEF NearestTutor
<1> DEFINE y == parent[m]
<1>9. y # NoProc /\ y \in Pcb
  BY <1>6, <1>8, ClimbOnce DEF FieldsOK
<1>10. y \notin T /\ a \in Climb(y, T) /\ b \in Climb(y, T)
  <2>1. Climb(m, T) \subseteq {y} \cup (IF y \in T THEN {} ELSE Climb(y, T))
    BY <1>6, <1>9, ClimbOnce
  <2>2. a \in Pcb /\ b \in Pcb /\ a \in T /\ b \in T
    BY <1>8 DEF Climb
  <2> HIDE DEF T, y
  <2> QED BY <1>7, <1>8, <2>1, <2>2
<1>11. y \in Bad
  <2>1. a \in NearestTutor(y) /\ b \in NearestTutor(y)
    BY <1>8, <1>10 DEF NearestTutor
  <2> QED BY <1>7, <1>9, <2>1 DEF Bad
<1>12. rank[y] < rank[m] /\ rank[m] \in Nat /\ rank[y] \in Nat
  BY <1>6, <1>9 DEF TreeOf
<1> QED BY <1>5, <1>11, <1>12
-----------------------------------------------------------------------------
(* Scheduler                                                               *)

\* scheduler() moves PCBs between the ready queue and the processor only.
LEMMA SchedulerKeeps ==
  ASSUME orig \in [Pcb -> Int],
         NEW rq \in Seq(Pcb), NEW pr \in [Pcb -> Int],
         NEW c \in Pcb \cup {NoProc}, NEW n,
         LinkedOnce(rq), c \notin Range(rq),
         Scheduler(rq, pr, c, n)
  PROVE  /\ readyQ' \in Seq(Pcb) /\ prio' \in [Pcb -> Int]
         /\ curr' \in Pcb \cup {NoProc}
         /\ cpu' \in {"running", "waiting", "halted"}
         /\ cpu' = "running" => curr' # NoProc
         /\ LinkedOnce(readyQ') /\ curr' \notin Range(readyQ')
         /\ Range(readyQ') \subseteq Pcb
         /\ \A p \in Pcb :
              p \in Range(readyQ') \/ p = curr' <=> p \in Range(rq) \/ p = c
<1>1. CASE rq = <<>> /\ c = NoProc
  <2>1. /\ cpu' \in {"waiting", "halted"}
        /\ curr' = NoProc /\ readyQ' = rq /\ prio' = pr
    BY <1>1 DEF Scheduler
  <2> QED BY <1>1, <2>1, EmptyRange
<1>2. CASE rq # <<>> \/ c # NoProc
  <2> DEFINE q == Requeue(rq, pr, c)
             a == Aged(rq, pr, c)
  <2>1. a \in [Pcb -> Int]
    BY DEF Aged
  <2>2. curr' = Head(q) /\ readyQ' = Tail(q) /\ prio' = a /\ cpu' = "running"
    BY <1>2 DEF Scheduler, Context
  <2>3. q \in Seq(Pcb) /\ LinkedOnce(q) /\ Range(q) = (Range(rq) \cup {c}) \ {NoProc}
    <3>1. CASE c = NoProc
      BY <3>1, EmptyRange, ConstantFacts DEF Requeue
    <3>2. CASE c # NoProc
      <4>1. q = InsertProcQ(rq, c, a) /\ c \in Pcb
        BY <3>2 DEF Requeue
      <4> HIDE DEF a, q
      <4>2. /\ InsertProcQ(rq, c, a) \in Seq(Pcb)
            /\ Range(InsertProcQ(rq, c, a)) = Range(rq) \cup {c}
            /\ LinkedOnce(InsertProcQ(rq, c, a))
        <5>1. c \in Pcb /\ rq \in Seq(Pcb) /\ a \in [Pcb -> Int]
          BY <2>1, <4>1
        <5> QED BY <5>1, InsertProcQProperties
      <4>3. Range(rq) \subseteq Pcb
        BY EmptyRange
      <4> QED BY <4>1, <4>2, <4>3, ConstantFacts
    <3> QED BY <3>1, <3>2
  <2> HIDE DEF a, q
  <2>4. q # <<>>
    BY <1>2, <2>3, EmptyRange, ConstantFacts
  <2>5. /\ Head(q) \in Pcb /\ Head(q) \in Range(q) /\ Tail(q) \in Seq(Pcb)
        /\ LinkedOnce(Tail(q)) /\ Range(Tail(q)) = Range(q) \ {Head(q)}
    BY <2>3, <2>4, RemoveProcQProperties
  <2>6. /\ curr' \in Pcb /\ readyQ' \in Seq(Pcb) /\ LinkedOnce(readyQ')
        /\ Range(readyQ') = Range(q) \ {curr'} /\ curr' \in Range(q)
    BY <2>2, <2>5
  <2>7. Range(q) \subseteq Pcb
    BY <2>3, EmptyRange
  <2>8. \A p \in Pcb : p \in Range(q) <=> p \in Range(rq) \/ p = c
    BY <2>3, ConstantFacts
  <2>9. \A p \in Pcb : p \in Range(readyQ') \/ p = curr' <=> p \in Range(q)
    BY <2>6
  <2> QED BY <2>1, <2>2, <2>6, <2>7, <2>8, <2>9, ConstantFacts
<1> QED BY <1>1, <1>2
=============================================================================
