------------------------------- MODULE Phase1 -------------------------------
(***************************************************************************)
(* Phase1/pcb.c and Phase1/asl.c at the level of their pointers, and that  *)
(* they implement the abstract data types of Phase1Spec.  Phase2 keeps the *)
(* same code; Nucleus models it by the operations on sequences that are    *)
(* shown here to be what the pointers do.                                  *)
(*                                                                         *)
(* A list_head is a pair: the name of the field and the structure it is    *)
(* in, so that container_of is its second component.                       *)
(***************************************************************************)
EXTENDS Integers, Sequences, ListX, SequencesExt

CONSTANTS
  Pcb,        \* the table of PCBs
  Semd,       \* the table of descriptors (as many as PCBs in the code)
  Key,        \* addresses of semaphores
  Nil,        \* NULL, as a PCB and as a key
  Priority,   \* priorities given to processes
  MaxCalls    \* bound on the number of calls

ASSUME Phase1Assumption ==
  /\ IsFiniteSet(Pcb) /\ IsFiniteSet(Semd)
  /\ Nil \notin Key \cup Pcb \cup Semd
  /\ MaxCalls \in Nat

\* The list_heads: p_next, p_sib, p_child of a PCB; s_next, s_procQ of a
\* descriptor; and the sentinels, qa being the process queue of p1test.
In(field, S) == {field} \X S
PcbFree  == <<"pcbFree_h", Nil>>
Qa       == <<"qa", Nil>>
SemdFree == <<"semdFree_h", Nil>>
Asl      == <<"semd_h", Nil>>
Sentinel == {PcbFree, Qa, SemdFree, Asl}
Node ==
  In("p_next", Pcb) \cup In("p_sib", Pcb) \cup In("p_child", Pcb) \cup
  In("s_next", Semd) \cup In("s_procQ", Semd) \cup Sentinel

VARIABLES
  links,     \* next and prev of every list_head
  p_parent, p_semkey, priority,
  s_key,
  calls      \* how many operations were called, up to MaxCalls

pcbFields == <<p_parent, p_semkey, priority>>
phase1Vars == <<links, pcbFields, s_key, calls>>

ContainerOf(n) == n[2]

\* The structures list_for_each visits from the sentinel h.
Entries(l, h) ==
  LET w == Walk(l, h) IN [i \in 1..Len(w) |-> ContainerOf(w[i])]

\* initPcbs and initASL, on lists that INIT_LIST_HEAD made empty.
Init ==
  /\ LET empty == [next |-> [n \in Node |-> n], prev |-> [n \in Node |-> n]]
         AddPcb(l, i)  == ListAddTail(l, <<"p_next", i>>, PcbFree)
         AddSemd(l, i) == ListAdd(l, <<"s_next", i>>, SemdFree)
     IN  links = FoldLeft(AddSemd,
                   FoldLeft(AddPcb, empty, SetToSeq(Pcb)), SetToSeq(Semd))
  /\ p_parent = [p \in Pcb |-> Nil]
  /\ p_semkey = [p \in Pcb |-> Nil]
  /\ priority = [p \in Pcb |-> 0]
  /\ s_key = [s \in Semd |-> Nil]
  /\ calls = 0
-----------------------------------------------------------------------------
(* What the lists hold, and the data types they implement                  *)

Descriptors(l, k) == {s \in Range(Entries(l, Asl)) : s_key[s] = k}

BlockedQueue(k) ==
  IF Descriptors(links, k) = {} THEN <<>>
  ELSE Entries(links, <<"s_procQ", CHOOSE s \in Descriptors(links, k) : TRUE>>)

T == INSTANCE Phase1Spec WITH
  NumSemd <- Cardinality(Semd),
  free    <- Entries(links, PcbFree),
  queue   <- Entries(links, Qa),
  blocked <- [k \in Key |-> BlockedQueue(k)],
  kids    <- [p \in Pcb |-> Entries(links, <<"p_child", p>>)],
  prio    <- priority
-----------------------------------------------------------------------------
(* pcb.c                                                                   *)

Call == calls < MaxCalls /\ calls' = calls + 1

\* setDefault, once allocPcb has unlinked the PCB; the caller sets the
\* priority.
AllocPcb(pr) ==
  /\ Call
  /\ ~ListEmpty(links, PcbFree)
  /\ LET n == links.next[PcbFree]
         p == ContainerOf(n)
     IN  /\ links' = InitListHead(InitListHead(InitListHead(ListDel(links, n),
                       n), <<"p_child", p>>), <<"p_sib", p>>)
         /\ p_parent' = [p_parent EXCEPT ![p] = Nil]
         /\ p_semkey' = [p_semkey EXCEPT ![p] = Nil]
         /\ priority' = [priority EXCEPT ![p] = pr]
  /\ UNCHANGED s_key

FreePcb(p) ==
  /\ Call
  /\ T!CanFree(p)
  /\ links' = ListAddTail(links, <<"p_next", p>>, PcbFree)
  /\ UNCHANGED <<pcbFields, s_key>>

\* Mutant: the test on the priorities is not strict.
PlaceBefore_Lifo(l, h, p) ==
  {n \in Range(Walk(l, h)) : priority[p] >= priority[ContainerOf(n)]}

\* The nodes of lower priority, before the first of which p is linked.
PlaceBefore(l, h, p) ==
  {n \in Range(Walk(l, h)) : priority[p] > priority[ContainerOf(n)]}

InsertInQueue(l, h, p) ==
  LET lower == SelectSeq(Walk(l, h), LAMBDA n : n \in PlaceBefore(l, h, p))
      new   == <<"p_next", p>>
  IN  IF lower = <<>> THEN ListAddTail(l, new, h)
      ELSE Link(l, new, l.prev[Head(lower)], Head(lower))

Insert(p) ==
  /\ Call
  /\ T!Detached(p)
  /\ links' = InsertInQueue(links, Qa, p)
  /\ UNCHANGED <<pcbFields, s_key>>

RemoveProcQ ==
  /\ Call
  /\ ~ListEmpty(links, Qa)
  /\ links' = ListDel(links, links.next[Qa])
  /\ UNCHANGED <<pcbFields, s_key>>

OutOfQueue(p) ==
  /\ Call
  /\ <<"p_next", p>> \in Range(Walk(links, Qa))
  /\ links' = ListDel(links, <<"p_next", p>>)
  /\ UNCHANGED <<pcbFields, s_key>>

\* Mutant: the child is linked by its own list of children.
Sibling_Child(p) == <<"p_child", p>>

Sibling(p) == <<"p_sib", p>>

InsertChild(a, p) ==
  /\ Call
  /\ T!CanAdopt(a, p)
  /\ p_parent' = [p_parent EXCEPT ![p] = a]
  /\ links' = ListAddTail(links, Sibling(p), <<"p_child", a>>)
  /\ UNCHANGED <<p_semkey, priority, s_key>>

Orphan(p) == [p_parent EXCEPT ![p] = Nil]

RemoveChild(a) ==
  /\ Call
  /\ ~ListEmpty(links, <<"p_child", a>>)
  /\ LET n == links.next[<<"p_child", a>>] IN
       /\ links' = ListDel(links, n)
       /\ p_parent' = Orphan(ContainerOf(n))
  /\ UNCHANGED <<p_semkey, priority, s_key>>

OutChild(p) ==
  /\ Call
  /\ p_parent[p] # Nil
  /\ links' = ListDel(links, Sibling(p))
  /\ p_parent' = Orphan(p)
  /\ UNCHANGED <<p_semkey, priority, s_key>>
-----------------------------------------------------------------------------
(* asl.c                                                                   *)

InsertBlocked(p, k) ==
  /\ Call
  /\ T!Detached(p)
  /\ \/ /\ Descriptors(links, k) = {}
        /\ ~ListEmpty(links, SemdFree)
        /\ LET n == links.next[SemdFree]
               s == ContainerOf(n)
               fresh == InitListHead(InitListHead(ListDel(links, n), n),
                                     <<"s_procQ", s>>)
           IN  /\ s_key' = [s_key EXCEPT ![s] = k]
               /\ links' = ListAdd(InsertInQueue(fresh, <<"s_procQ", s>>, p), n, Asl)
     \/ \E s \in Descriptors(links, k) :
          /\ links' = InsertInQueue(links, <<"s_procQ", s>>, p)
          /\ UNCHANGED s_key
  /\ p_semkey' = [p_semkey EXCEPT ![p] = k]
  /\ UNCHANGED <<p_parent, priority>>

\* Mutant: the descriptor stays in the ASL.
ReleaseSemd_Never(l, s) == l

\* An empty descriptor goes back to the head of the free list.
ReleaseSemd(l, s) ==
  IF ListEmpty(l, <<"s_procQ", s>>)
  THEN ListAdd(ListDel(l, <<"s_next", s>>), <<"s_next", s>>, SemdFree)
  ELSE l

RemoveBlocked(k) ==
  /\ Call
  /\ \E s \in Descriptors(links, k) :
       LET n == links.next[<<"s_procQ", s>>] IN
         /\ p_semkey' = [p_semkey EXCEPT ![ContainerOf(n)] = Nil]
         /\ links' = ReleaseSemd(ListDel(links, n), s)
  /\ UNCHANGED <<p_parent, priority, s_key>>

\* The part outBlocked and outChildBlocked share, on lists l and keys ks: a
\* descriptor that becomes empty also loses its key.
Leave(st, p) ==
  LET holder == {s \in Range(Entries(st.l, Asl)) :
                   /\ st.ks[s] = p_semkey[p]
                   /\ <<"p_next", p>> \in Range(Walk(st.l, <<"s_procQ", s>>))}
      s == CHOOSE s \in holder : TRUE
      l == ListDel(st.l, <<"p_next", p>>)
  IN  IF holder = {} THEN st
      ELSE [l  |-> ReleaseSemd(l, s),
            ks |-> IF ListEmpty(l, <<"s_procQ", s>>)
                   THEN [st.ks EXCEPT ![s] = Nil] ELSE st.ks]

\* p keeps its p_semkey.
OutBlocked(p) ==
  /\ Call
  /\ p_semkey[p] # Nil
  /\ LET st == Leave([l |-> links, ks |-> s_key], p) IN
       links' = st.l /\ s_key' = st.ks
  /\ UNCHANGED pcbFields

\* Mutant: the children are left where they wait.
LeaveAll_Alone(st, p) == Leave(st, p)

\* p leaves its semaphore, and only then the children of p are visited.
RECURSIVE LeaveAll(_, _)
LeaveAll(st, p) ==
  LET left == Leave(st, p)
  IN  IF left = st THEN st
      ELSE FoldLeft(LAMBDA t, c : LeaveAll(t, c), left,
                    Entries(left.l, <<"p_child", p>>))

\* Nobody is taken from its parent, and every p_semkey stays.
OutChildBlocked(p) ==
  /\ Call
  /\ p_semkey[p] # Nil
  /\ LET st == LeaveAll([l |-> links, ks |-> s_key], p) IN
       links' = st.l /\ s_key' = st.ks
  /\ UNCHANGED pcbFields
-----------------------------------------------------------------------------
Next ==
  \/ \E pr \in Priority : AllocPcb(pr)
  \/ \E p \in Pcb : FreePcb(p)
  \/ \E p \in Pcb : Insert(p)
  \/ RemoveProcQ
  \/ \E p \in Pcb : OutOfQueue(p)
  \/ \E a, p \in Pcb : InsertChild(a, p)
  \/ \E a \in Pcb : RemoveChild(a)
  \/ \E p \in Pcb : OutChild(p)
  \/ \E p \in Pcb, k \in Key : InsertBlocked(p, k)
  \/ \E k \in Key : RemoveBlocked(k)
  \/ \E p \in Pcb : OutBlocked(p)
  \/ \E p \in Pcb : OutChildBlocked(p)

P1Spec == Init /\ [][Next]_phase1Vars
-----------------------------------------------------------------------------
\* Type invariant.  A link has links of its own field or heads of lists of
\* that field around it, even where it is stale, and a head never another
\* head: container_of is never applied to a head or to another field.
Phase1TypeOK ==
  LET Kind(S, H) ==
        /\ \A n \in S : links.next[n] \in S \cup H /\ links.prev[n] \in S \cup H
        /\ \A h \in H : links.next[h] \in S \cup {h} /\ links.prev[h] \in S \cup {h}
  IN  /\ links.next \in [Node -> Node] /\ links.prev \in [Node -> Node]
      /\ Kind(In("p_next", Pcb), In("s_procQ", Semd) \cup {PcbFree, Qa})
      /\ Kind(In("p_sib", Pcb), In("p_child", Pcb))
      /\ Kind(In("s_next", Semd), {SemdFree, Asl})
      /\ p_parent \in [Pcb -> Pcb \cup {Nil}]
      /\ p_semkey \in [Pcb -> Key \cup {Nil}]
      /\ priority \in [Pcb -> Priority \cup {0}]
      /\ s_key \in [Semd -> Key \cup {Nil}]

\* Every operation does to the lists what Phase1Spec says, whatever stale
\* links, keys and parents the earlier ones left in PCBs and descriptors
\* that are in no list.
ImplementsTables == T!Spec

\* What a call does is its own operation of Phase1Spec, on its own arguments,
\* and not another one that Phase1Spec would allow as well: removeProcQ takes
\* the head and not somebody that outProcQ might take, outChild, which goes by
\* p_parent, takes a child of that parent, outBlocked takes p alone,
\* outChildBlocked (asl.c:164-213) also all those below p that only blocked
\* processes separate from it.  The last two, called with a stale p_semkey for
\* a process that does not wait, change nothing.
EachCallItsOwn ==
  [][/\ \A pr \in Priority : AllocPcb(pr) => T!Alloc(pr)
     /\ RemoveProcQ => T!RemoveHead
     /\ \A p \in Pcb :
          /\ FreePcb(p) => T!Free(p)
          /\ Insert(p) => T!Insert(p)
          /\ OutOfQueue(p) => T!Out(p)
          /\ RemoveChild(p) => T!LoseFirstChild(p)
          /\ OutChild(p) => T!LeaveParent(p)
          /\ OutBlocked(p) => T!Unblock(p) \/ T!NotWaiting(p)
          /\ OutChildBlocked(p) => T!UnblockAll(p) \/ T!NotWaiting(p)
     /\ \A a, p \in Pcb : InsertChild(a, p) => T!Adopt(a, p)
     /\ \A k \in Key :
          /\ RemoveBlocked(k) => T!WakeOn(k)
          /\ \A p \in Pcb : InsertBlocked(p, k) => T!BlockOn(p, k)
    ]_phase1Vars

\* Every list closes and its two directions agree: list_del and insertion
\* before a node go by prev, all walks by next.
Rings ==
  /\ \A h \in Sentinel : Ring(links, h)
  /\ \A p \in Pcb : Ring(links, <<"p_child", p>>)
  /\ \A s \in Range(Entries(links, Asl)) : Ring(links, <<"s_procQ", s>>)

\* A descriptor is active or free, never both or neither; an active one has
\* waiters, and no two active ones have one key, so that getSemd finds all
\* the waiters of a semaphore.
DescriptorsKept ==
  LET active == Entries(links, Asl)
      spare  == Entries(links, SemdFree)
  IN  /\ \A s \in Semd : Len(SelectSeq(active \o spare, LAMBDA x : x = s)) = 1
      /\ \A s \in Range(active) :
           /\ ~ListEmpty(links, <<"s_procQ", s>>)
           /\ \A r \in Range(active) : s_key[r] = s_key[s] => r = s
=============================================================================
