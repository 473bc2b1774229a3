----------------------------- MODULE Phase1Spec -----------------------------
(***************************************************************************)
(* The abstract data types of Phase 1: a pool of PCBs, a process queue,    *)
(* the queues of the blocked processes, one per semaphore key, and the     *)
(* children of every process.  The guards are what a caller owes: a PCB is *)
(* put into a list only when it is in none, a parent only gets a child     *)
(* that has no parent and is not above it.                                 *)
(***************************************************************************)
EXTENDS ProcQueue

CONSTANTS
  Pcb,         \* the PCBs
  Key,         \* addresses of semaphores
  Priority,    \* priorities given to processes
  NumSemd      \* how many semaphores may have waiters at a time

VARIABLES
  free,     \* the free PCBs
  queue,    \* a process queue
  blocked,  \* the queue of every semaphore
  kids,     \* the children of every PCB, oldest first
  prio      \* the priority of every PCB

tables == <<free, queue, blocked, kids, prio>>

Active       == {k \in Key : blocked[k] # <<>>}
BlockedOn(p) == {k \in Key : p \in Range(blocked[k])}
HasParent(p) == \E a \in Pcb : p \in Range(kids[a])
Allocated(p) == p \notin Range(free)
Detached(p)  == Allocated(p) /\ p \notin Range(queue) /\ BlockedOn(p) = {}

\* p and the processes that descend from it.
RECURSIVE Progeny(_)
Progeny(p) == {p} \cup UNION {Progeny(c) : c \in Range(kids[p])}

Init ==
  /\ IsInjective(free) /\ Range(free) = Pcb
  /\ queue = <<>>
  /\ blocked = [k \in Key |-> <<>>]
  /\ kids = [p \in Pcb |-> <<>>]

Alloc(pr) ==
  /\ free # <<>>
  /\ free' = Tail(free)
  /\ prio' = [prio EXCEPT ![Head(free)] = pr]
  /\ UNCHANGED <<queue, blocked, kids>>

CanFree(p) == Detached(p) /\ ~HasParent(p) /\ kids[p] = <<>>

Free(p) ==
  /\ CanFree(p)
  /\ free' = Append(free, p)
  /\ UNCHANGED <<queue, blocked, kids, prio>>

Insert(p) ==
  /\ Detached(p)
  /\ queue' = InsertProcQ(queue, p, prio)
  /\ UNCHANGED <<free, blocked, kids, prio>>

RemoveHead ==
  /\ queue # <<>>
  /\ queue' = Tail(queue)
  /\ UNCHANGED <<free, blocked, kids, prio>>

Out(p) ==
  /\ queue' = OutProcQ(queue, p)
  /\ UNCHANGED <<free, blocked, kids, prio>>

CanAdopt(a, p) ==
  Allocated(a) /\ Allocated(p) /\ ~HasParent(p) /\ a \notin Progeny(p)

Adopt(a, p) ==
  /\ CanAdopt(a, p)
  /\ kids' = [kids EXCEPT ![a] = Append(@, p)]
  /\ UNCHANGED <<free, queue, blocked, prio>>

LoseFirstChild(a) ==
  /\ kids[a] # <<>>
  /\ kids' = [kids EXCEPT ![a] = Tail(@)]
  /\ UNCHANGED <<free, queue, blocked, prio>>

LeaveParent(p) ==
  /\ HasParent(p)
  /\ kids' = [a \in Pcb |-> RemoveFirst(kids[a], p)]
  /\ UNCHANGED <<free, queue, blocked, prio>>

\* A semaphore without waiters only gets one while a descriptor is left.
BlockOn(p, k) ==
  /\ Detached(p)
  /\ k \in Active \/ Cardinality(Active) < NumSemd
  /\ blocked' = [blocked EXCEPT ![k] = InsertProcQ(@, p, prio)]
  /\ UNCHANGED <<free, queue, kids, prio>>

WakeOn(k) ==
  /\ k \in Active
  /\ blocked' = [blocked EXCEPT ![k] = Tail(@)]
  /\ UNCHANGED <<free, queue, kids, prio>>

Unblock(p) ==
  /\ BlockedOn(p) # {}
  /\ blocked' = [k \in Key |-> OutProcQ(blocked[k], p)]
  /\ UNCHANGED <<free, queue, kids, prio>>

\* p, if it is blocked, and the blocked processes below it that only blocked
\* ones separate from it.
RECURSIVE BlockedBelow(_)
BlockedBelow(p) ==
  IF BlockedOn(p) = {} THEN {}
  ELSE {p} \cup UNION {BlockedBelow(c) : c \in Range(kids[p])}

UnblockAll(p) ==
  /\ BlockedOn(p) # {}
  /\ blocked' = [k \in Key |->
                   SelectSeq(blocked[k], LAMBDA d : d \notin BlockedBelow(p))]
  /\ UNCHANGED <<free, queue, kids, prio>>

\* Asked to take away a process that waits nowhere, it does nothing.
NotWaiting(p) == BlockedOn(p) = {} /\ UNCHANGED tables

Next ==
  \/ \E pr \in Priority : Alloc(pr)
  \/ RemoveHead
  \/ \E p \in Pcb :
       \/ Free(p) \/ Insert(p) \/ Out(p)
       \/ LoseFirstChild(p) \/ LeaveParent(p)
       \/ Unblock(p) \/ UnblockAll(p)
  \/ \E a, p \in Pcb : Adopt(a, p)
  \/ \E k \in Key : WakeOn(k) \/ \E p \in Pcb : BlockOn(p, k)

Spec == Init /\ [][Next]_tables
=============================================================================
