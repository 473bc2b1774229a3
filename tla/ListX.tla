------------------------------- MODULE ListX -------------------------------
(***************************************************************************)
(* listx.h: circular doubly linked lists threaded through the structures   *)
(* they link.  A store l gives the next and prev field of every list_head; *)
(* a list is known by its sentinel, one list_head more.                    *)
(***************************************************************************)
EXTENDS Naturals, FiniteSets, Sequences

\* INIT_LIST_HEAD
InitListHead(l, h) ==
  [next |-> [l.next EXCEPT ![h] = h], prev |-> [l.prev EXCEPT ![h] = h]]

\* Mutant: the predecessor is not told.
Link_OneWay(l, new, p, n) ==
  [next |-> [l.next EXCEPT ![new] = n],
   prev |-> [l.prev EXCEPT ![n] = new, ![new] = p]]

\* __list_add: its four stores, new between p and n.
Link(l, new, p, n) ==
  [next |-> [l.next EXCEPT ![new] = n, ![p] = new],
   prev |-> [l.prev EXCEPT ![n] = new, ![new] = p]]

ListAdd(l, new, h)     == Link(l, new, h, l.next[h])
ListAddTail(l, new, h) == Link(l, new, l.prev[h], h)

\* list_del: the neighbours of e are joined, e keeps its own two fields.
ListDel(l, e) ==
  [next |-> [l.next EXCEPT ![l.prev[e]] = l.next[e]],
   prev |-> [l.prev EXCEPT ![l.next[e]] = l.prev[e]]]

ListEmpty(l, h) == l.next[h] = h

\* The nodes from n up to the sentinel h, at most limit of them.
RECURSIVE Visit(_, _, _, _)
Visit(l, n, h, limit) ==
  IF n = h \/ limit = 0 THEN <<>>
  ELSE <<n>> \o Visit(l, l.next[n], h, limit - 1)

\* The nodes list_for_each visits from the sentinel h.
Walk(l, h) == Visit(l, l.next[h], h, Cardinality(DOMAIN l.next))

\* The list of h closes, and the two directions agree all around it.
Ring(l, h) ==
  LET w == <<h>> \o Walk(l, h) \o <<h>>
  IN  \A i \in 1..(Len(w) - 1) : l.next[w[i]] = w[i + 1] /\ l.prev[w[i + 1]] = w[i]
=============================================================================
