----------------------------- MODULE Semaphores -----------------------------
(***************************************************************************)
(* What system calls 2 to 5 and 7 promise, without any list or counter:    *)
(* counting semaphores on which processes wait.  A semaphore has units     *)
(* only while nobody waits on it; a V either adds a unit or hands it to    *)
(* one waiter; a waiter that is terminated takes no unit with it.  Every   *)
(* process is able to run, waits on one semaphore, or does not exist.      *)
(***************************************************************************)
EXTENDS Naturals

CONSTANTS Process, Semaphore

VARIABLES
  units,    \* the units every semaphore has to give
  waiters,  \* the processes waiting on every semaphore
  able,     \* the processes that run or may run
  gone      \* the processes that ended or were not created yet

semaphoreVars == <<units, waiters, able, gone>>

SInit ==
  /\ units \in [Semaphore -> Nat]
  /\ waiters = [k \in Semaphore |-> {}]
  /\ \E p \in Process : able = {p} /\ gone = Process \ {p}

Start(p) ==
  /\ p \in gone
  /\ gone' = gone \ {p}
  /\ able' = able \cup {p}
  /\ UNCHANGED <<units, waiters>>

End(p) ==
  /\ p \in able
  /\ able' = able \ {p}
  /\ gone' = gone \cup {p}
  /\ UNCHANGED <<units, waiters>>

Acquire(k) ==
  /\ units[k] > 0
  /\ units' = [units EXCEPT ![k] = @ - 1]
  /\ UNCHANGED <<waiters, able, gone>>

Block(p, k) ==
  /\ p \in able
  /\ units[k] = 0
  /\ able' = able \ {p}
  /\ waiters' = [waiters EXCEPT ![k] = @ \cup {p}]
  /\ UNCHANGED <<units, gone>>

Release(k) ==
  /\ waiters[k] = {}
  /\ units' = [units EXCEPT ![k] = @ + 1]
  /\ UNCHANGED <<waiters, able, gone>>

HandOver(p, k) ==
  /\ p \in waiters[k]
  /\ waiters' = [waiters EXCEPT ![k] = @ \ {p}]
  /\ able' = able \cup {p}
  /\ UNCHANGED <<units, gone>>

EndWaiting(p, k) ==
  /\ p \in waiters[k]
  /\ waiters' = [waiters EXCEPT ![k] = @ \ {p}]
  /\ gone' = gone \cup {p}
  /\ UNCHANGED <<units, able>>

SNext ==
  \/ \E p \in Process : Start(p) \/ End(p)
  \/ \E k \in Semaphore : Acquire(k) \/ Release(k)
  \/ \E p \in Process, k \in Semaphore :
       Block(p, k) \/ HandOver(p, k) \/ EndWaiting(p, k)

SSpec == SInit /\ [][SNext]_semaphoreVars
=============================================================================
