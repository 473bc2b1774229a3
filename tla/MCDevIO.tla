------------------------------ MODULE MCDevIO ------------------------------
(* Properties of DevIO and values of its constants.                        *)
EXTENDS DevIO, NucleusRefinement

\* interrupts.c:57-65: a process that asked for I/O is woken when its own
\* operation has completed, and finds the status of that operation: it
\* stops waiting only with its own character, unless it is terminated.
OwnCompletion ==
  [][\A p \in Waiting(TermT) \ Waiting(TermT)' :
       \/ p \in Free'
       \/ p \in Ready' \cup {curr'} /\ v0' = p]_<<vars, ioVars>>

\* While processes wait for the transmitter it works for one of them or
\* interrupts: no request is parked without an operation that wakes it.
WaitersHaveOperation ==
  asl[TermT] # <<>> /\ cpu # "terminal" =>
    status # "ready" /\ char \in Waiting(TermT)

\* Every process waiting for the transmitter is woken, or terminated, or
\* the lists are corrupted first.
RequestsEnd ==
  \A p \in Pcb : p \in Waiting(TermT) ~> (p \notin Waiting(TermT) \/ ~Intact)
=============================================================================
