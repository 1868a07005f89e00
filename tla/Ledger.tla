--------------------------------- MODULE Ledger ---------------------------------
(***************************************************************************)
(* What the priority queue promises about an entry: it is put on the books *)
(* once and goes one way, from the queue to the batch of one worker, and   *)
(* from there it is handed over or written off together with the rest of   *)
(* that batch.  Only clear() writes off what still waits in the queue.     *)
(***************************************************************************)
CONSTANTS Workers, Entries

VARIABLES
  waiting,    \* the entries in the queue
  batch,      \* what each worker has taken and not yet handed over
  delivered,
  dropped

ledgerVars == <<waiting, batch, delivered, dropped>>

Known == waiting \cup delivered \cup dropped \cup UNION {batch[w] : w \in Workers}

Init ==
  /\ waiting = {} /\ delivered = {} /\ dropped = {}
  /\ batch = [w \in Workers |-> {}]

Issue ==
  /\ \E new \in SUBSET (Entries \ Known) : waiting' = waiting \cup new
  /\ UNCHANGED <<batch, delivered, dropped>>

WriteOffQueue ==
  /\ dropped' = dropped \cup waiting
  /\ waiting' = {}
  /\ UNCHANGED <<batch, delivered>>

Take(w) ==
  \E e \in waiting :
    /\ waiting' = waiting \ {e}
    /\ batch' = [batch EXCEPT ![w] = @ \cup {e}]
    /\ UNCHANGED <<delivered, dropped>>

\* A worker's last step may take one more entry along.
AtMostOne == {{}} \cup {{e} : e \in waiting}

HandOver(w) ==
  \E last \in AtMostOne :
    /\ waiting' = waiting \ last
    /\ delivered' = delivered \cup batch[w] \cup last
    /\ batch' = [batch EXCEPT ![w] = {}]
    /\ UNCHANGED dropped

WriteOff(w) ==
  \E last \in AtMostOne :
    /\ waiting' = waiting \ last
    /\ dropped' = dropped \cup batch[w] \cup last
    /\ batch' = [batch EXCEPT ![w] = {}]
    /\ UNCHANGED delivered

Next ==
  \/ Issue \/ WriteOffQueue
  \/ \E w \in Workers : Take(w) \/ HandOver(w) \/ WriteOff(w)

Spec == Init /\ [][Next]_ledgerVars

===============================================================================
