-------------------------------- MODULE Mailbox --------------------------------
(***************************************************************************)
(* What the agent message bus promises: an entry that has been posted may  *)
(* reach each of its receivers, and the handler of a receiver is called    *)
(* for it at most once.  It may as well never be called: an entry is       *)
(* refused, trimmed, or lost with a response or with a crashed consumer.   *)
(***************************************************************************)
CONSTANTS Receivers, Entries

VARIABLES
  posted,  \* the entries that exist
  calls,   \* how often each receiver's handler was called for each entry
  settled  \* what each receiver has handled without error, or refused

mailVars == <<posted, calls, settled>>

Init ==
  /\ posted = {}
  /\ calls = [r \in Receivers |-> [e \in Entries |-> 0]]
  /\ settled = [r \in Receivers |-> {}]

Post(e) ==
  /\ e \notin posted
  /\ posted' = posted \cup {e}
  /\ UNCHANGED <<calls, settled>>

Call(r, e) ==
  /\ e \in posted \ settled[r]
  /\ calls[r][e] = 0
  /\ calls' = [calls EXCEPT ![r] = [@ EXCEPT ![e] = 1]]
  /\ UNCHANGED <<posted, settled>>

Settle(r, e) ==
  /\ e \in posted \ settled[r]
  /\ settled' = [settled EXCEPT ![r] = @ \cup {e}]
  /\ UNCHANGED <<posted, calls>>

Next ==
  \E e \in Entries :
    \/ Post(e)
    \/ \E r \in Receivers : Call(r, e) \/ Settle(r, e)

Spec == Init /\ [][Next]_mailVars

===============================================================================
