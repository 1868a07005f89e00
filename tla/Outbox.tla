--------------------------------- MODULE Outbox ---------------------------------
(***************************************************************************)
(* What the scrape command promises about the signals it emits: they are   *)
(* stored one after the other, in the order they were emitted and each     *)
(* once in a command; success is reported only when all are stored; what   *)
(* is stored stays, whatever becomes of the command.                       *)
(***************************************************************************)
EXTENDS Naturals, Sequences

VARIABLES
  outbox,   \* the rows of the signals the command has emitted
  sent,     \* how many of them it has stored
  table,
  status

outboxVars == <<outbox, sent, table, status>>

Init == outbox = <<>> /\ sent = 0 /\ table = {} /\ status = "running"

Emit ==
  /\ status = "running"
  /\ Len(outbox') = Len(outbox) + 1 /\ SubSeq(outbox', 1, Len(outbox)) = outbox
  /\ UNCHANGED <<sent, table, status>>

Store ==
  /\ status = "running" /\ sent < Len(outbox)
  /\ sent' = sent + 1
  /\ table' = table \cup {outbox[sent + 1]}
  /\ UNCHANGED <<outbox, status>>

Succeed ==
  /\ status = "running" /\ sent = Len(outbox)
  /\ status' = "ok"
  /\ UNCHANGED <<outbox, sent, table>>

Fail == status' = "failed" /\ UNCHANGED <<outbox, sent, table>>

\* The command is run again.
Again ==
  /\ status # "running"
  /\ outbox' = <<>> /\ sent' = 0 /\ status' = "running"
  /\ UNCHANGED table

Next == Emit \/ Store \/ Succeed \/ Fail \/ Again

Spec == Init /\ [][Next]_outboxVars

===============================================================================
