----------------------------- MODULE MCMessageBus -----------------------------
(***************************************************************************)
(* Two consumers serve one agent, scout: they share its group on its inbox *)
(* and on the broadcast stream.                                            *)
(***************************************************************************)
EXTENDS MessageBus

MCAgentOf == [k1 |-> "scout", k2 |-> "scout"]

===============================================================================
