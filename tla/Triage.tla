-------------------------------- MODULE Triage --------------------------------
(***************************************************************************)
(* What the agent pipeline promises about one trend candidate, whatever    *)
(* its agents find: four gates may clear the candidate, COMPLIANCE before  *)
(* RED_TEAM before HEDGE; any agent may object to it; and it is decided    *)
(* once.  "proceed" needs every gate and no objection, "block" needs an    *)
(* objection, "hold" is always open: a run that is cut short says "hold".  *)
(***************************************************************************)
CONSTANT Agents

VARIABLES
  cleared,     \* the gates the candidate has passed
  objections,  \* the agents that object to it
  outcome      \* "open", or the verdict

triageVars == <<cleared, objections, outcome>>

Gates == {"scout", "compliance", "red_team", "hedge"}

Init ==
  /\ cleared = {}
  /\ objections = {}
  /\ outcome = "open"

Clear(g) ==
  /\ outcome = "open"
  /\ g = "red_team" => "compliance" \in cleared
  /\ g = "hedge" => "red_team" \in cleared
  /\ cleared' = cleared \cup {g}
  /\ UNCHANGED <<objections, outcome>>

\* An agent never objects to what it has cleared.
Object(a) ==
  /\ outcome = "open"
  /\ a \notin cleared
  /\ objections' = objections \cup {a}
  /\ UNCHANGED <<cleared, outcome>>

Decide(verdict) ==
  /\ outcome = "open"
  /\ verdict = "proceed" => cleared = Gates /\ objections = {}
  /\ verdict = "block" => objections # {}
  /\ outcome' = verdict
  /\ UNCHANGED <<cleared, objections>>

Next ==
  \/ \E g \in Gates : Clear(g)
  \/ \E a \in Agents : Object(a)
  \/ \E verdict \in {"proceed", "hold", "block"} : Decide(verdict)

Spec == Init /\ [][Next]_triageVars

===============================================================================
