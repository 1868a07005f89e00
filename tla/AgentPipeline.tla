----------------------------- MODULE AgentPipeline -----------------------------
(***************************************************************************)
(* One run of the multi-agent pipeline over one trend candidate: run_trend *)
(* (agents/runner.py), the LangGraph graph of ten agents and a supervisor  *)
(* node (agents/graph.py, agents/supervisor.py), and each agent's heuristic *)
(* reduced to the verdict and the state fields the routing and the         *)
(* supervisor read (agents/nodes/).  The language model is not modelled:   *)
(* it may change the wording and the confidence of a decision, never its   *)
(* verdict or those fields.                                                *)
(*                                                                         *)
(* SCOUT, GEO_ARBITRAGE and NARRATIVE run concurrently and end in any      *)
(* order; none of them reads what another writes, so the writes of an      *)
(* agent appear when it ends and the join is the only barrier.  The run    *)
(* has one time limit; the agents have none here, so an agent may hang.    *)
(*                                                                         *)
(* A numeric score is kept as the band between the thresholds that the     *)
(* code compares it with.                                                  *)
(***************************************************************************)
EXTENDS Integers

CONSTANTS
  MaxPool,      \* bound on the active trends HEDGE finds in shared memory
  WithSnapshot  \* run_trend was given a snapshot manager

ASSUME PipelineAssumption ==
  /\ MaxPool \in Nat
  /\ WithSnapshot \in BOOLEAN

VARIABLES
  phase,       \* of run_trend
  running,     \* the graph nodes that have started and not ended
  decisions,   \* state["decisions"]: the verdict of each agent
  blocked_by,
  scout_band,  \* state["scout_score"], as a band
  supplier,    \* state["sourcer_supplier"] is a non-empty dict
  exit,        \* state["sentinel_recommended_exit"]
  passed,      \* the gates whose *_passed is True
  refused,     \* the gates whose *_passed is False
  flagged,     \* state["compliance_flags"] is not empty
  pool,        \* what HEDGE measured: the active trends, those of one category
  final,       \* what the finalize node wrote
  result       \* what run_trend returns

stateVars == <<decisions, blocked_by, scout_band, supplier, exit, passed,
               refused, flagged, pool>>
vars == <<phase, running, stateVars, final, result>>

Discovery == {"scout", "geo_arbitrage", "narrative"}
Advisory == {"geo_arbitrage", "narrative", "historian", "sentinel"}
Gates == {"compliance", "red_team", "hedge"}
Agents == Discovery \cup Advisory \cup Gates \cup {"sourcer", "auditor"}

\* No agent gives the fourth verdict of the code, ESCALATE.
Verdicts == {"proceed", "hold", "block"}
Priorities == {"P0_BREAKOUT", "P1_EXIT", "P2_OPPORTUNITY", "P3_HOUSEKEEPING"}
Halts == {"completed", "vetoed_by_red_team", "vetoed_by_hedge",
          "blocked_by_compliance", "scout_below_threshold", "no_supplier",
          "exception", "timeout"}

GraphResult == [verdict : Verdicts, priority : Priorities, halt : Halts]
NoResult == [verdict |-> "none", priority |-> "none", halt |-> "none"]

\* The cut points of scout_score: 0.45, 0.55, 0.70 and 0.80.
Bands == 0..4
HoldBand == 1
SourcerGate == 2
ProceedBand == 3
BreakoutBand == 4

Pools == {p \in [size : 0..MaxPool, same : 0..MaxPool] : p.same <= p.size}

TypeOK ==
  /\ phase \in {"idle", "graph", "snapshot", "done"}
  /\ running \subseteq Agents \cup {"finalize"}
  /\ decisions \in [Agents -> Verdicts \cup {"none"}]
  /\ blocked_by \subseteq Agents
  /\ scout_band \in Bands
  /\ supplier \in BOOLEAN
  /\ exit \in BOOLEAN
  /\ passed \subseteq Gates
  /\ refused \subseteq Gates
  /\ flagged \in BOOLEAN
  /\ pool \in Pools
  /\ final \in GraphResult \cup {NoResult}
  /\ result \in GraphResult \cup {NoResult}

Init ==
  /\ phase = "idle"
  /\ running = {}
  /\ decisions = [a \in Agents |-> "none"]
  /\ blocked_by = {}
  /\ scout_band = 0
  /\ supplier = FALSE
  /\ exit = FALSE
  /\ passed = {}
  /\ refused = {}
  /\ flagged = FALSE
  /\ pool = [size |-> 0, same |-> 0]
  /\ final = NoResult
  /\ result = NoResult

-------------------------------------------------------------------------------
(* The routing functions and the static edges of the graph.                *)

PostHistorianRoute ==
  IF decisions["scout"] # "block" /\ scout_band >= SourcerGate
  THEN "sourcer" ELSE "compliance"

PostSourcerRoute(found) == IF found THEN "auditor" ELSE "compliance"

\* (mutant) the outcome of COMPLIANCE is not looked at.
PostComplianceRoute_Always(pass) == "red_team"

PostComplianceRoute(pass) == IF pass THEN "red_team" ELSE "finalize"

\* (mutant) HEDGE is not wired in.
PostRedTeamRoute_NoHedge(pass) == "finalize"

PostRedTeamRoute(pass) == IF pass THEN "hedge" ELSE "finalize"

\* (mutant) the first discovery agent to end starts HISTORIAN.
Successors_NoJoin(a, next) == (running \ {a}) \cup {next}

\* The next node starts when the last of the running ones has ended.
Successors(a, next) == IF running = {a} THEN {next} ELSE running \ {a}

\* (mutant) every BLOCK counts, the advisory ones included.
Blockers_Advisory(a, verdict) == IF verdict = "block" THEN {a} ELSE {}

\* _merge_partial: a BLOCK puts the agent on blocked_by, unless the agent
\* overrides the method because its verdict is advice.
Blockers(a, verdict) ==
  IF verdict = "block" /\ a \notin Advisory THEN {a} ELSE {}

\* AgentNode.__call__: an agent ends with a decision and the graph goes on.
Ends(a, verdict, next) ==
  /\ phase = "graph"
  /\ a \in running
  /\ running' = Successors(a, next)
  /\ decisions' = [decisions EXCEPT ![a] = verdict]
  /\ blocked_by' = blocked_by \cup Blockers(a, verdict)
  /\ UNCHANGED <<phase, final, result>>

\* A gate writes its *_passed field.
WritesPassed(g, pass) ==
  /\ passed' = IF pass THEN passed \cup {g} ELSE passed
  /\ refused' = IF pass THEN refused ELSE refused \cup {g}

-------------------------------------------------------------------------------
(* The agents.  An exception in a heuristic becomes a HOLD decision with   *)
(* score 0.0 and empty details.                                            *)

ScoutVerdict(band) ==
  IF band >= ProceedBand THEN "proceed"
  ELSE IF band >= HoldBand THEN "hold" ELSE "block"

Scout ==
  /\ \/ \E band \in Bands :
          /\ Ends("scout", ScoutVerdict(band), "historian")
          /\ scout_band' = band
     \/ /\ Ends("scout", "hold", "historian")
        /\ scout_band' = 0
  /\ UNCHANGED <<supplier, exit, passed, refused, flagged, pool>>

Advise(a, next) ==
  /\ \E verdict \in Verdicts : Ends(a, verdict, next)
  /\ UNCHANGED <<scout_band, supplier, exit, passed, refused, flagged, pool>>

GeoArbitrage == Advise("geo_arbitrage", "historian")
Narrative == Advise("narrative", "historian")

\* HISTORIAN always PROCEEDs, unless its heuristic raises.
Historian ==
  /\ \E verdict \in {"proceed", "hold"} :
       Ends("historian", verdict, PostHistorianRoute)
  /\ UNCHANGED <<scout_band, supplier, exit, passed, refused, flagged, pool>>

\* A blocked category has no supplier; a weak score may leave a HOLD without.
Sourcer ==
  /\ \E verdict \in Verdicts, found \in BOOLEAN :
       /\ verdict = "block" => ~found
       /\ verdict = "proceed" => found
       /\ Ends("sourcer", verdict, PostSourcerRoute(found))
       /\ supplier' = found
  /\ UNCHANGED <<scout_band, exit, passed, refused, flagged, pool>>

Auditor == Advise("auditor", "sentinel")

\* The exit is recommended exactly with PROCEED.
Sentinel ==
  /\ \E verdict \in Verdicts :
       /\ Ends("sentinel", verdict, "compliance")
       /\ exit' = (verdict = "proceed")
  /\ UNCHANGED <<scout_band, supplier, passed, refused, flagged, pool>>

\* Due diligence (HOLD) does not pass.
CompliancePasses(verdict) == verdict = "proceed"

\* Clean, due diligence, a hit; or the heuristic raises, which leaves no flag.
Compliance ==
  /\ \E verdict \in Verdicts :
       /\ Ends("compliance", verdict, PostComplianceRoute(CompliancePasses(verdict)))
       /\ WritesPassed("compliance", CompliancePasses(verdict))
       /\ \/ flagged' = (verdict # "proceed")
          \/ verdict = "hold" /\ flagged' = FALSE
  /\ UNCHANGED <<scout_band, supplier, exit, pool>>

\* F7, F8 and F8b; the others, F1 to F6, look at the candidate alone.
StateFalsifiers ==
  (IF scout_band < SourcerGate THEN 1 ELSE 0)
    + (IF flagged THEN 1 ELSE 0)
    + (IF "compliance" \in refused THEN 1 ELSE 0)

RedTeamVerdict(falsifiers) ==
  IF falsifiers >= 2 THEN "block"
  ELSE IF falsifiers = 1 THEN "hold" ELSE "proceed"

\* One falsifier is a warning; an exception in the heuristic is a refusal.
RedTeam ==
  /\ \/ \E others \in 0..6 :
          LET verdict == RedTeamVerdict(StateFalsifiers + others)
          IN /\ Ends("red_team", verdict, PostRedTeamRoute(verdict # "block"))
             /\ WritesPassed("red_team", verdict # "block")
     \/ /\ Ends("red_team", "hold", PostRedTeamRoute(FALSE))
        /\ WritesPassed("red_team", FALSE)
  /\ UNCHANGED <<scout_band, supplier, exit, flagged, pool>>

\* The concentration of the category if this candidate joined the pool,
\* above 60% and above 45% of it.  At exactly 60% and 45% the subtraction of
\* the cap in floating point falls short of the threshold.
Above(percent, p) == 100 * (p.same + 1) > percent * (p.size + 1)

HedgeVerdict(p) ==
  IF p.size = 0 THEN "proceed"
  ELSE IF Above(60, p) THEN "block"
  ELSE IF Above(45, p) THEN "hold" ELSE "proceed"

\* HEDGE passes only with PROCEED; an unreadable pool counts as empty.
Hedge ==
  /\ \/ \E p \in Pools :
          /\ Ends("hedge", HedgeVerdict(p), "finalize")
          /\ WritesPassed("hedge", HedgeVerdict(p) = "proceed")
          /\ pool' = p
     \/ /\ Ends("hedge", "hold", "finalize")
        /\ WritesPassed("hedge", FALSE)
        /\ UNCHANGED pool
  /\ UNCHANGED <<scout_band, supplier, exit, flagged>>

-------------------------------------------------------------------------------
(* The supervisor.                                                         *)

FinalVerdict ==
  IF blocked_by # {} \/ refused # {} THEN "block" ELSE decisions["scout"]

\* A gate that has not run counts as passed.
Priority ==
  IF exit THEN "P1_EXIT"
  ELSE IF decisions["scout"] # "proceed" THEN "P3_HOUSEKEEPING"
  ELSE IF scout_band >= BreakoutBand /\ refused = {} THEN "P0_BREAKOUT"
  ELSE "P2_OPPORTUNITY"

\* (mutant) the gates are looked at before SCOUT.
HaltReason_GatesFirst ==
  IF "compliance" \in blocked_by \cup refused THEN "blocked_by_compliance"
  ELSE IF "red_team" \in blocked_by \cup refused THEN "vetoed_by_red_team"
  ELSE IF "hedge" \in blocked_by \cup refused THEN "vetoed_by_hedge"
  ELSE IF decisions["scout"] = "block" THEN "scout_below_threshold"
  ELSE "completed"

HaltReason ==
  IF decisions["scout"] = "block" THEN "scout_below_threshold"
  ELSE IF "compliance" \in blocked_by \cup refused THEN "blocked_by_compliance"
  ELSE IF "red_team" \in blocked_by \cup refused THEN "vetoed_by_red_team"
  ELSE IF "hedge" \in blocked_by \cup refused THEN "vetoed_by_hedge"
  ELSE IF decisions["scout"] = "proceed" /\ decisions["sourcer"] = "block"
  THEN "no_supplier" ELSE "completed"

Finalize ==
  /\ phase = "graph"
  /\ running = {"finalize"}
  /\ running' = {}
  /\ final' = [verdict |-> FinalVerdict, priority |-> Priority, halt |-> HaltReason]
  /\ UNCHANGED <<phase, stateVars, result>>

-------------------------------------------------------------------------------
(* run_trend.                                                              *)

\* (mutant) a failed run has no verdict.
ExceptionResult_NoVerdict(halt) ==
  [verdict |-> "none", priority |-> "P3_HOUSEKEEPING", halt |-> halt]

\* _build_exception_result, from the initial state.
ExceptionResult(halt) ==
  [verdict |-> "hold", priority |-> "P3_HOUSEKEEPING", halt |-> halt]

FailsWith(halt) ==
  /\ result' = ExceptionResult(halt)
  /\ phase' = "done"
  /\ running' = {}
  /\ UNCHANGED <<stateVars, final>>

StartRun ==
  /\ phase = "idle"
  /\ phase' = "graph"
  /\ running' = Discovery
  /\ UNCHANGED <<stateVars, final, result>>

CompileFails == phase = "idle" /\ FailsWith("exception")

GraphFails == phase = "graph" /\ FailsWith("exception")

\* (mutant) the time limit covers the discovery agents only.
Timeout_DiscoveryOnly ==
  /\ phase = "graph"
  /\ running \cap Discovery # {}
  /\ FailsWith("timeout")

\* wait_for gives up, wherever the graph is, and cancels it.
Timeout == phase = "graph" /\ FailsWith("timeout")

\* ainvoke has returned: the result is built, and a snapshot of it written.
GraphReturns ==
  /\ phase = "graph"
  /\ final # NoResult
  /\ result' = final
  /\ phase' = IF WithSnapshot THEN "snapshot" ELSE "done"
  /\ UNCHANGED <<running, stateVars, final>>

\* Written or failed, the snapshot changes nothing; nothing bounds it either.
SnapshotEnds ==
  /\ phase = "snapshot"
  /\ phase' = "done"
  /\ UNCHANGED <<running, stateVars, final, result>>

AgentEnds ==
  \/ Scout \/ GeoArbitrage \/ Narrative \/ Historian \/ Sourcer \/ Auditor
  \/ Sentinel \/ Compliance \/ RedTeam \/ Hedge

Next ==
  \/ StartRun \/ CompileFails
  \/ AgentEnds \/ Finalize
  \/ GraphFails \/ Timeout \/ GraphReturns
  \/ SnapshotEnds

\* A called coroutine starts, and its time limit fires unless it has ended.
\* An agent, and the store behind the snapshots, may hang.
Fairness == WF_vars(StartRun) /\ WF_vars(Timeout)

Spec == Init /\ [][Next]_vars /\ Fairness

-------------------------------------------------------------------------------

\* HISTORIAN waits for all three discovery agents, in whatever order they
\* end: the edges of build_graph are a join.
JoinBeforeHistorian ==
  "historian" \in running \/ decisions["historian"] # "none" =>
    \A a \in Discovery : decisions[a] # "none"

\* A gate is reached only by a candidate that the gate before it has passed,
\* and RED_TEAM never sees a flagged one: by the routing, its falsifiers F8
\* and F8b cannot occur.
GatesInOrder ==
  LET Reached(g) == g \in running \/ decisions[g] # "none"
  IN /\ Reached("red_team") => "compliance" \in passed /\ ~flagged
     /\ Reached("hedge") => "red_team" \in passed

\* The priorities of schemas.py, "confirmed breakout, RED_TEAM-passed":
\* compute_priority takes a gate that has not run for one that has passed,
\* yet no run gives P0 to a candidate that some gate has not seen.
BreakoutReviewed == result.priority = "P0_BREAKOUT" => passed = Gates

\* compute_halt_reason and compute_final_verdict read the state separately and
\* agree: every halt reason but "completed", "exception" and "timeout" comes
\* with a BLOCK, a PROCEED is "completed", and a BLOCK of SCOUT is reported as
\* the root cause whatever the gates said after it.
HaltAgreesWithVerdict ==
  /\ result.halt \notin {"none", "completed", "exception", "timeout"} =>
       result.verdict = "block"
  /\ result.verdict = "proceed" => result.halt = "completed"
  /\ result.verdict = "block" =>
       (result.halt = "scout_below_threshold" <=> decisions["scout"] = "block")

\* Whatever agent hangs, a run that has started has a result in the end.
RunEnds == phase \in {"idle", "graph"} ~> result # NoResult

\* What the run promises about the candidate.
Cleared == passed \cup {a \in {"scout"} : decisions[a] = "proceed"}
Outcome == IF result = NoResult THEN "open" ELSE result.verdict

T == INSTANCE Triage WITH Agents <- Agents \ Advisory, cleared <- Cleared,
       objections <- blocked_by \cup refused, outcome <- Outcome

\* The pipeline implements Triage: no interleaving, failure or time-out lets a
\* candidate proceed that one of the four gates has not cleared or that any
\* agent with a veto objects to, advice never blocks one, and a result is
\* final.
TriageSpec == T!Spec

\* RUNBOOK.md, "BLOCK: Do not act" and "P0: Confirmed breakout - act in
\* minutes": no result says both.
NeverActOnBlock == result.priority = "P0_BREAKOUT" => result.verdict # "block"

===============================================================================
