------------------------- MODULE AgentPipelineProofs --------------------------
(***************************************************************************)
(* What holds of every run of the agent pipeline, whatever its agents      *)
(* decide, in whatever order the discovery agents end and wherever the run *)
(* fails or times out, for every size of the pool HEDGE may find.          *)
(***************************************************************************)
EXTENDS AgentPipeline, TLAPS

-------------------------------------------------------------------------------
(* The inductive invariant: where the run is tells what it has written.    *)

\* The nodes up to the first gate.
Early == Agents \ {"red_team", "hedge"}

\* Either some discovery agents run, or exactly one later node does, and the
\* discovery agents that have decided are those that do not run.
JoinInv ==
  /\ \/ running \subseteq Discovery
     \/ \E n \in (Agents \cup {"finalize"}) \ Discovery : running = {n}
  /\ phase = "graph" => \A a \in Discovery : a \in running \/ decisions[a] # "none"
  /\ phase # "graph" => running = {}
  /\ \A a \in Discovery : a \in running \/ phase = "idle" => decisions[a] = "none"
  /\ JoinBeforeHistorian

\* What the gates have written when each of them starts, and when the last
\* of the run has ended.
GateInv ==
  /\ running \cap Early # {} \/ phase = "idle" =>
       /\ passed = {} /\ refused = {} /\ ~flagged
       /\ decisions["red_team"] = "none" /\ decisions["hedge"] = "none"
  /\ "red_team" \in running =>
       /\ passed = {"compliance"} /\ refused = {} /\ ~flagged
       /\ decisions["hedge"] = "none"
  /\ "hedge" \in running =>
       passed = {"compliance", "red_team"} /\ refused = {} /\ ~flagged
  /\ "finalize" \in running => passed = Gates \/ refused # {}
  /\ GatesInOrder

\* The supervisor's result is that of the state the run ended in.
FinalInv ==
  /\ final # NoResult =>
       /\ phase # "idle" /\ running = {}
       /\ passed = Gates \/ refused # {}
       /\ decisions["scout"] # "none"
       /\ final = [verdict |-> FinalVerdict, priority |-> Priority, halt |-> HaltReason]
  /\ phase \in {"idle", "graph"} <=> result = NoResult
  /\ \/ result \in {NoResult, ExceptionResult("exception"), ExceptionResult("timeout")}
     \/ final # NoResult /\ result = final

\* Advice is never on blocked_by, and every other BLOCK is.
VetoInv ==
  /\ blocked_by \cap Advisory = {}
  /\ \A a \in Agents \ Advisory : decisions[a] = "block" => a \in blocked_by

IInv == TypeOK /\ JoinInv /\ GateInv /\ FinalInv /\ VetoInv

-------------------------------------------------------------------------------

LEMMA InitIInv == Init => IInv
<1> SUFFICES ASSUME Init PROVE IInv
  OBVIOUS
<1>1. [size |-> 0, same |-> 0] \in Pools
  BY PipelineAssumption DEF Pools
<1>2. TypeOK
  <2>1. phase \in {"idle", "graph", "snapshot", "done"} /\ running \subseteq Agents \cup {"finalize"}
    BY DEF Init
  <2>2. decisions \in [Agents -> Verdicts \cup {"none"}]
    BY DEF Init
  <2>3. /\ blocked_by \subseteq Agents /\ passed \subseteq Gates /\ refused \subseteq Gates
        /\ scout_band \in Bands
    BY DEF Init, Bands
  <2>4. supplier \in BOOLEAN /\ exit \in BOOLEAN /\ flagged \in BOOLEAN
    BY DEF Init
  <2>5. /\ final \in GraphResult \cup {NoResult} /\ result \in GraphResult \cup {NoResult}
        /\ pool \in Pools
    BY <1>1 DEF Init
  <2>6. QED
    BY <2>1, <2>2, <2>3, <2>4, <2>5 DEF TypeOK
<1>3. JoinInv
  BY DEF Init, JoinInv, JoinBeforeHistorian, Agents, Advisory
<1>4. GateInv
  BY DEF Init, GateInv, GatesInOrder, Agents, Gates
<1>5. FinalInv /\ VetoInv
  BY DEF Init, FinalInv, VetoInv, Agents
<1>6. QED
  BY <1>2, <1>3, <1>4, <1>5 DEF IInv

\* An agent that ends: the run is in the graph and has no result yet, and it
\* is a discovery agent or the only node that runs.
LEMMA AgentRuns ==
  ASSUME IInv, NEW a \in Agents, NEW verdict, NEW next, Ends(a, verdict, next)
  PROVE  /\ phase = "graph" /\ phase' = "graph"
         /\ final = NoResult /\ final' = NoResult
         /\ result = NoResult /\ result' = NoResult
         /\ a \in running
         /\ \/ running \subseteq Discovery /\ a \in Discovery
            \/ running = {a} /\ a \notin Discovery /\ running' = {next}
  BY DEF IInv, JoinInv, FinalInv, Ends, Successors, Agents

LEMMA EndsType ==
  ASSUME IInv, NEW a \in Agents, NEW verdict \in Verdicts,
         NEW next \in Agents \cup {"finalize"}, Ends(a, verdict, next)
  PROVE  /\ phase' = "graph"
         /\ running' \subseteq Agents \cup {"finalize"}
         /\ decisions' \in [Agents -> Verdicts \cup {"none"}]
         /\ blocked_by' \subseteq Agents
         /\ VetoInv'
         /\ final' = final /\ result' = result
<1>1. /\ decisions' = [decisions EXCEPT ![a] = verdict]
      /\ blocked_by' = blocked_by \cup Blockers(a, verdict)
      /\ decisions \in [Agents -> Verdicts \cup {"none"}]
  BY DEF Ends, IInv, TypeOK
<1>2. VetoInv'
  BY <1>1 DEF IInv, VetoInv, Blockers
<1>3. QED
  BY <1>1, <1>2 DEF IInv, TypeOK, Ends, Successors, Blockers

\* A discovery agent ends: the join.
LEMMA DiscoveryJoins ==
  ASSUME IInv, NEW a \in Discovery, NEW verdict \in Verdicts, Ends(a, verdict, "historian")
  PROVE  JoinInv'
<1>1. running \subseteq Discovery
  BY AgentRuns DEF Agents
<1>2. decisions' = [decisions EXCEPT ![a] = verdict] /\ decisions \in [Agents -> Verdicts \cup {"none"}]
  BY DEF Ends, IInv, TypeOK
<1>3. \A b \in Discovery : b \in running' \/ decisions'[b] # "none"
  BY <1>2 DEF IInv, JoinInv, Ends, Successors, Verdicts, Agents
<1>4. \/ running' \subseteq Discovery
      \/ running' = {"historian"}
  BY <1>1 DEF Ends, Successors
<1>5. JoinBeforeHistorian'
  BY <1>2, <1>3, <1>4 DEF IInv, JoinInv, JoinBeforeHistorian, Discovery, Agents, Advisory, Verdicts
<1>6. \A b \in Discovery : b \in running' => decisions'[b] = "none"
  <2>1. \A b \in Discovery : b \in running' => b \in running /\ b # a
    BY <1>4 DEF Ends, Successors, Discovery
  <2>2. QED
    BY <1>2, <2>1 DEF IInv, JoinInv, Agents
<1>7. phase' = "graph"
  BY AgentRuns DEF Agents
<1>8. QED
  BY <1>3, <1>4, <1>5, <1>6, <1>7 DEF JoinInv, Discovery, Agents, Advisory

\* A later node ends: exactly one node runs before and after.
LEMMA LaterJoins ==
  ASSUME IInv, NEW a \in Agents \ Discovery, NEW verdict \in Verdicts,
         NEW next \in (Agents \cup {"finalize"}) \ Discovery, Ends(a, verdict, next)
  PROVE  JoinInv'
<1>1. running = {a} /\ running' = {next} /\ phase' = "graph" /\ phase = "graph"
  BY AgentRuns
<1>2. decisions' = [decisions EXCEPT ![a] = verdict] /\ decisions \in [Agents -> Verdicts \cup {"none"}]
  BY DEF Ends, IInv, TypeOK
<1>3. \A b \in Discovery : decisions[b] # "none" /\ decisions'[b] # "none"
  BY <1>1, <1>2 DEF IInv, JoinInv, Agents
<1>4. QED
  BY <1>1, <1>3 DEF JoinInv, JoinBeforeHistorian

LEMMA AgentKeepsFinal ==
  ASSUME IInv, NEW a \in Agents, NEW verdict, NEW next, Ends(a, verdict, next)
  PROVE  FinalInv'
  BY AgentRuns DEF FinalInv

\* An agent before the gates ends.
LEMMA EarlyKeepsGates ==
  ASSUME IInv, NEW a \in Early \ {"compliance"}, NEW verdict \in Verdicts,
         NEW next \in Early, Ends(a, verdict, next),
         UNCHANGED <<passed, refused, flagged>>
  PROVE  GateInv'
<1>1. a \in running /\ a \in Agents
  BY AgentRuns DEF Early
<1>2. /\ passed = {} /\ refused = {} /\ ~flagged
      /\ decisions["red_team"] = "none" /\ decisions["hedge"] = "none"
  BY <1>1 DEF IInv, GateInv
<1>3. decisions'["red_team"] = "none" /\ decisions'["hedge"] = "none"
  BY <1>1, <1>2 DEF Ends, Early, IInv, TypeOK
<1>4. running' \subseteq Early
  BY AgentRuns, <1>1 DEF Ends, Successors, Early, Discovery, Agents
<1>5. "finalize" \notin Early
  BY DEF Early, Agents, Discovery, Advisory, Gates
<1>6. QED
  BY <1>2, <1>3, <1>4, <1>5 DEF GateInv, GatesInOrder, Ends, Early

LEMMA EarlyStep ==
  ASSUME IInv, NEW a \in Early \ {"compliance"}, NEW verdict \in Verdicts,
         NEW next \in Early, Ends(a, verdict, next),
         UNCHANGED <<passed, refused, flagged, pool>>,
         scout_band' \in Bands, supplier' \in BOOLEAN, exit' \in BOOLEAN,
         a \in Discovery => next = "historian",
         a \notin Discovery => next \notin Discovery
  PROVE  IInv'
<1>1. a \in Agents /\ next \in Agents \cup {"finalize"}
  BY DEF Early
<1>2. TypeOK'
  BY <1>1, EndsType DEF IInv, TypeOK
<1>3. JoinInv'
  <2>1. CASE a \in Discovery
    BY <2>1, DiscoveryJoins
  <2>2. CASE a \notin Discovery
    BY <1>1, <2>2, LaterJoins
  <2>3. QED
    BY <2>1, <2>2
<1>4. GateInv'
  BY EarlyKeepsGates
<1>5. FinalInv'
  BY <1>1, AgentKeepsFinal
<1>6. VetoInv'
  BY <1>1, EndsType
<1>7. QED
  BY <1>2, <1>3, <1>4, <1>5, <1>6 DEF IInv

LEMMA DiscoveryStep ==
  ASSUME IInv, Scout \/ GeoArbitrage \/ Narrative
  PROVE  IInv'
<1> USE DEF Early, Agents, Discovery, Advisory, Gates, Verdicts
<1>0. scout_band \in Bands /\ supplier \in BOOLEAN /\ exit \in BOOLEAN
  BY DEF IInv, TypeOK
<1>1. CASE Scout
  <2>1. PICK verdict \in Verdicts : Ends("scout", verdict, "historian")
    BY <1>1 DEF Scout, ScoutVerdict
  <2>2. scout_band' \in Bands
    BY <1>1 DEF Scout, Bands
  <2>3. UNCHANGED <<passed, refused, flagged, pool, supplier, exit>>
    BY <1>1 DEF Scout
  <2>4. QED
    BY <1>0, <2>1, <2>2, <2>3, EarlyStep
<1>2. ASSUME NEW a \in {"geo_arbitrage", "narrative"}, Advise(a, "historian")
      PROVE  IInv'
  <2>1. PICK verdict \in Verdicts : Ends(a, verdict, "historian")
    BY <1>2 DEF Advise
  <2>2. UNCHANGED <<scout_band, supplier, exit, passed, refused, flagged, pool>>
    BY <1>2 DEF Advise
  <2>3. QED
    BY <1>0, <2>1, <2>2, EarlyStep
<1>3. QED
  BY <1>1, <1>2 DEF GeoArbitrage, Narrative

LEMMA SourcingStep ==
  ASSUME IInv, Historian \/ Sourcer \/ Auditor \/ Sentinel
  PROVE  IInv'
<1> USE DEF Early, Agents, Discovery, Advisory, Gates, Verdicts
<1>0. scout_band \in Bands /\ supplier \in BOOLEAN /\ exit \in BOOLEAN
  BY DEF IInv, TypeOK
<1>1. CASE Historian
  <2>1. PICK verdict \in Verdicts : Ends("historian", verdict, PostHistorianRoute)
    BY <1>1 DEF Historian
  <2>2. UNCHANGED <<scout_band, supplier, exit, passed, refused, flagged, pool>>
    BY <1>1 DEF Historian
  <2>3. PostHistorianRoute \in {"sourcer", "compliance"}
    BY DEF PostHistorianRoute
  <2>4. QED
    BY <1>0, <2>1, <2>2, <2>3, EarlyStep
<1>2. CASE Sourcer
  <2>1. PICK verdict \in Verdicts, found \in BOOLEAN :
          /\ Ends("sourcer", verdict, PostSourcerRoute(found))
          /\ supplier' = found
    BY <1>2 DEF Sourcer
  <2>2. UNCHANGED <<scout_band, exit, passed, refused, flagged, pool>>
    BY <1>2 DEF Sourcer
  <2>3. PostSourcerRoute(found) \in {"auditor", "compliance"}
    BY DEF PostSourcerRoute
  <2>4. supplier' \in BOOLEAN
    BY <2>1
  <2>5. QED
    BY <1>0, <2>1, <2>2, <2>3, <2>4, EarlyStep
<1>3. CASE Auditor
  <2>1. PICK verdict \in Verdicts : Ends("auditor", verdict, "sentinel")
    BY <1>3 DEF Auditor, Advise
  <2>2. UNCHANGED <<scout_band, supplier, exit, passed, refused, flagged, pool>>
    BY <1>3 DEF Auditor, Advise
  <2>3. QED
    BY <1>0, <2>1, <2>2, EarlyStep
<1>4. CASE Sentinel
  <2>1. PICK verdict \in Verdicts : /\ Ends("sentinel", verdict, "compliance")
                                   /\ exit' = (verdict = "proceed")
    BY <1>4 DEF Sentinel
  <2>2. UNCHANGED <<scout_band, supplier, passed, refused, flagged, pool>>
    BY <1>4 DEF Sentinel
  <2>3. exit' \in BOOLEAN
    BY <2>1
  <2>4. QED
    BY <1>0, <2>1, <2>2, <2>3, EarlyStep
<1>5. QED
  BY <1>1, <1>2, <1>3, <1>4

\* A gate ends.
LEMMA GateType ==
  ASSUME IInv, NEW a \in Gates, NEW verdict \in Verdicts,
         NEW next \in (Agents \cup {"finalize"}) \ Discovery, NEW pass \in BOOLEAN,
         Ends(a, verdict, next), WritesPassed(a, pass),
         flagged' \in BOOLEAN, pool' \in Pools,
         UNCHANGED <<scout_band, supplier, exit>>
  PROVE  TypeOK' /\ JoinInv' /\ FinalInv' /\ VetoInv'
<1>1. a \in Agents \ Discovery
  BY DEF Agents, Gates, Discovery
<1>2. passed' \subseteq Gates /\ refused' \subseteq Gates
  BY DEF IInv, TypeOK, WritesPassed
<1>3. TypeOK'
  BY <1>1, <1>2, EndsType DEF IInv, TypeOK
<1>4. JoinInv'
  BY <1>1, LaterJoins
<1>5. FinalInv'
  BY <1>1, AgentKeepsFinal
<1>6. VetoInv'
  BY <1>1, EndsType
<1>7. QED
  BY <1>3, <1>4, <1>5, <1>6

LEMMA ComplianceStep ==
  ASSUME IInv, Compliance
  PROVE  IInv'
<1> USE DEF Agents, Discovery, Advisory, Gates, Verdicts
<1>1. PICK verdict \in Verdicts :
        /\ Ends("compliance", verdict, PostComplianceRoute(CompliancePasses(verdict)))
        /\ WritesPassed("compliance", CompliancePasses(verdict))
        /\ \/ flagged' = (verdict # "proceed")
           \/ verdict = "hold" /\ flagged' = FALSE
  BY DEF Compliance
<1>2. UNCHANGED <<scout_band, supplier, exit, pool>>
  BY DEF Compliance
<1> DEFINE next == PostComplianceRoute(CompliancePasses(verdict))
<1>3. next \in {"red_team", "finalize"}
  BY DEF PostComplianceRoute
<1>4. running = {"compliance"} /\ running' = {next}
  BY <1>1, AgentRuns
<1>5. /\ passed = {} /\ refused = {}
      /\ decisions["red_team"] = "none" /\ decisions["hedge"] = "none"
  BY <1>4 DEF IInv, GateInv, Early
<1>6. decisions'["red_team"] = "none" /\ decisions'["hedge"] = "none" /\ phase' = "graph"
  BY <1>1, <1>5, AgentRuns DEF Ends, IInv, TypeOK
<1>7. CASE verdict = "proceed"
  <2>1. CompliancePasses(verdict) = TRUE
    BY <1>7 DEF CompliancePasses
  <2>2. next = "red_team"
    BY <2>1 DEF PostComplianceRoute
  <2>3. passed' = {"compliance"} /\ refused' = {}
    BY <1>1, <1>5, <2>1 DEF WritesPassed
  <2>4. ~flagged'
    BY <1>1, <1>7
  <2>5. GateInv'
    BY <1>4, <1>6, <2>2, <2>3, <2>4 DEF GateInv, GatesInOrder, Early
  <2>6. QED
    BY <1>1, <1>2, <1>3, <2>1, <2>4, <2>5, GateType DEF IInv, TypeOK
<1>8. CASE verdict # "proceed"
  <2>1. CompliancePasses(verdict) = FALSE
    BY <1>8 DEF CompliancePasses
  <2>2. next = "finalize"
    BY <2>1 DEF PostComplianceRoute
  <2>3. refused' = {"compliance"}
    BY <1>1, <1>5, <2>1 DEF WritesPassed
  <2>4. flagged' \in BOOLEAN
    BY <1>1
  <2>5. GateInv'
    BY <1>4, <1>6, <2>2, <2>3 DEF GateInv, GatesInOrder, Early
  <2>6. QED
    BY <1>1, <1>2, <1>3, <2>1, <2>4, <2>5, GateType DEF IInv, TypeOK
<1>9. QED
  BY <1>7, <1>8

LEMMA RedTeamStep ==
  ASSUME IInv, RedTeam
  PROVE  IInv'
<1> USE DEF Agents, Discovery, Advisory, Gates, Verdicts
<1>1. PICK verdict \in Verdicts, pass \in BOOLEAN :
        /\ Ends("red_team", verdict, PostRedTeamRoute(pass))
        /\ WritesPassed("red_team", pass)
  BY DEF RedTeam, RedTeamVerdict
<1>2. UNCHANGED <<scout_band, supplier, exit, flagged, pool>>
  BY DEF RedTeam
<1> DEFINE next == PostRedTeamRoute(pass)
<1>3. next \in {"hedge", "finalize"}
  BY DEF PostRedTeamRoute
<1>4. running = {"red_team"} /\ running' = {next} /\ phase' = "graph"
  BY <1>1, AgentRuns
<1>5. passed = {"compliance"} /\ refused = {} /\ ~flagged /\ decisions["hedge"] = "none"
  BY <1>4 DEF IInv, GateInv
<1>6. decisions'["hedge"] = "none"
  BY <1>1, <1>5 DEF Ends, IInv, TypeOK
<1>7. CASE pass = TRUE
  <2>1. next = "hedge"
    BY <1>7 DEF PostRedTeamRoute
  <2>2. passed' = {"compliance", "red_team"} /\ refused' = {} /\ ~flagged'
    BY <1>1, <1>2, <1>5, <1>7 DEF WritesPassed
  <2>3. GateInv'
    BY <1>4, <2>1, <2>2 DEF GateInv, GatesInOrder, Early
  <2>4. QED
    BY <1>1, <1>2, <1>3, <2>3, GateType DEF IInv, TypeOK
<1>8. CASE pass = FALSE
  <2>1. next = "finalize"
    BY <1>8 DEF PostRedTeamRoute
  <2>2. passed' = {"compliance"} /\ refused' = {"red_team"} /\ ~flagged'
    BY <1>1, <1>2, <1>5, <1>8 DEF WritesPassed
  <2>3. GateInv'
    BY <1>4, <1>6, <2>1, <2>2 DEF GateInv, GatesInOrder, Early
  <2>4. QED
    BY <1>1, <1>2, <1>3, <2>3, GateType DEF IInv, TypeOK
<1>9. QED
  BY <1>7, <1>8

LEMMA HedgeStep ==
  ASSUME IInv, Hedge
  PROVE  IInv'
<1> USE DEF Agents, Discovery, Advisory, Gates, Verdicts
<1>1. PICK verdict \in Verdicts, pass \in BOOLEAN :
        /\ Ends("hedge", verdict, "finalize")
        /\ WritesPassed("hedge", pass)
  <2>1. CASE \E p \in Pools : /\ Ends("hedge", HedgeVerdict(p), "finalize")
                             /\ WritesPassed("hedge", HedgeVerdict(p) = "proceed")
    BY <2>1 DEF HedgeVerdict
  <2>2. CASE Ends("hedge", "hold", "finalize") /\ WritesPassed("hedge", FALSE)
    BY <2>2
  <2>3. QED
    BY <2>1, <2>2 DEF Hedge
<1>2. pool' \in Pools /\ UNCHANGED <<scout_band, supplier, exit, flagged>>
  BY DEF Hedge, IInv, TypeOK
<1>3. running = {"hedge"} /\ running' = {"finalize"} /\ phase' = "graph"
  BY <1>1, AgentRuns
<1>4. passed = {"compliance", "red_team"} /\ refused = {} /\ ~flagged
  BY <1>3 DEF IInv, GateInv
<1>5. \/ passed' = {"compliance", "red_team", "hedge"} /\ refused' = {}
      \/ passed' = {"compliance", "red_team"} /\ refused' = {"hedge"}
  BY <1>1, <1>4 DEF WritesPassed
<1>6. GateInv'
  BY <1>2, <1>3, <1>4, <1>5 DEF GateInv, GatesInOrder, Early
<1>7. QED
  BY <1>1, <1>2, <1>6, GateType DEF IInv, TypeOK

LEMMA ScoutDecided ==
  ASSUME IInv, phase = "graph", running \cap Discovery = {}
  PROVE  decisions["scout"] \in Verdicts
  BY DEF IInv, TypeOK, JoinInv, Discovery, Agents

LEMMA SupervisorType ==
  ASSUME decisions["scout"] \in Verdicts
  PROVE  [verdict |-> FinalVerdict, priority |-> Priority, halt |-> HaltReason] \in GraphResult
<1>1. FinalVerdict \in Verdicts
  BY DEF FinalVerdict, Verdicts
<1>2. Priority \in Priorities
  BY DEF Priority, Priorities
<1>3. HaltReason \in Halts
  BY DEF HaltReason, Halts
<1>4. QED
  BY <1>1, <1>2, <1>3 DEF GraphResult

LEMMA FinalizeStep ==
  ASSUME IInv, Finalize
  PROVE  IInv'
<1>1. /\ phase = "graph" /\ phase' = "graph" /\ running = {"finalize"} /\ running' = {}
      /\ UNCHANGED <<stateVars, result>>
      /\ final' = [verdict |-> FinalVerdict, priority |-> Priority, halt |-> HaltReason]
  BY DEF Finalize
<1>2. decisions["scout"] \in Verdicts
  BY <1>1, ScoutDecided DEF Discovery
<1>3. final' \in GraphResult
  BY <1>1, <1>2, SupervisorType
<1>4. TypeOK'
  BY <1>1, <1>3 DEF IInv, TypeOK, stateVars
<1>5. JoinInv'
  <2>1. \A a \in Discovery : decisions[a] # "none"
    BY <1>1 DEF IInv, JoinInv, Discovery
  <2>2. QED
    BY <1>1, <2>1 DEF JoinInv, JoinBeforeHistorian, stateVars
<1>6. GateInv'
  BY <1>1 DEF IInv, GateInv, GatesInOrder, stateVars
<1>7. FinalInv'
  <2>1. /\ FinalVerdict' = FinalVerdict /\ Priority' = Priority /\ HaltReason' = HaltReason
    BY <1>1 DEF FinalVerdict, Priority, HaltReason, stateVars
  <2>2. passed = Gates \/ refused # {}
    BY <1>1 DEF IInv, GateInv
  <2>3. result = NoResult /\ result' = NoResult
    BY <1>1 DEF IInv, FinalInv
  <2>4. decisions["scout"] # "none"
    BY <1>2 DEF Verdicts
  <2>5. QED
    BY <1>1, <2>1, <2>2, <2>3, <2>4 DEF FinalInv, stateVars
<1>8. VetoInv'
  BY <1>1 DEF IInv, VetoInv, stateVars
<1>9. QED
  BY <1>4, <1>5, <1>6, <1>7, <1>8 DEF IInv

\* The steps of run_trend leave the state of the graph alone.
LEMMA RunnerStep ==
  ASSUME IInv, UNCHANGED stateVars,
         \/ StartRun \/ CompileFails \/ GraphFails \/ Timeout
         \/ GraphReturns \/ SnapshotEnds
  PROVE  IInv'
<1>1. FinalVerdict' = FinalVerdict /\ Priority' = Priority /\ HaltReason' = HaltReason
  BY DEF FinalVerdict, Priority, HaltReason, stateVars
<1>2. \A h \in {"exception", "timeout"} :
        ExceptionResult(h) \in GraphResult /\ ExceptionResult(h) # NoResult
  BY DEF ExceptionResult, GraphResult, Verdicts, Priorities, Halts, NoResult
<1>3. VetoInv'
  BY DEF IInv, VetoInv, stateVars
<1>4. CASE StartRun
  <2>1. final = NoResult /\ running' = Discovery /\ phase' = "graph" /\ phase = "idle"
    BY <1>4 DEF StartRun, IInv, FinalInv
  <2>2. TypeOK' /\ JoinInv' /\ FinalInv'
    BY <1>4, <2>1 DEF StartRun, IInv, TypeOK, JoinInv, JoinBeforeHistorian, FinalInv,
                      stateVars, Agents, Discovery
  <2>3. GateInv'
    BY <1>4, <2>1 DEF StartRun, IInv, GateInv, GatesInOrder, stateVars, Discovery
  <2>4. QED
    BY <1>3, <2>2, <2>3 DEF IInv
<1>5. ASSUME NEW h \in {"exception", "timeout"}, phase \in {"idle", "graph"}, FailsWith(h)
      PROVE  IInv'
  <2>1. /\ result' = ExceptionResult(h) /\ phase' = "done" /\ running' = {}
        /\ final' = final
    BY <1>5 DEF FailsWith
  <2>2. TypeOK'
    BY <1>2, <2>1 DEF IInv, TypeOK, stateVars
  <2>3. JoinInv'
    BY <2>1 DEF IInv, JoinInv, JoinBeforeHistorian, stateVars
  <2>4. GateInv'
    BY <2>1 DEF IInv, GateInv, GatesInOrder, stateVars
  <2>5. FinalInv'
    <3>1. final' # NoResult =>
            /\ phase' # "idle" /\ running' = {}
            /\ passed' = Gates \/ refused' # {}
            /\ decisions'["scout"] # "none"
            /\ final' = [verdict |-> FinalVerdict', priority |-> Priority', halt |-> HaltReason']
      BY <1>1, <2>1 DEF IInv, FinalInv, stateVars
    <3>2. result' # NoResult
      BY <1>2, <2>1
    <3>3. result' \in {ExceptionResult("exception")', ExceptionResult("timeout")'}
      BY <2>1 DEF ExceptionResult
    <3>4. QED
      BY <2>1, <3>1, <3>2, <3>3 DEF FinalInv
  <2>6. QED
    BY <1>3, <2>2, <2>3, <2>4, <2>5 DEF IInv
<1>6. CASE GraphReturns \/ SnapshotEnds
  <2>1. /\ running' = running /\ final' = final
        /\ phase' \in {"snapshot", "done"}
        /\ \/ phase = "graph" /\ final # NoResult /\ result' = final
           \/ phase = "snapshot" /\ result' = result
    BY <1>6 DEF GraphReturns, SnapshotEnds
  <2>2. TypeOK'
    BY <2>1 DEF IInv, TypeOK, stateVars
  <2>3. running = {}
    BY <2>1 DEF IInv, JoinInv, FinalInv
  <2>4. JoinInv' /\ GateInv'
    BY <2>1, <2>3 DEF IInv, JoinInv, JoinBeforeHistorian, GateInv, GatesInOrder, stateVars
  <2>5. FinalInv'
    BY <1>1, <2>1 DEF IInv, FinalInv, ExceptionResult, stateVars
  <2>6. QED
    BY <1>3, <2>2, <2>4, <2>5 DEF IInv
<1>7. QED
  BY <1>4, <1>5, <1>6 DEF CompileFails, GraphFails, Timeout

LEMMA NextIInv == IInv /\ [Next]_vars => IInv'
<1> SUFFICES ASSUME IInv, [Next]_vars PROVE IInv'
  OBVIOUS
<1>1. CASE AgentEnds
  BY <1>1, DiscoveryStep, SourcingStep, ComplianceStep, RedTeamStep, HedgeStep DEF AgentEnds
<1>2. CASE Finalize
  BY <1>2, FinalizeStep
<1>3. CASE StartRun \/ CompileFails \/ GraphFails \/ Timeout \/ GraphReturns \/ SnapshotEnds
  BY <1>3, RunnerStep DEF StartRun, CompileFails, GraphFails, Timeout, FailsWith,
                          GraphReturns, SnapshotEnds
<1>4. CASE UNCHANGED vars
  BY <1>4 DEF vars, stateVars, IInv, TypeOK, JoinInv, JoinBeforeHistorian, GateInv,
              GatesInOrder, FinalInv, FinalVerdict, Priority, HaltReason,
              ExceptionResult, VetoInv
<1>5. QED
  BY <1>1, <1>2, <1>3, <1>4 DEF Next

LEMMA Invariant == Spec => []IInv
  BY InitIInv, NextIInv, PTL DEF Spec

-------------------------------------------------------------------------------

\* The run is well typed: in particular the supervisor always finds a verdict
\* of SCOUT, and every result is one the GraphResult schema accepts.
THEOREM TypeCorrect == Spec => []TypeOK
<1>1. IInv => TypeOK
  BY DEF IInv
<1>2. QED
  BY <1>1, Invariant, PTL

\* HISTORIAN never starts before the three discovery agents have decided.
THEOREM JoinBeforeHistorianCorrect == Spec => []JoinBeforeHistorian
<1>1. IInv => JoinBeforeHistorian
  BY DEF IInv, JoinInv
<1>2. QED
  BY <1>1, Invariant, PTL

\* No candidate reaches a gate that the gate before it has not passed.
THEOREM GatesInOrderCorrect == Spec => []GatesInOrder
<1>1. IInv => GatesInOrder
  BY DEF IInv, GateInv
<1>2. QED
  BY <1>1, Invariant, PTL

\* P0 is given only to candidates that all gates have passed.
THEOREM BreakoutReviewedCorrect == Spec => []BreakoutReviewed
<1>1. IInv => BreakoutReviewed
  <2> SUFFICES ASSUME IInv, result.priority = "P0_BREAKOUT" PROVE passed = Gates
    BY DEF BreakoutReviewed
  <2>1. final # NoResult /\ result = final
    BY DEF IInv, FinalInv, NoResult, ExceptionResult
  <2>2. Priority = "P0_BREAKOUT"
    BY <2>1 DEF IInv, FinalInv
  <2>3. refused = {}
    BY <2>2 DEF Priority
  <2>4. QED
    BY <2>1, <2>3 DEF IInv, FinalInv
<1>2. QED
  BY <1>1, Invariant, PTL

\* The halt reason and the verdict, computed apart, tell the same story.
THEOREM HaltAgreesWithVerdictCorrect == Spec => []HaltAgreesWithVerdict
<1>1. IInv => HaltAgreesWithVerdict
  <2> SUFFICES ASSUME IInv PROVE HaltAgreesWithVerdict
    OBVIOUS
  <2>1. CASE result = NoResult
    BY <2>1 DEF HaltAgreesWithVerdict, NoResult
  <2>2. CASE result \in {ExceptionResult("exception"), ExceptionResult("timeout")}
    BY <2>2 DEF HaltAgreesWithVerdict, ExceptionResult
  <2>3. CASE final # NoResult /\ result = final
    <3>1. result.verdict = FinalVerdict /\ result.halt = HaltReason
      BY <2>3 DEF IInv, FinalInv
    <3>2. \A a \in {"scout", "sourcer"} : decisions[a] = "block" => a \in blocked_by
      BY DEF IInv, VetoInv, Agents, Discovery, Advisory
    <3>3. QED
      BY <3>1, <3>2 DEF HaltAgreesWithVerdict, FinalVerdict, HaltReason
  <2>4. QED
    BY <2>1, <2>2, <2>3 DEF IInv, FinalInv
<1>2. QED
  BY <1>1, Invariant, PTL

-------------------------------------------------------------------------------
(* The pipeline implements Triage.                                         *)

LEMMA InitRefines == Init => T!Init
<1> SUFFICES ASSUME Init PROVE T!Init
  OBVIOUS
<1>1. decisions["scout"] = "none"
  BY DEF Init, Agents, Discovery
<1>2. Cleared = {} /\ Outcome = "open"
  BY <1>1 DEF Init, Cleared, Outcome
<1>3. QED
  BY <1>2 DEF Init, T!Init

\* An agent that is not a gate of Triage ends: it objects, or nothing that
\* Triage sees changes.
LEMMA AgentRefines ==
  ASSUME IInv, NEW a \in Agents \ (Gates \cup {"scout"}), NEW verdict \in Verdicts,
         NEW next, Ends(a, verdict, next), UNCHANGED <<passed, refused>>
  PROVE  [T!Next]_(T!triageVars)
<1>1. Outcome = "open" /\ Outcome' = "open"
  BY AgentRuns DEF Outcome
<1>2. decisions'["scout"] = decisions["scout"]
  BY DEF Ends, IInv, TypeOK
<1>3. Cleared' = Cleared /\ a \notin Cleared
  BY <1>2 DEF Cleared, IInv, TypeOK
<1>4. blocked_by' = blocked_by \cup Blockers(a, verdict)
  BY DEF Ends
<1>5. CASE verdict = "block" /\ a \notin Advisory
  <2>1. (blocked_by \cup refused)' = (blocked_by \cup refused) \cup {a}
    BY <1>4, <1>5 DEF Blockers
  <2>2. T!Object(a)
    BY <1>1, <1>3, <2>1 DEF T!Object
  <2>3. QED
    BY <1>5, <2>2 DEF T!Next
<1>6. CASE ~(verdict = "block" /\ a \notin Advisory)
  <2>1. (blocked_by \cup refused)' = blocked_by \cup refused
    BY <1>4, <1>6 DEF Blockers
  <2>2. QED
    BY <1>1, <1>3, <2>1 DEF T!triageVars
<1>7. QED
  BY <1>5, <1>6

\* SCOUT ends, once: it clears the candidate, objects to it, or neither.
LEMMA ScoutRefines ==
  ASSUME IInv, NEW verdict \in Verdicts, Ends("scout", verdict, "historian"),
         UNCHANGED <<passed, refused>>
  PROVE  [T!Next]_(T!triageVars)
<1>1. Outcome = "open" /\ Outcome' = "open" /\ "scout" \in running
  BY AgentRuns DEF Outcome, Agents, Discovery
<1>2. decisions["scout"] = "none" /\ "scout" \notin passed
  BY <1>1 DEF IInv, TypeOK, JoinInv, Discovery, Gates
<1>3. decisions'["scout"] = verdict
  BY DEF Ends, IInv, TypeOK, Agents, Discovery
<1>4. /\ Cleared = passed
      /\ Cleared' = IF verdict = "proceed" THEN passed \cup {"scout"} ELSE passed
  BY <1>2, <1>3 DEF Cleared
<1>5. blocked_by' = IF verdict = "block" THEN blocked_by \cup {"scout"} ELSE blocked_by
  BY DEF Ends, Blockers, Advisory
<1>6. CASE verdict = "proceed"
  <2>1. T!Clear("scout")
    BY <1>1, <1>4, <1>5, <1>6 DEF T!Clear
  <2>2. QED
    BY <2>1 DEF T!Next, T!Gates
<1>7. CASE verdict = "block"
  <2>1. (blocked_by \cup refused)' = (blocked_by \cup refused) \cup {"scout"}
    BY <1>5, <1>7
  <2>2. T!Object("scout")
    BY <1>1, <1>2, <1>4, <1>7, <2>1 DEF T!Object
  <2>3. QED
    BY <2>2 DEF T!Next, Agents, Discovery, Advisory
<1>8. CASE verdict = "hold"
  BY <1>1, <1>4, <1>5, <1>8 DEF T!triageVars
<1>9. QED
  BY <1>6, <1>7, <1>8 DEF Verdicts

\* A gate ends: it clears the candidate or objects to it.
LEMMA GateRefines ==
  ASSUME IInv, NEW g \in Gates, NEW verdict \in Verdicts, NEW next, NEW pass \in BOOLEAN,
         Ends(g, verdict, next), WritesPassed(g, pass), pass => verdict # "block"
  PROVE  [T!Next]_(T!triageVars)
<1> g \in Agents /\ g \notin Advisory /\ g # "scout"
  BY DEF Agents, Gates, Advisory
<1>1. Outcome = "open" /\ Outcome' = "open" /\ g \in running
  BY AgentRuns DEF Outcome
<1>2. decisions'["scout"] = decisions["scout"]
  BY DEF Ends, IInv, TypeOK
<1>3. blocked_by' = IF verdict = "block" THEN blocked_by \cup {g} ELSE blocked_by
  BY DEF Ends, Blockers
<1>4. g \notin Cleared
  BY <1>1 DEF Cleared, IInv, GateInv, Early, Agents, Gates
<1>5. CASE pass = TRUE
  <2>1. Cleared' = Cleared \cup {g} /\ (blocked_by \cup refused)' = blocked_by \cup refused
    BY <1>2, <1>3, <1>5 DEF Cleared, WritesPassed
  <2>2. (g = "red_team" => "compliance" \in Cleared) /\ (g = "hedge" => "red_team" \in Cleared)
    BY <1>1 DEF IInv, GateInv, Cleared
  <2>3. T!Clear(g)
    BY <1>1, <2>1, <2>2 DEF T!Clear
  <2>4. QED
    BY <2>3 DEF T!Next, T!Gates, Gates
<1>6. CASE pass = FALSE
  <2>1. Cleared' = Cleared /\ (blocked_by \cup refused)' = (blocked_by \cup refused) \cup {g}
    BY <1>2, <1>3, <1>6 DEF Cleared, WritesPassed
  <2>2. T!Object(g)
    BY <1>1, <1>4, <2>1 DEF T!Object
  <2>3. QED
    BY <2>2 DEF T!Next
<1>7. QED
  BY <1>5, <1>6

LEMMA AgentEndsRefines ==
  ASSUME IInv, AgentEnds
  PROVE  [T!Next]_(T!triageVars)
<1> USE DEF Agents, Discovery, Advisory, Gates
<1>1. CASE Scout
  <2>1. PICK verdict \in Verdicts : Ends("scout", verdict, "historian")
    BY <1>1 DEF Scout, ScoutVerdict, Verdicts
  <2>2. QED
    BY <1>1, <2>1, ScoutRefines DEF Scout
<1>2. CASE GeoArbitrage \/ Narrative \/ Historian \/ Sourcer \/ Auditor \/ Sentinel
  <2>1. PICK a \in {"geo_arbitrage", "narrative", "historian", "sourcer", "auditor", "sentinel"},
             verdict \in Verdicts :
               \E next : Ends(a, verdict, next)
    BY <1>2 DEF GeoArbitrage, Narrative, Historian, Sourcer, Auditor, Sentinel, Advise, Verdicts
  <2>2. UNCHANGED <<passed, refused>>
    BY <1>2 DEF GeoArbitrage, Narrative, Historian, Sourcer, Auditor, Sentinel, Advise
  <2>3. QED
    BY <2>1, <2>2, AgentRefines
<1>3. CASE Compliance
  <2>1. PICK verdict \in Verdicts :
          /\ Ends("compliance", verdict, PostComplianceRoute(CompliancePasses(verdict)))
          /\ WritesPassed("compliance", CompliancePasses(verdict))
    BY <1>3 DEF Compliance
  <2>2. CompliancePasses(verdict) \in BOOLEAN /\ (CompliancePasses(verdict) => verdict # "block")
    BY DEF CompliancePasses
  <2>3. QED
    BY <2>1, <2>2, GateRefines
<1>4. CASE RedTeam
  <2>1. PICK verdict \in Verdicts, pass \in BOOLEAN :
          /\ Ends("red_team", verdict, PostRedTeamRoute(pass))
          /\ WritesPassed("red_team", pass)
          /\ pass => verdict # "block"
    BY <1>4 DEF RedTeam, RedTeamVerdict, Verdicts
  <2>2. QED
    BY <2>1, GateRefines
<1>5. CASE Hedge
  <2>1. PICK verdict \in Verdicts, pass \in BOOLEAN :
          /\ Ends("hedge", verdict, "finalize")
          /\ WritesPassed("hedge", pass)
          /\ pass => verdict # "block"
    <3>1. CASE \E p \in Pools : /\ Ends("hedge", HedgeVerdict(p), "finalize")
                               /\ WritesPassed("hedge", HedgeVerdict(p) = "proceed")
      BY <3>1 DEF HedgeVerdict, Verdicts
    <3>2. CASE Ends("hedge", "hold", "finalize") /\ WritesPassed("hedge", FALSE)
      BY <3>2 DEF Verdicts
    <3>3. QED
      BY <1>5, <3>1, <3>2 DEF Hedge
  <2>2. QED
    BY <2>1, GateRefines
<1>6. QED
  BY <1>1, <1>2, <1>3, <1>4, <1>5 DEF AgentEnds

\* The result of run_trend decides; its other steps are not seen.
LEMMA RunnerRefines ==
  ASSUME IInv, UNCHANGED <<decisions, blocked_by, passed, refused>>,
         \/ Finalize \/ StartRun \/ CompileFails \/ GraphFails \/ Timeout
         \/ GraphReturns \/ SnapshotEnds
  PROVE  [T!Next]_(T!triageVars)
<1>1. Cleared' = Cleared /\ (blocked_by \cup refused)' = blocked_by \cup refused
  BY DEF Cleared
<1>2. CASE Finalize \/ StartRun \/ SnapshotEnds
  BY <1>1, <1>2 DEF Finalize, StartRun, SnapshotEnds, Outcome, T!triageVars
<1>3. CASE CompileFails \/ GraphFails \/ Timeout
  <2>1. Outcome = "open" /\ Outcome' = "hold"
    BY <1>3 DEF CompileFails, GraphFails, Timeout, FailsWith, IInv, FinalInv, Outcome,
                ExceptionResult, NoResult
  <2>2. T!Decide("hold")
    BY <1>1, <2>1 DEF T!Decide
  <2>3. QED
    BY <2>2 DEF T!Next
<1>4. CASE GraphReturns
  <2>1. final # NoResult /\ result' = final /\ result = NoResult
    BY <1>4 DEF GraphReturns, IInv, FinalInv
  <2>2. Outcome = "open" /\ Outcome' = FinalVerdict
    BY <2>1 DEF Outcome, IInv, FinalInv
  <2>3. passed = Gates \/ refused # {}
    BY <2>1 DEF IInv, FinalInv
  <2>4. decisions["scout"] \in Verdicts
    BY <2>1 DEF IInv, TypeOK, FinalInv, Agents, Discovery
  <2>5. FinalVerdict = "proceed" => Cleared = T!Gates /\ blocked_by \cup refused = {}
    BY <2>3 DEF FinalVerdict, Cleared, Gates, T!Gates
  <2>6. FinalVerdict = "block" => blocked_by \cup refused # {}
    BY DEF FinalVerdict, IInv, VetoInv, Agents, Discovery, Advisory
  <2>7. T!Decide(FinalVerdict)
    BY <1>1, <2>2, <2>5, <2>6 DEF T!Decide
  <2>8. FinalVerdict \in {"proceed", "hold", "block"}
    BY <2>4 DEF FinalVerdict, Verdicts
  <2>9. QED
    BY <2>7, <2>8 DEF T!Next
<1>5. QED
  BY <1>2, <1>3, <1>4

\* Every run of the pipeline is a run of Triage: whatever fails or times out,
\* a candidate proceeds only past all four gates and with no objection.
THEOREM ImplementsTriage == Spec => TriageSpec
<1>1. Init => T!Init
  BY InitRefines
<1>2. IInv /\ [Next]_vars => [T!Next]_(T!triageVars)
  <2> SUFFICES ASSUME IInv, [Next]_vars PROVE [T!Next]_(T!triageVars)
    OBVIOUS
  <2>1. CASE AgentEnds
    BY <2>1, AgentEndsRefines
  <2>2. CASE \/ Finalize \/ StartRun \/ CompileFails \/ GraphFails \/ Timeout
             \/ GraphReturns \/ SnapshotEnds
    <3>1. UNCHANGED <<decisions, blocked_by, passed, refused>>
      BY <2>2 DEF Finalize, StartRun, CompileFails, GraphFails, Timeout, FailsWith,
                  GraphReturns, SnapshotEnds, stateVars
    <3>2. QED
      BY <2>2, <3>1, RunnerRefines
  <2>3. CASE UNCHANGED vars
    BY <2>3 DEF vars, stateVars, T!triageVars, Cleared, Outcome
  <2>4. QED
    BY <2>1, <2>2, <2>3 DEF Next
<1>3. QED
  BY <1>1, <1>2, Invariant, PTL DEF Spec, TriageSpec, T!Spec

-------------------------------------------------------------------------------
(* The graph has no way back: what the end of a run rests on, its time      *)
(* limit apart.                                                             *)

\* The place of a node on the way through the graph.
Stage(n) ==
  IF n \in Discovery THEN 0
  ELSE CASE n = "historian" -> 1 [] n = "sourcer" -> 2 [] n = "auditor" -> 3
         [] n = "sentinel" -> 4 [] n = "compliance" -> 5 [] n = "red_team" -> 6
         [] n = "hedge" -> 7 [] OTHER -> 8

\* The agents that have decided lie behind the nodes that run.
Behind ==
  \A a \in Agents : decisions[a] # "none" =>
    /\ phase # "idle" /\ a \notin running
    /\ \A n \in running : Stage(a) <= Stage(n)

\* A verdict is given once: an agent that ends had none before, and a verdict
\* is neither changed nor asked for again, whatever fails or times out.  A run
\* sees the end of at most ten agents.
VerdictsStand ==
  [][/\ \A a \in Agents : decisions[a] # "none" =>
          decisions'[a] = decisions[a] /\ a \notin running'
     /\ AgentEnds => \E a \in Agents : decisions[a] = "none" /\ decisions'[a] # "none"]_vars

LEMMA StageType ==
  /\ \A n \in Agents \cup {"finalize"} : Stage(n) \in Nat
  /\ \A n \in Discovery : Stage(n) = 0
  BY DEF Stage, Discovery, Agents, Advisory, Gates

\* The edges of build_graph lead onwards.
LEMMA Onwards ==
  ASSUME AgentEnds
  PROVE  \E a \in Agents, verdict \in Verdicts, next \in Agents \cup {"finalize"} :
           Ends(a, verdict, next) /\ Stage(a) < Stage(next)
<1> USE DEF Stage, Agents, Discovery, Advisory, Gates, Verdicts
<1>1. CASE Scout \/ GeoArbitrage \/ Narrative
  BY <1>1 DEF Scout, ScoutVerdict, GeoArbitrage, Narrative, Advise
<1>2. CASE Historian \/ Sourcer \/ Auditor \/ Sentinel
  BY <1>2 DEF Historian, Sourcer, Auditor, Sentinel, Advise, PostHistorianRoute, PostSourcerRoute
<1>3. CASE Compliance
  BY <1>3 DEF Compliance, PostComplianceRoute
<1>4. CASE RedTeam
  <2>1. PICK verdict \in Verdicts, pass \in BOOLEAN :
          Ends("red_team", verdict, PostRedTeamRoute(pass))
    BY <1>4 DEF RedTeam, RedTeamVerdict
  <2>2. PostRedTeamRoute(pass) \in {"hedge", "finalize"}
    BY DEF PostRedTeamRoute
  <2>3. Stage("red_team") < Stage(PostRedTeamRoute(pass))
    BY <2>2
  <2>4. QED
    BY <2>1, <2>2, <2>3
<1>5. CASE Hedge
  <2>1. PICK verdict \in Verdicts : Ends("hedge", verdict, "finalize")
    BY <1>5 DEF Hedge, HedgeVerdict
  <2>2. Stage("hedge") < Stage("finalize")
    OBVIOUS
  <2>3. QED
    BY <2>1, <2>2
<1>6. QED
  BY <1>1, <1>2, <1>3, <1>4, <1>5 DEF AgentEnds

\* An agent that ends had not decided, and lies behind what runs after it.
LEMMA EndsBehind ==
  ASSUME IInv, Behind, NEW a \in Agents, NEW verdict \in Verdicts,
         NEW next \in Agents \cup {"finalize"}, Stage(a) < Stage(next), Ends(a, verdict, next)
  PROVE  /\ Behind'
         /\ decisions[a] = "none" /\ decisions'[a] # "none"
         /\ \A b \in Agents \ {a} : decisions'[b] = decisions[b]
<1>1. /\ decisions' = [decisions EXCEPT ![a] = verdict] /\ a \in running
      /\ decisions \in [Agents -> Verdicts \cup {"none"}]
      /\ running' = IF running = {a} THEN {next} ELSE running \ {a}
      /\ phase' = "graph"
  BY AgentRuns DEF Ends, Successors, IInv, TypeOK
<1>2. decisions[a] = "none" /\ decisions'[a] # "none"
  BY <1>1 DEF Behind, Verdicts
<1>3. \A b \in Agents \ {a} : decisions'[b] = decisions[b]
  BY <1>1
<1>4. ASSUME NEW b \in Agents, decisions'[b] # "none"
      PROVE  b \notin running' /\ \A n \in running' : Stage(b) <= Stage(n)
  <2>1. b = a \/ (decisions[b] # "none" /\ b \notin running /\ \A n \in running : Stage(b) <= Stage(n))
    BY <1>3, <1>4 DEF Behind
  <2>2. /\ Stage(a) \in Nat /\ Stage(b) \in Nat /\ Stage(next) \in Nat
    BY StageType
  <2>3. Stage(b) <= Stage(a)
    BY <1>1, <2>1, <2>2
  <2>4. CASE running = {a}
    <3>1. running' = {next} /\ Stage(b) < Stage(next)
      BY <1>1, <2>2, <2>3, <2>4
    <3>2. QED
      BY <2>2, <3>1
  <2>5. CASE running # {a}
    <3>1. running' = running \ {a} /\ running \subseteq Discovery
      BY <1>1, <2>5, AgentRuns
    <3>2. \A n \in running' : Stage(n) = 0 /\ Stage(a) = 0
      BY <1>1, <3>1, StageType
    <3>3. QED
      BY <2>1, <2>2, <2>3, <3>1, <3>2
  <2>6. QED
    BY <2>4, <2>5
<1>5. QED
  BY <1>1, <1>2, <1>3, <1>4 DEF Behind

LEMMA BehindStep ==
  IInv /\ Behind /\ [Next]_vars =>
    /\ Behind'
    /\ [/\ \A a \in Agents : decisions[a] # "none" =>
             decisions'[a] = decisions[a] /\ a \notin running'
        /\ AgentEnds => \E a \in Agents : decisions[a] = "none" /\ decisions'[a] # "none"]_vars
<1> SUFFICES ASSUME IInv, Behind, [Next]_vars
             PROVE  /\ Behind'
                    /\ [/\ \A a \in Agents : decisions[a] # "none" =>
                             decisions'[a] = decisions[a] /\ a \notin running'
                        /\ AgentEnds =>
                             \E a \in Agents : decisions[a] = "none" /\ decisions'[a] # "none"]_vars
  OBVIOUS
<1>1. CASE AgentEnds
  <2>1. PICK a \in Agents, verdict \in Verdicts, next \in Agents \cup {"finalize"} :
               Ends(a, verdict, next) /\ Stage(a) < Stage(next)
    BY <1>1, Onwards
  <2>2. /\ Behind' /\ decisions[a] = "none" /\ decisions'[a] # "none"
        /\ \A b \in Agents \ {a} : decisions'[b] = decisions[b]
    BY <2>1, EndsBehind
  <2>3. \A b \in Agents : decisions[b] # "none" => decisions'[b] = decisions[b]
    BY <2>2
  <2>4. \A b \in Agents : decisions[b] # "none" => b \notin running'
    BY <2>2, <2>3 DEF Behind
  <2>5. QED
    BY <2>2, <2>3, <2>4
<1>2. ASSUME ~AgentEnds, decisions' = decisions, running' \subseteq running, phase' # "idle"
      PROVE  /\ Behind'
             /\ \A a \in Agents : decisions[a] # "none" =>
                  decisions'[a] = decisions[a] /\ a \notin running'
  BY <1>2 DEF Behind
<1>3. CASE ~AgentEnds /\ StartRun
  <2>1. \A a \in Agents : decisions'[a] = "none"
    BY <1>3 DEF StartRun, Behind, stateVars, IInv, TypeOK
  <2>2. \A a \in Agents : decisions[a] = "none"
    BY <1>3 DEF StartRun, Behind
  <2>3. QED
    BY <1>3, <2>1, <2>2 DEF Behind
<1>4. CASE ~AgentEnds /\ (Finalize \/ CompileFails \/ GraphFails \/ Timeout \/ GraphReturns
                            \/ SnapshotEnds)
  <2>1. decisions' = decisions /\ running' \subseteq running /\ phase' # "idle"
    BY <1>4 DEF Finalize, CompileFails, GraphFails, Timeout, FailsWith, GraphReturns,
                SnapshotEnds, stateVars
  <2>2. QED
    BY <1>2, <1>4, <2>1
<1>5. CASE UNCHANGED vars
  BY <1>5 DEF vars, stateVars, Behind
<1>6. QED
  BY <1>1, <1>3, <1>4, <1>5 DEF Next

\* No agent decides twice in a run, and none that has decided runs again.
THEOREM VerdictsStandCorrect == Spec => VerdictsStand
<1>1. Init => Behind
  BY DEF Init, Behind
<1>2. IInv /\ Behind /\ [Next]_vars => Behind'
  BY BehindStep
<1>3. IInv /\ Behind /\ [Next]_vars =>
        [/\ \A a \in Agents : decisions[a] # "none" =>
              decisions'[a] = decisions[a] /\ a \notin running'
         /\ AgentEnds =>
              \E a \in Agents : decisions[a] = "none" /\ decisions'[a] # "none"]_vars
  BY BehindStep
<1>4. QED
  BY <1>1, <1>2, <1>3, Invariant, PTL DEF Spec, VerdictsStand

===============================================================================
