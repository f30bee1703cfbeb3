---------------------------- MODULE AgentWorker ----------------------------
(***************************************************************************)
(* tools/run_agent_worker.py and AgentRCAService.run of agent_rca.py.  A   *)
(* continuous worker loops: it reaps and claims, among the Incidents that  *)
(* opted in (eligibility label and activation time).  A targeted worker    *)
(* (AGENT_WORKER_RUN_ONCE) claims the one Incident the operator names,     *)
(* opted in or not, and never reaps.  Both analyse the Context their claim *)
(* is pinned to.                                                           *)
(***************************************************************************)
EXTENDS IncidentStore

CONSTANTS
    ContinuousAgents,
    TargetedAgents,
    Eligible        \* Incidents the continuous worker may touch

ASSUME EligibleAssumption == Eligible \subseteq Incidents
ASSUME AgentsAssumption == ContinuousAgents \cap TargetedAgents = {}

VARIABLE aw     \* [Agents -> worker state]

Agents == ContinuousAgents \cup TargetedAgents

AnalysisSteps == {"check_analyzing", "investigate", "store_agent_run", "store_report",
                  "leave_analyzing", "store_failure_audit", "mark_analysis_failed",
                  "complete_analysis", "fail_analysis"}

AgentWorkerState ==
    [pc : {"idle", "claim_analysis"}, incident : {NoIncident}, claim : {0}, context : {0}]
    \cup [pc : AnalysisSteps, incident : Incidents, claim : Nat \ {0}, context : Nat]

Idle == [pc |-> "idle", incident |-> NoIncident, claim |-> 0, context |-> 0]

AgentWorkerInit == aw = [a \in Agents |-> Idle]

HoldsAnalysis(a) == aw[a].pc \in AnalysisSteps

-----------------------------------------------------------------------------
AgentAt(a, step) == aw[a].pc = step

AgentGoto(a, step) == aw' = [aw EXCEPT ![a].pc = step]

AgentIdle(a) == aw' = [aw EXCEPT ![a] = Idle]

\* Mutant: the worker takes the newest Context instead of the pinned one.
BeginAnalysisNewest(a, i) ==
    aw' = [aw EXCEPT ![a] = [pc |-> "check_analyzing", incident |-> i,
                             claim |-> work["analysis"][i].attempts + 1,
                             context |-> CHOOSE c \in contexts[i] :
                                            \A d \in contexts[i] : d <= c]]

BeginAnalysis(a, i) ==
    aw' = [aw EXCEPT ![a] = [pc |-> "check_analyzing", incident |-> i,
                             claim |-> work["analysis"][i].attempts + 1,
                             context |-> pinned[i]]]

AgentRaise(a, handler) == AgentGoto(a, handler) /\ UNCHANGED storeVars

AgentReturn(a, step, handler) == AgentGoto(a, step) \/ AgentGoto(a, handler)

-----------------------------------------------------------------------------
ReapAnalysis(a) ==
    /\ a \in ContinuousAgents
    /\ AgentAt(a, "idle")
    /\ \E b \in ReapBatches({i \in Eligible : Reapable("analysis", i)}) : Reap("analysis", b)
    /\ AgentGoto(a, "claim_analysis")

ClaimNextEligible(a) ==
    /\ AgentAt(a, "claim_analysis")
    /\ \/ \E i \in Eligible : Claim("analysis", i) /\ BeginAnalysis(a, i)
       \/ /\ \A i \in Eligible : ~Claimable("analysis", i)
          /\ AgentIdle(a)
          /\ UNCHANGED storeVars

(* The operator starts a one-shot worker for one Incident.                 *)
ClaimIncident(a) ==
    /\ a \in TargetedAgents
    /\ AgentAt(a, "idle")
    /\ \E i \in Incidents : Claim("analysis", i) /\ BeginAnalysis(a, i)

-----------------------------------------------------------------------------
(* AgentRCAService.run: these checks precede the try block, so a failure   *)
(* here marks nothing.                                                     *)
CheckAnalyzing(a) ==
    LET i == aw[a].incident IN
    /\ AgentAt(a, "check_analyzing")
    /\ \/ /\ status[i] = "ANALYZING"
          /\ aw[a].context \in contexts[i]
          /\ AgentGoto(a, "investigate")
       \/ AgentGoto(a, "fail_analysis")
    /\ UNCHANGED storeVars

(* Candidates, retrieval, the model and the Evidence Gate.  An error       *)
(* before the tool runtime exists leaves no audit.                         *)
Investigate(a) ==
    /\ AgentAt(a, "investigate")
    /\ \E step \in {"store_agent_run", "store_failure_audit", "mark_analysis_failed"} :
            AgentGoto(a, step)
    /\ UNCHANGED storeVars

\* Mutant: the Incident is REPORTED before its report is stored.
StoreAcceptedRunLast(a) ==
    /\ AgentAt(a, "store_agent_run")
    /\ \/ /\ StoreAgentRun(aw[a].incident, aw[a].claim, "SUCCEEDED")
          /\ AgentReturn(a, "leave_analyzing", "store_failure_audit")
       \/ AgentRaise(a, "store_failure_audit")

StoreAcceptedRun(a) ==
    /\ AgentAt(a, "store_agent_run")
    /\ \/ /\ StoreAgentRun(aw[a].incident, aw[a].claim, "SUCCEEDED")
          /\ AgentReturn(a, "store_report", "store_failure_audit")
       \/ AgentRaise(a, "store_failure_audit")

StoreAcceptedReport(a) ==
    /\ AgentAt(a, "store_report")
    /\ \/ /\ StoreReport(aw[a].incident, aw[a].claim, aw[a].context)
          /\ AgentReturn(a, "leave_analyzing", "store_failure_audit")
       \/ AgentRaise(a, "store_failure_audit")

LeaveAnalyzing(a) ==
    /\ AgentAt(a, "leave_analyzing")
    /\ \/ /\ Transition(aw[a].incident, "ANALYZING", "REPORTED")
          /\ AgentReturn(a, "complete_analysis", "store_failure_audit")
       \/ AgentRaise(a, "store_failure_audit")

(* _store_failure_audit swallows every error, the collision with an        *)
(* already stored SUCCEEDED audit included.                                *)
StoreFailureAudit(a) ==
    /\ AgentAt(a, "store_failure_audit")
    /\ \/ StoreAgentRun(aw[a].incident, aw[a].claim, "REJECTED")
       \/ UNCHANGED storeVars
    /\ AgentGoto(a, "mark_analysis_failed")

MarkAnalysisFailed(a) ==
    /\ AgentAt(a, "mark_analysis_failed")
    /\ \/ Transition(aw[a].incident, "ANALYZING", "FAILED")
       \/ UNCHANGED storeVars
    /\ AgentGoto(a, "fail_analysis")

(* A completion that raises is left to the reaper: the Incident is already *)
(* REPORTED and must not be moved backwards.                               *)
CompleteAnalysis(a) ==
    /\ AgentAt(a, "complete_analysis")
    /\ \/ Complete("analysis", aw[a].incident, aw[a].claim, "SUCCEEDED")
       \/ UNCHANGED storeVars
    /\ AgentIdle(a)

FailAnalysis(a) ==
    /\ AgentAt(a, "fail_analysis")
    /\ \/ Fail("analysis", aw[a].incident, aw[a].claim)
       \/ UNCHANGED storeVars
    /\ AgentIdle(a)

CrashAgentWorker(a) ==
    /\ HoldsAnalysis(a)
    /\ AgentIdle(a)
    /\ UNCHANGED storeVars

AgentStep(a) ==
    \/ ReapAnalysis(a) \/ ClaimNextEligible(a) \/ ClaimIncident(a)
    \/ CheckAnalyzing(a) \/ Investigate(a) \/ StoreAcceptedRun(a)
    \/ StoreAcceptedReport(a) \/ LeaveAnalyzing(a) \/ StoreFailureAudit(a)
    \/ MarkAnalysisFailed(a) \/ CompleteAnalysis(a) \/ FailAnalysis(a)
=============================================================================
