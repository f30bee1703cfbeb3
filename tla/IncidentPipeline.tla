-------------------------- MODULE IncidentPipeline -------------------------
(***************************************************************************)
(* The whole Incident pipeline: the receiver, the incident workers and the *)
(* agent workers over one database, with leases that expire and processes  *)
(* that die.  The workers share nothing but the database.                  *)
(***************************************************************************)
EXTENDS IncidentWorker, AgentWorker

vars == <<storeVars, iw, aw>>

Init ==
    /\ StoreInit
    /\ IncidentWorkerInit
    /\ AgentWorkerInit

ReceiveAlert(i) == Receive(i) /\ UNCHANGED <<iw, aw>>

ExpireLease(s, i) == Expire(s, i) /\ UNCHANGED <<iw, aw>>

RunIncidentWorker(w) == IncidentWorkerStep(w) /\ UNCHANGED aw

RunAgent(a) == AgentStep(a) /\ UNCHANGED iw

Crash ==
    \/ \E w \in IncidentWorkers : CrashIncidentWorker(w) /\ UNCHANGED aw
    \/ \E a \in Agents : CrashAgentWorker(a) /\ UNCHANGED iw

Next ==
    \/ \E i \in Incidents : ReceiveAlert(i)
    \/ \E s \in Stages, i \in Incidents : ExpireLease(s, i)
    \/ \E w \in IncidentWorkers : RunIncidentWorker(w)
    \/ \E a \in Agents : RunAgent(a)
    \/ Crash

Spec == Init /\ [][Next]_vars

(* Both services are loops that Kubernetes restarts, so each keeps taking  *)
(* steps; a targeted run takes steps once the operator has started it; and *)
(* the clock passes every lease.  Nothing says that an alert arrives or    *)
(* that a call succeeds.                                                   *)
Fairness ==
    /\ \A w \in IncidentWorkers : WF_vars(RunIncidentWorker(w))
    /\ \A a \in ContinuousAgents : WF_vars(RunAgent(a))
    /\ \A a \in TargetedAgents : WF_vars(HoldsAnalysis(a) /\ RunAgent(a))
    /\ \A s \in Stages, i \in Incidents : WF_vars(ExpireLease(s, i))

FairSpec == Spec /\ Fairness

-----------------------------------------------------------------------------
TypeOK ==
    /\ StoreTypeOK
    /\ iw \in [IncidentWorkers -> IncidentWorkerState]
    /\ aw \in [Agents -> AgentWorkerState]

(* What a settled row says is what became of the Incident, whichever of    *)
(* complete, fail and the reaper settled it and in whatever order the      *)
(* workers' other transactions came.                                       *)
SettledWorkMatchesIncident ==
    \A i \in Incidents :
        /\ work["collection"][i].state = "SUCCEEDED" =>
                status[i] \notin {"NEW", "RECEIVED", "COLLECTING"}
        /\ work["localization"][i].state = "SUCCEEDED" =>
                /\ status[i] \in {"ANALYZING"} \cup LC!Terminal
                /\ pinned[i] \in contexts[i]
        /\ work["analysis"][i].state = "SUCCEEDED" => status[i] = "REPORTED"
        /\ \A s \in Stages : work[s][i].state = "FAILED" => status[i] = "FAILED"

(* Two workers never hold the same claim, even after expiry, reclaiming,   *)
(* renewal and restarts: the fencing token of one of them is stale.        *)
ExclusiveClaims ==
    /\ \A v, w \in IncidentWorkers :
        /\ v # w
        /\ HoldsIncident(v) /\ HoldsIncident(w)
        /\ iw[v].incident = iw[w].incident
        /\ StageOf(iw[v].pc) = StageOf(iw[w].pc)
        => iw[v].claim # iw[w].claim
    /\ \A a, b \in Agents :
        /\ a # b
        /\ HoldsAnalysis(a) /\ HoldsAnalysis(b)
        /\ aw[a].incident = aw[b].incident
        => aw[a].claim # aw[b].claim

(* What the claims in the workers' hands have to do with the rows, and the *)
(* Context a worker has stored with the transition it makes next: together *)
(* with StoreInv this makes the invariants above inductive.                *)
ClaimsAreIssued ==
    /\ \A w \in IncidentWorkers :
        HoldsIncident(w) =>
            iw[w].claim <= work[StageOf(iw[w].pc)][iw[w].incident].attempts
    /\ \A a \in Agents :
        HoldsAnalysis(a) => aw[a].claim <= work["analysis"][aw[a].incident].attempts

LeavesAfterFreezing ==
    \A w \in IncidentWorkers :
        At(w, "leave_localizing") => iw[w].claim \in contexts[iw[w].incident]

PipelineInv ==
    /\ TypeOK
    /\ StoreInv
    /\ ExclusiveClaims
    /\ ClaimsAreIssued
    /\ LeavesAfterFreezing

(* Every stored report comes from a run whose accepted audit is stored and *)
(* cites the one Context the Incident's analysis is pinned to; a REPORTED  *)
(* Incident has such a report.                                             *)
ReportsAreBacked ==
    \A i \in Incidents :
        /\ \A r \in reports[i] :
            /\ r.context = pinned[i]
            /\ audits[i][r.claim] = "SUCCEEDED"
        /\ status[i] = "REPORTED" => reports[i] # {}

(* What makes the two invariants above inductive.  In the database: the     *)
(* analysis is pinned to a stored Context, a localized Incident and one     *)
(* with a report have been enqueued for it, reports carry claims that were  *)
(* handed out, and nothing is ever PARTIAL.  In the workers' hands: what    *)
(* each has stored before the step it takes next.                          *)
RecordsAgree ==
    \A i \in Incidents :
        /\ status[i] # "PARTIAL"
        /\ work["analysis"][i].state # "ABSENT" => pinned[i] \in contexts[i]
        /\ work["localization"][i].state = "SUCCEEDED" \/ reports[i] # {} =>
                work["analysis"][i].state # "ABSENT"
        /\ \A r \in reports[i] : r.claim \in 1..MaxAttempts

WorkersHaveStored ==
    /\ \A w \in IncidentWorkers :
        At(w, "complete_collection") /\ iw[w].run = "FAILED" => status[iw[w].incident] = "FAILED"
    /\ \A a \in Agents :
        HoldsAnalysis(a) =>
            /\ aw[a].context = pinned[aw[a].incident]
            /\ AgentAt(a, "store_report") => audits[aw[a].incident][aw[a].claim] = "SUCCEEDED"
            /\ AgentAt(a, "leave_analyzing") => reports[aw[a].incident] # {}

HistoryInv ==
    /\ SettledWorkMatchesIncident
    /\ ReportsAreBacked
    /\ RecordsAgree
    /\ WorkersHaveStored

(* A collection in which no source had anything to report moves its         *)
(* Incident on to LOCALIZING all the same, but no further: an Incident that *)
(* is analysed or reported on, one whose candidates were collected and any  *)
(* report rest on stored Evidence, and no stale attempt takes it away.      *)
AnalysesRestOnEvidence ==
    \A i \in Incidents :
        \/ status[i] \in {"ANALYZING", "REPORTED"}
        \/ checkpoint[i] # 0
        \/ reports[i] # {}
        => evidence[i] # {}

(* What makes it inductive: a Context is frozen from Evidence.              *)
FrozenFromEvidence ==
    \A i \in Incidents : contexts[i] # {} \/ checkpoint[i] # 0 => evidence[i] # {}

(* While a lease is live only its holder can touch the row: a reclaim, a   *)
(* reap, a completion or a failure by anyone else waits for the expiry.    *)
LiveLeaseProtects ==
    [][\A s \in Stages, i \in Incidents :
            work[s][i].lease = "live" /\ work'[s][i] # work[s][i] =>
                \/ work'[s][i] = [work[s][i] EXCEPT !.lease = "expired"]
                \/ \E w \in IncidentWorkers :
                    /\ HoldsIncident(w) /\ iw'[w] # iw[w]
                    /\ StageOf(iw[w].pc) = s /\ iw[w].incident = i
                    /\ iw[w].claim = work[s][i].attempts
                \/ \E a \in Agents :
                    /\ HoldsAnalysis(a) /\ aw'[a] # aw[a]
                    /\ s = "analysis" /\ aw[a].incident = i
                    /\ aw[a].claim = work[s][i].attempts]_vars

(* The Context an Incident is analysed from is chosen once: a second       *)
(* localization, a late Context or a retried analysis never replaces it.   *)
PinnedContextIsFixed ==
    [][\A i \in Incidents : pinned[i] # 0 => pinned'[i] = pinned[i]]_vars

(* A settled row never goes back to work and is never settled differently. *)
SettledWorkIsFinal ==
    [][\A s \in Stages, i \in Incidents :
            work[s][i].state \in Settled => work'[s][i] = work[s][i]]_vars

(* The pipeline implements the promise made about every Incident.          *)
ImplementsLifecycle == LC!Spec

Memory == INSTANCE MemoryAdapters WITH items <- work

(* Every transaction the pipeline commits is a call the in-memory adapters *)
(* would have answered in the same way (a move or a Context together with  *)
(* the enqueueing the triggers do): what the tests of the services see on  *)
(* the adapters is all the database can do, with any number of stale       *)
(* workers, expired leases and repeated calls.                             *)
DatabaseActsAsMemory == Memory!Spec

(* Every Incident the continuous agent may analyse ends, through any       *)
(* number of crashes, failing calls and lost leases.                       *)
IncidentsEnd ==
    \A i \in Eligible : status[i] = "RECEIVED" ~> status[i] \in LC!Terminal

(* No row stays RUNNING for ever once its worker is gone: claimed          *)
(* collection work and analysis work is always settled.                    *)
ClaimedWorkSettles ==
    \A i \in Eligible, s \in {"collection", "analysis"} :
        work[s][i].state = "RUNNING" ~> work[s][i].state \in Settled

(* The same of localization work, as the tests of the reaper have it:      *)
(* test_reaper_recovers_committed_localization.  It does not hold once the *)
(* agent has moved the Incident to REPORTED.                               *)
LocalizationWorkSettles ==
    \A i \in Eligible :
        work["localization"][i].state = "RUNNING"
            ~> work["localization"][i].state \in Settled

=============================================================================
