--------------------------- MODULE IncidentWorker --------------------------
(***************************************************************************)
(* tools/run_incident_worker.py: one process_one loop per worker, which    *)
(* reaps, claims localization work before collection work, and runs the    *)
(* collection service (collectors.py) or the localization service          *)
(* (localization.py) as a series of separate transactions.  Each action is *)
(* one transaction, or the local decision between two of them.             *)
(*                                                                         *)
(* Every repository call may also raise (a lost connection, a contract     *)
(* violation): the code then goes to its except branch.  A write whose     *)
(* acknowledgement is lost has happened and raises all the same.           *)
(***************************************************************************)
EXTENDS IncidentStore

CONSTANTS
    IncidentWorkers,
    Profiled        \* Incidents whose alert carries a krca_profile

ASSUME ProfiledAssumption == Profiled \subseteq Incidents

VARIABLE iw     \* [IncidentWorkers -> worker state]

CollectionSteps == {"collect", "store_statuses", "store_evidence",
                    "leave_collecting", "complete_collection", "fail_collection"}
LocalizationSteps == {"plan", "store_candidates", "check_lease", "renew_lease",
                      "check_localizing", "store_context", "leave_localizing",
                      "mark_failed", "complete_localization", "fail_localization"}
LoopSteps == {"reap_collection", "reap_localization",
              "claim_localization", "claim_collection"}

\* claim: the attempt_count of the held claim; run: CollectionRun.status.
IncidentWorkerState ==
    [pc : LoopSteps, incident : {NoIncident}, claim : {0}, run : {"none"}]
    \cup [pc : CollectionSteps \cup LocalizationSteps, incident : Incidents,
          claim : Nat \ {0}, run : {"none", "SUCCEEDED", "PARTIAL", "FAILED"}]

IncidentWorkerInit ==
    iw = [w \in IncidentWorkers |->
            [pc |-> "reap_collection", incident |-> NoIncident, claim |-> 0, run |-> "none"]]

StageOf(pc) == IF pc \in CollectionSteps THEN "collection" ELSE "localization"

HoldsIncident(w) == iw[w].pc \in CollectionSteps \cup LocalizationSteps

-----------------------------------------------------------------------------
At(w, step) == iw[w].pc = step

Goto(w, step) == iw' = [iw EXCEPT ![w].pc = step]

Restart(w) ==
    iw' = [iw EXCEPT ![w] = [pc |-> "reap_collection", incident |-> NoIncident,
                             claim |-> 0, run |-> "none"]]

Begin(w, i, n, step) ==
    iw' = [iw EXCEPT ![w] = [pc |-> step, incident |-> i, claim |-> n, run |-> "none"]]

(* The call raises before it has written anything.                         *)
Raise(w, handler) == Goto(w, handler) /\ UNCHANGED storeVars

(* After a write the worker goes on, unless its acknowledgement was lost.  *)
Return(w, step, handler) == Goto(w, step) \/ Goto(w, handler)

-----------------------------------------------------------------------------
(* process_one: two reapers, then a claim                                  *)

ReapCollection(w) ==
    /\ At(w, "reap_collection")
    /\ \E b \in ReapBatches({i \in Incidents : Reapable("collection", i)}) :
            Reap("collection", b)
    /\ Goto(w, "reap_localization")

ReapLocalization(w) ==
    /\ At(w, "reap_localization")
    /\ \E b \in ReapBatches({i \in Incidents : Reapable("localization", i)}) :
            Reap("localization", b)
    /\ Goto(w, "claim_localization")

ClaimLocalization(w) ==
    /\ At(w, "claim_localization")
    /\ \/ \E i \in Incidents :
            /\ Claim("localization", i)
            /\ Begin(w, i, work["localization"][i].attempts + 1, "plan")
       \/ /\ \A i \in Incidents : ~Claimable("localization", i)
          /\ Goto(w, "claim_collection")
          /\ UNCHANGED storeVars

ClaimCollection(w) ==
    /\ At(w, "claim_collection")
    /\ \/ \E i \in Incidents :
            /\ Claim("collection", i)
            /\ Begin(w, i, work["collection"][i].attempts + 1, "collect")
       \/ /\ \A i \in Incidents : ~Claimable("collection", i)
          /\ Restart(w)
          /\ UNCHANGED storeVars

-----------------------------------------------------------------------------
(* Collection: collect_claimed_incident, then complete                     *)

(* The scope checks and the status check, then the collectors run; no      *)
(* transaction is open while they do.                                      *)
Collect(w) ==
    LET i == iw[w].incident IN
    /\ At(w, "collect")
    /\ \/ /\ status[i] = "COLLECTING"
          /\ \E run \in {"SUCCEEDED", "PARTIAL", "FAILED"} :
                iw' = [iw EXCEPT ![w].pc = "store_statuses", ![w].run = run]
       \/ Goto(w, "fail_collection")
    /\ UNCHANGED storeVars

StoreStatuses(w) ==
    LET i == iw[w].incident IN
    /\ At(w, "store_statuses")
    /\ \/ /\ ReplaceCollectorStatuses(i, iw[w].claim)
          /\ Return(w, "store_evidence", "fail_collection")
       \/ Raise(w, "fail_collection")

(* A run without a successful collector has no Evidence to store, and one  *)
(* whose collectors all succeeded need not have any: a provider may find   *)
(* nothing to report.                                                      *)
StoreCollected(w) ==
    LET found == IF iw[w].run = "FAILED" THEN {} ELSE {<<"collection", iw[w].claim>>} IN
    /\ At(w, "store_evidence")
    /\ \/ /\ \E items \in SUBSET found : StoreEvidence(iw[w].incident, items)
          /\ Return(w, "leave_collecting", "fail_collection")
       \/ Raise(w, "fail_collection")

LeaveCollecting(w) ==
    LET i == iw[w].incident
        next == IF iw[w].run = "FAILED" THEN "FAILED" ELSE "LOCALIZING"
    IN
    /\ At(w, "leave_collecting")
    /\ \/ /\ Transition(i, "COLLECTING", next)
          /\ Return(w, "complete_collection", "fail_collection")
       \/ Raise(w, "fail_collection")

CompleteCollection(w) ==
    LET i == iw[w].incident
        outcome == IF iw[w].run = "FAILED" THEN "FAILED" ELSE "SUCCEEDED"
    IN
    /\ At(w, "complete_collection")
    /\ \/ /\ Complete("collection", i, iw[w].claim, outcome)
          /\ Restart(w) \/ Goto(w, "fail_collection")
       \/ Raise(w, "fail_collection")

(* The except branch; when fail itself raises the row stays RUNNING        *)
(* (FAILURE_PERSISTENCE_FAILED) and only the reaper can settle it.         *)
FailCollection(w) ==
    /\ At(w, "fail_collection")
    /\ \/ Fail("collection", iw[w].incident, iw[w].claim)
       \/ UNCHANGED storeVars
    /\ Restart(w)

-----------------------------------------------------------------------------
(* Localization: _process_localization and localize_incident               *)

(* Scope checks, entity resolution and, for a profiled Incident, the KRCA  *)
(* plan, which needs the feature Evidence of every edge of the profile.  A *)
(* plan that selects further services either finds their collection        *)
(* checkpointed by an earlier claim or collects them now; one that selects *)
(* none goes straight to the freeze.                                       *)
Plan(w) ==
    LET i == iw[w].incident IN
    /\ At(w, "plan")
    /\ \/ /\ i \in Profiled => evidence[i] # {}
          /\ Goto(w, "check_localizing")
       \/ /\ i \in Profiled
          /\ evidence[i] # {}
          /\ Goto(w, IF checkpoint[i] # 0 THEN "check_lease" ELSE "store_candidates")
       \/ Goto(w, "fail_localization")
    /\ UNCHANGED storeVars

StoreCandidates(w) ==
    /\ At(w, "store_candidates")
    /\ \/ /\ StoreCollection(iw[w].incident, iw[w].claim)
          /\ Return(w, "check_lease", "fail_localization")
       \/ Raise(w, "fail_localization")

(* now >= claim.lease_expires_at, on the worker's own copy of the lease:   *)
(* the lease it was given has passed once the row has expired or has gone  *)
(* to a later claim.                                                       *)
CheckLease(w) ==
    LET i == iw[w].incident
        inTime == /\ Current("localization", i, iw[w].claim)
                  /\ ~LeaseExpired("localization", i)
    IN
    /\ At(w, "check_lease")
    /\ Goto(w, IF inTime THEN "renew_lease" ELSE "fail_localization")
    /\ UNCHANGED storeVars

RenewLease(w) ==
    /\ At(w, "renew_lease")
    /\ \/ /\ Renew("localization", iw[w].incident, iw[w].claim)
          /\ Return(w, "check_localizing", "fail_localization")
       \/ Raise(w, "fail_localization")

(* The status is read here and used after the graph has been queried.      *)
CheckLocalizing(w) ==
    /\ At(w, "check_localizing")
    /\ \/ /\ status[iw[w].incident] = "LOCALIZING"
          /\ Goto(w, "store_context")
       \/ Goto(w, "fail_localization")
    /\ UNCHANGED storeVars

(* localize_incident lists the Evidence first and raises when there is none *)
(* to project; Evidence is never removed, so what it has listed is still   *)
(* there when the Context is stored.                                       *)
FreezeContext(w) ==
    /\ At(w, "store_context")
    /\ \/ /\ StoreContext(iw[w].incident, iw[w].claim)
          /\ Return(w, "leave_localizing", "mark_failed")
       \/ Raise(w, "mark_failed")

LeaveLocalizing(w) ==
    /\ At(w, "leave_localizing")
    /\ \/ /\ Transition(iw[w].incident, "LOCALIZING", "ANALYZING")
          /\ Return(w, "complete_localization", "mark_failed")
       \/ Raise(w, "mark_failed")

(* _mark_failed_without_masking: whoever's claim it is.                    *)
MarkLocalizationFailed(w) ==
    /\ At(w, "mark_failed")
    /\ \/ Transition(iw[w].incident, "LOCALIZING", "FAILED")
       \/ UNCHANGED storeVars
    /\ Goto(w, "fail_localization")

CompleteLocalization(w) ==
    /\ At(w, "complete_localization")
    /\ \/ /\ Complete("localization", iw[w].incident, iw[w].claim, "SUCCEEDED")
          /\ Restart(w) \/ Goto(w, "fail_localization")
       \/ Raise(w, "fail_localization")

FailLocalization(w) ==
    /\ At(w, "fail_localization")
    /\ \/ Fail("localization", iw[w].incident, iw[w].claim)
       \/ UNCHANGED storeVars
    /\ Restart(w)

-----------------------------------------------------------------------------
(* The process dies between two transactions; its claim stays in the queue *)
CrashIncidentWorker(w) ==
    /\ HoldsIncident(w)
    /\ Restart(w)
    /\ UNCHANGED storeVars

IncidentWorkerStep(w) ==
    \/ ReapCollection(w) \/ ReapLocalization(w)
    \/ ClaimLocalization(w) \/ ClaimCollection(w)
    \/ Collect(w) \/ StoreStatuses(w) \/ StoreCollected(w) \/ LeaveCollecting(w)
    \/ CompleteCollection(w) \/ FailCollection(w)
    \/ Plan(w) \/ StoreCandidates(w) \/ CheckLease(w) \/ RenewLease(w)
    \/ CheckLocalizing(w) \/ FreezeContext(w) \/ LeaveLocalizing(w)
    \/ MarkLocalizationFailed(w) \/ CompleteLocalization(w) \/ FailLocalization(w)
=============================================================================
