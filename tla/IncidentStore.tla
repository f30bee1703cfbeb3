--------------------------- MODULE IncidentStore ---------------------------
(***************************************************************************)
(* The PostgreSQL database the workers share: the Incident documents and   *)
(* their artifacts (PostgreSQLIncidentRepository), the three lease queues  *)
(* (PostgreSQLIncident{,Localization,Analysis}WorkRepository) and the      *)
(* triggers of db/migrations that feed the queues.  Every operator with a  *)
(* primed variable is one transaction.                                     *)
(*                                                                         *)
(* A claim is identified by the attempt_count it was given: the UPDATE     *)
(* that increments attempt_count also writes a fresh uuid as claim_token,  *)
(* so for one row the pair is one-to-one and the count stands for the      *)
(* token.  A lease is "live" until Expire makes it "expired": the clock is *)
(* abstracted to the only thing the code asks of it, whether               *)
(* lease_expires_at <= now.                                                *)
(***************************************************************************)
EXTENDS Naturals, FiniteSets

CONSTANTS
    Incidents,      \* incident_id values
    NoIncident,     \* what a worker without a claim holds
    MaxAttempts,    \* max_attempts of the worker configuration (1..10)
    ReapLimit       \* LIMIT of the reapers' SELECT (50)

ASSUME NoIncidentAssumption == NoIncident \notin Incidents
ASSUME MaxAttemptsAssumption == MaxAttempts \in Nat \ {0}
ASSUME ReapLimitAssumption == ReapLimit \in Nat \ {0}

VARIABLES
    status,      \* incidents.status
    collected,   \* claim whose collector_statuses the document carries, 0 = none
    evidence,    \* claims <<stage, number>> that stored Evidence they collected
    checkpoint,  \* localization claim whose candidate collection is recorded, 0 = none
    contexts,    \* localization claims that stored a frozen Context Package
    audits,      \* Agent runs recorded: claim -> status
    reports,     \* stored RCA reports: the claim and the Context they cite
    work,        \* the three queues: stage -> Incident -> row
    pinned       \* incident_analysis_work_items.context_id, 0 = no row

artifactVars == <<collected, evidence, checkpoint, contexts, audits, reports>>
queueVars == <<work, pinned>>
storeVars == <<status, artifactVars, queueVars>>

-----------------------------------------------------------------------------
(* Types                                                                   *)

LC == INSTANCE IncidentLifecycle
          WITH frozen <- [i \in Incidents |-> contexts[i] # {}],
               published <- [i \in Incidents |-> reports[i] # {}]

Stages == {"collection", "localization", "analysis"}
RowStates == {"ABSENT", "READY", "RUNNING", "SUCCEEDED", "FAILED"}
Settled == {"SUCCEEDED", "FAILED"}
Leases == {"none", "live", "expired"}
Row == [state : RowStates, attempts : Nat, lease : Leases]
RunStatuses == {"none", "SUCCEEDED", "REJECTED"}
Report == [claim : Nat, context : Nat]

AbsentRow == [state |-> "ABSENT", attempts |-> 0, lease |-> "none"]
ReadyRow == [state |-> "READY", attempts |-> 0, lease |-> "none"]

\* The status an Incident has when its row is enqueued, while its row is
\* being worked on, and those a claim may be completed in.
ReadyStatus == [s \in Stages |-> CASE s = "collection"   -> "RECEIVED"
                                   [] s = "localization" -> "LOCALIZING"
                                   [] s = "analysis"     -> "ANALYZING"]
ActiveStatus == [s \in Stages |-> CASE s = "collection"   -> "COLLECTING"
                                    [] s = "localization" -> "LOCALIZING"
                                    [] s = "analysis"     -> "ANALYZING"]

StoreTypeOK ==
    /\ status \in [Incidents -> LC!Statuses]
    /\ collected \in [Incidents -> Nat]
    /\ evidence \in [Incidents -> SUBSET (Stages \X Nat)]
    /\ checkpoint \in [Incidents -> Nat]
    /\ contexts \in [Incidents -> SUBSET Nat]
    /\ audits \in [Incidents -> [1..MaxAttempts -> RunStatuses]]
    /\ reports \in [Incidents -> SUBSET Report]
    /\ work \in [Stages -> [Incidents -> Row]]
    /\ pinned \in [Incidents -> Nat]

StoreInit ==
    /\ status = [i \in Incidents |-> "NEW"]
    /\ collected = [i \in Incidents |-> 0]
    /\ evidence = [i \in Incidents |-> {}]
    /\ checkpoint = [i \in Incidents |-> 0]
    /\ contexts = [i \in Incidents |-> {}]
    /\ audits = [i \in Incidents |-> [n \in 1..MaxAttempts |-> "none"]]
    /\ reports = [i \in Incidents |-> {}]
    /\ work = [s \in Stages |-> [i \in Incidents |-> AbsentRow]]
    /\ pinned = [i \in Incidents |-> 0]

-----------------------------------------------------------------------------
(* The Incident repository                                                 *)

(* create_or_get_by_deduplication_key inserts the Incident; the trigger    *)
(* incidents_enqueue_collection_work inserts its collection row.           *)
Receive(i) ==
    /\ status[i] = "NEW"
    /\ status' = [status EXCEPT ![i] = "RECEIVED"]
    /\ work' = [work EXCEPT !["collection"][i] = ReadyRow]
    /\ UNCHANGED <<artifactVars, pinned>>

(* Trigger incidents_enqueue_localization_work: ON CONFLICT DO NOTHING.    *)
EnqueueLocalization(i) ==
    /\ work' = [work EXCEPT !["localization"][i] =
                    IF @.state = "ABSENT" THEN ReadyRow ELSE @]
    /\ UNCHANGED pinned

\* Mutant: ON CONFLICT DO UPDATE, the row is pinned to the newest Context.
EnqueueAnalysisAgain(i, available) ==
    IF available # {}
    THEN /\ work' = [work EXCEPT !["analysis"][i] = IF @.state = "ABSENT" THEN ReadyRow ELSE @]
         /\ \E c \in available : pinned' = [pinned EXCEPT ![i] = c]
    ELSE UNCHANGED queueVars

(* Triggers incidents_enqueue_analysis_work and                            *)
(* contexts_enqueue_analysis_work: one row per Incident, pinned to a       *)
(* Context.  The code takes the greatest (frozen_at, context_id); frozen_at *)
(* is a clock two workers read independently, so any stored one may win.   *)
EnqueueAnalysis(i, available) ==
    IF work["analysis"][i].state = "ABSENT" /\ available # {}
    THEN /\ work' = [work EXCEPT !["analysis"][i] = ReadyRow]
         /\ \E c \in available : pinned' = [pinned EXCEPT ![i] = c]
    ELSE UNCHANGED queueVars

Enqueue(i, next) ==
    CASE next = "LOCALIZING" -> EnqueueLocalization(i)
      [] next = "ANALYZING"  -> EnqueueAnalysis(i, contexts[i])
      [] OTHER               -> UNCHANGED queueVars

(* transition(expected_status, next_status): compare-and-set on the status *)
(* alone.  It carries no claim, so whoever holds the expected status wins. *)
CanTransition(i, expected, next) ==
    /\ status[i] = expected
    /\ next \in LC!AllowedTransitions[expected]

Transition(i, expected, next) ==
    /\ CanTransition(i, expected, next)
    /\ status' = [status EXCEPT ![i] = next]
    /\ Enqueue(i, next)
    /\ UNCHANGED artifactVars

ReplaceCollectorStatuses(i, n) ==
    /\ status[i] = "COLLECTING"
    /\ collected' = [collected EXCEPT ![i] = n]
    /\ UNCHANGED <<status, evidence, checkpoint, contexts, audits, reports, queueVars>>

\* Mutant: what an attempt collected replaces what is stored.
StoreEvidenceAnew(i, items) ==
    /\ evidence' = [evidence EXCEPT ![i] = items]
    /\ UNCHANGED <<status, collected, checkpoint, contexts, audits, reports, queueVars>>

StoreEvidence(i, items) ==
    /\ evidence' = [evidence EXCEPT ![i] = @ \cup items]
    /\ UNCHANGED <<status, collected, checkpoint, contexts, audits, reports, queueVars>>

(* A Context Package names at least one Evidence item and none that is not  *)
(* stored.  store_context checks no status; a Context stored while the     *)
(* Incident is already ANALYZING enqueues analysis work if there is none.  *)
StoreContext(i, n) ==
    /\ evidence[i] # {}
    /\ contexts' = [contexts EXCEPT ![i] = @ \cup {n}]
    /\ IF status[i] = "ANALYZING"
       THEN EnqueueAnalysis(i, {n})
       ELSE UNCHANGED queueVars
    /\ UNCHANGED <<status, collected, evidence, checkpoint, audits, reports>>

(* The agent_run_id is derived from the Context and the start time, so a   *)
(* second audit of the same run collides with the first and is refused.    *)
StoreAgentRun(i, n, result) ==
    /\ audits[i][n] \in {"none", result}
    /\ audits' = [audits EXCEPT ![i][n] = result]
    /\ UNCHANGED <<status, collected, evidence, checkpoint, contexts, reports, queueVars>>

StoreReport(i, n, context) ==
    /\ context \in contexts[i]
    /\ reports' = [reports EXCEPT ![i] = @ \cup {[claim |-> n, context |-> context]}]
    /\ UNCHANGED <<status, collected, evidence, checkpoint, contexts, audits, queueVars>>

-----------------------------------------------------------------------------
(* The lease queues                                                        *)

Current(s, i, n) == work[s][i].state = "RUNNING" /\ work[s][i].attempts = n

LeaseExpired(s, i) == work[s][i].lease = "expired"

\* Mutants: a RUNNING row is taken whatever its lease; an abandoned row is
\* never taken over.
ClaimableDespiteLease(s, i) ==
    \/ work[s][i].state = "READY" /\ status[i] = ReadyStatus[s]
    \/ /\ work[s][i].state = "RUNNING"
       /\ work[s][i].attempts < MaxAttempts
       /\ status[i] = ActiveStatus[s]

ClaimableWhenReady(s, i) == work[s][i].state = "READY" /\ status[i] = ReadyStatus[s]

Claimable(s, i) ==
    \/ work[s][i].state = "READY" /\ status[i] = ReadyStatus[s]
    \/ /\ work[s][i].state = "RUNNING"
       /\ LeaseExpired(s, i)
       /\ work[s][i].attempts < MaxAttempts
       /\ status[i] = ActiveStatus[s]

\* Mutant: the reclaim of an expired row does not count as an attempt.
ClaimUncounted(s, i) ==
    /\ Claimable(s, i)
    /\ status' = [status EXCEPT ![i] = ActiveStatus[s]]
    /\ work' = [work EXCEPT ![s][i] = [state |-> "RUNNING", attempts |-> 1, lease |-> "live"]]
    /\ UNCHANGED <<artifactVars, pinned>>

(* claim_next / claim_incident / claim_next_eligible.  Only a first        *)
(* collection claim changes the status.                                    *)
Claim(s, i) ==
    /\ Claimable(s, i)
    /\ status' = [status EXCEPT ![i] = ActiveStatus[s]]
    /\ work' = [work EXCEPT ![s][i] = [state |-> "RUNNING",
                                       attempts |-> @.attempts + 1,
                                       lease |-> "live"]]
    /\ UNCHANGED <<artifactVars, pinned>>

SettledRow(row, outcome) == [row EXCEPT !.state = outcome, !.lease = "none"]

(* renew checks the token and nothing else: an expired lease that nobody   *)
(* has taken over comes back to life.                                      *)
Renew(s, i, n) ==
    /\ Current(s, i, n)
    /\ work' = [work EXCEPT ![s][i].lease = "live"]
    /\ UNCHANGED <<status, artifactVars, pinned>>

CompletesIn ==
    [s \in Stages |->
        CASE s = "collection"   -> {"LOCALIZING", "ANALYZING", "REPORTED", "PARTIAL", "FAILED"}
          [] s = "localization" -> {"ANALYZING"}
          [] s = "analysis"     -> {"REPORTED"}]

CanComplete(s, i, n) == Current(s, i, n) /\ status[i] \in CompletesIn[s]

Complete(s, i, n, outcome) ==
    /\ CanComplete(s, i, n)
    /\ work' = [work EXCEPT ![s][i] = SettledRow(@, outcome)]
    /\ UNCHANGED <<status, artifactVars, pinned>>

\* Mutant: the claim alone decides, not the Incident's status.
CanFailWhileClaimed(s, i, n) == Current(s, i, n)

CanFail(s, i, n) == Current(s, i, n) /\ status[i] \in {ActiveStatus[s], "FAILED"}

\* Mutant: the row is settled but the Incident is not failed.
FailRowOnly(s, i, n) ==
    /\ CanFail(s, i, n)
    /\ work' = [work EXCEPT ![s][i] = SettledRow(@, "FAILED")]
    /\ UNCHANGED <<status, artifactVars, pinned>>

Fail(s, i, n) ==
    /\ CanFail(s, i, n)
    /\ status' = [status EXCEPT ![i] = "FAILED"]
    /\ work' = [work EXCEPT ![s][i] = SettledRow(@, "FAILED")]
    /\ UNCHANGED <<artifactVars, pinned>>

\* Mutant: a REPORTED Incident is no reason to settle its analysis row.
RecoveredInPartial ==
    [s \in Stages |->
        CASE s = "collection"   -> {"LOCALIZING", "ANALYZING", "REPORTED", "PARTIAL"}
          [] s = "localization" -> {"ANALYZING"}
          [] s = "analysis"     -> {"PARTIAL"}]

(* reap_exhausted: an expired row whose Incident has moved on is settled   *)
(* after the fact; one whose attempts are spent fails its Incident.        *)
RecoveredIn ==
    [s \in Stages |->
        CASE s = "collection"   -> {"LOCALIZING", "ANALYZING", "REPORTED", "PARTIAL"}
          [] s = "localization" -> {"ANALYZING"}
          [] s = "analysis"     -> {"REPORTED", "PARTIAL"}]

Reapable(s, i) ==
    /\ work[s][i].state = "RUNNING"
    /\ LeaseExpired(s, i)
    /\ \/ status[i] \in RecoveredIn[s] \cup {"FAILED"}
       \/ status[i] = ActiveStatus[s] /\ work[s][i].attempts >= MaxAttempts

ReapBatches(rows) ==
    {b \in SUBSET rows :
        Cardinality(b) = IF Cardinality(rows) <= ReapLimit
                         THEN Cardinality(rows) ELSE ReapLimit}

\* Mutant: the exhausted row is settled but its Incident is not failed.
ReapRowsOnly(s, batch) ==
    /\ work' = [work EXCEPT ![s] = [i \in Incidents |->
                    IF i \in batch
                    THEN SettledRow(@[i], IF status[i] \in RecoveredIn[s]
                                          THEN "SUCCEEDED" ELSE "FAILED")
                    ELSE @[i]]]
    /\ UNCHANGED <<status, artifactVars, pinned>>

Reap(s, batch) ==
    /\ status' = [i \in Incidents |->
                    IF i \in batch /\ status[i] = ActiveStatus[s]
                    THEN "FAILED" ELSE status[i]]
    /\ work' = [work EXCEPT ![s] = [i \in Incidents |->
                    IF i \in batch
                    THEN SettledRow(@[i], IF status[i] \in RecoveredIn[s]
                                          THEN "SUCCEEDED" ELSE "FAILED")
                    ELSE @[i]]]
    /\ UNCHANGED <<artifactVars, pinned>>

(* store_collection of the localization queue: the only artifact write     *)
(* that is fenced, by the token and by the lease.  Statuses and Evidence   *)
(* of the batch are merged into the Incident's in the same transaction.    *)
(* The selection names feature Evidence, all of which must be stored; the  *)
(* batch itself may be empty.                                              *)
CanStoreCollection(i, n) ==
    /\ Current("localization", i, n)
    /\ ~LeaseExpired("localization", i)
    /\ status[i] = "LOCALIZING"
    /\ checkpoint[i] = 0
    /\ contexts[i] = {}
    /\ evidence[i] # {}

StoreCollection(i, n) ==
    /\ CanStoreCollection(i, n)
    /\ checkpoint' = [checkpoint EXCEPT ![i] = n]
    /\ \E items \in SUBSET {<<"localization", n>>} :
            evidence' = [evidence EXCEPT ![i] = @ \cup items]
    /\ UNCHANGED <<status, collected, contexts, audits, reports, queueVars>>

(* Time reaches lease_expires_at.                                          *)
Expire(s, i) ==
    /\ work[s][i].lease = "live"
    /\ work' = [work EXCEPT ![s][i].lease = "expired"]
    /\ UNCHANGED <<status, artifactVars, pinned>>

-----------------------------------------------------------------------------
(* Invariants of the database                                              *)

InWork == {"READY", "RUNNING"}

(* An unfinished Incident is always in the queue of its stage.  Nothing    *)
(* else ever picks it up: a row that was never inserted, or settled before *)
(* the Incident moved on, would leave it unfinished for ever.              *)
NoStrandedIncident ==
    \A s \in Stages, i \in Incidents :
        /\ status[i] = ReadyStatus[s] => work[s][i].state \in InWork
        /\ status[i] = ActiveStatus[s] => work[s][i].state \in InWork

(* A READY row can be claimed.  No reaper looks at READY rows, so one whose *)
(* Incident had left the stage would wait for ever.                        *)
ReadyWorkIsClaimable ==
    \A s \in Stages, i \in Incidents :
        work[s][i].state = "READY" => Claimable(s, i)

(* No more claims of a row are ever handed out than max_attempts, and a    *)
(* RUNNING row is never without an attempt.                                *)
AttemptsAreBounded ==
    \A s \in Stages, i \in Incidents :
        /\ work[s][i].attempts <= MaxAttempts
        /\ work[s][i].state \in {"ABSENT", "READY"} <=> work[s][i].attempts = 0

(* A row has a lease exactly while it is RUNNING (the CHECK constraint of  *)
(* the queue tables); an Incident has no row in the queue of a stage it    *)
(* has not reached; an analysis row is pinned, and nothing else is.        *)
QueuesFollowStatus ==
    \A i \in Incidents :
        /\ \A s \in Stages : work[s][i].state = "RUNNING" <=> work[s][i].lease # "none"
        /\ status[i] = "NEW" => work["collection"][i].state = "ABSENT"
        /\ status[i] \in {"NEW", "RECEIVED", "COLLECTING"} =>
                work["localization"][i].state = "ABSENT"
        /\ status[i] \in {"NEW", "RECEIVED", "COLLECTING", "LOCALIZING"} =>
                work["analysis"][i].state = "ABSENT"
        /\ pinned[i] # 0 => work["analysis"][i].state # "ABSENT"

StoreInv ==
    /\ AttemptsAreBounded
    /\ QueuesFollowStatus
    /\ NoStrandedIncident
    /\ ReadyWorkIsClaimable
=============================================================================
